----------------------------- MODULE RlglProofs -----------------------------
(***************************************************************************)
(* Theorems about Rlgl, for a vertex buffer and a list of draws of any     *)
(* size: nothing is written behind them, what was sent is what the device  *)
(* draws or would draw now, and modes leave nothing behind.                *)
(*                                                                         *)
(* Two invariants, one about the batch and one about the modes; what each  *)
(* function of rlgl.h does to a state comes first.                         *)
(***************************************************************************)
EXTENDS Rlgl, WellFoundedInduction, SequenceTheorems, TLAPS
-----------------------------------------------------------------------------
(* Numbers. *)

LEMMA LeastExists ==
    ASSUME NEW S, S \subseteq Nat, S # {}
    PROVE  \E x \in S : \A y \in S : x <= y
<1> DEFINE R == OpToRel(<, Nat)
<1>1. PICK x \in S : \A y \in S : ~(<<y, x>> \in R)
  BY NatLessThanWellFounded, WFMin, Zenon
<1>2. \A y \in S : ~(y < x)
  BY <1>1 DEF OpToRel
<1> QED
  BY <1>2

LEMMA UpTo ==
    ASSUME NEW n \in Nat, NEW S, 0 \in S, \A i \in 0..(n - 1) : i \in S => i + 1 \in S
    PROVE  0..n \subseteq S
<1> DEFINE T == {i \in 0..n : i \notin S}
<1> SUFFICES ASSUME T # {}  PROVE FALSE
  OBVIOUS
<1>0. T \subseteq Nat
  OBVIOUS
<1>1. PICK x \in T : \A i \in T : x <= i
  <2> HIDE DEF T
  <2> QED
    BY <1>0, LeastExists
<1>2. x - 1 \in 0..(n - 1) /\ x - 1 \notin T
  BY <1>1
<1> QED
  BY <1>1, <1>2

\* A definition by recursion over 0..n has a solution.
Solves(g, m, X, x, F) ==
    g \in [0..m -> X] /\ \A i \in 0..m : g[i] = IF i = 0 THEN x ELSE F[i][g[i - 1]]

LEMMA RecursionExists ==
    ASSUME NEW n \in Nat, NEW X, NEW x \in X, NEW F \in [1..n -> [X -> X]]
    PROVE  \E g : Solves(g, n, X, x, F)
<1> DEFINE S == {m \in 0..n : \E g : Solves(g, m, X, x, F)}
<1>1. 0 \in S
  <2>1. Solves([i \in 0..0 |-> x], 0, X, x, F)
    BY DEF Solves
  <2> QED
    BY <2>1
<1>2. ASSUME NEW m \in 0..(n - 1), m \in S  PROVE m + 1 \in S
  <2>1. PICK g : Solves(g, m, X, x, F)
    BY <1>2
  <2> DEFINE h == [i \in 0..(m + 1) |-> IF i <= m THEN g[i] ELSE F[m + 1][g[m]]]
  <2>2. g[m] \in X /\ F[m + 1][g[m]] \in X
    BY <2>1 DEF Solves
  <2>3. h \in [0..(m + 1) -> X]
    BY <2>1, <2>2 DEF Solves
  <2>4. \A i \in 0..(m + 1) : h[i] = IF i = 0 THEN x ELSE F[i][h[i - 1]]
    BY <2>1 DEF Solves
  <2>5. Solves(h, m + 1, X, x, F)
    BY <2>3, <2>4 DEF Solves
  <2> QED
    BY <2>5
<1>3. n \in S
  <2> HIDE DEF S
  <2>1. 0..n \subseteq S
    BY <1>1, <1>2, UpTo
  <2> QED
    BY <2>1
<1> QED
  BY <1>3

\* The same, when each value is the one before it with an item of a sequence of
\* terms added to it: numbers, and sequences.
\* The sums, and the concatenations, of the first i of n terms, as they are defined.
Sums(g, n, T)     == g = [i \in 0..n |-> IF i = 0 THEN 0 ELSE g[i - 1] + T[i]]
Concats(g, n, T)  == g = [i \in 0..n |-> IF i = 0 THEN <<>> ELSE g[i - 1] \o T[i]]

LEMMA SumExists ==
    ASSUME NEW n \in Nat, NEW T \in [1..n -> Nat]
    PROVE  \E g : Sums(g, n, T)
<1> DEFINE F == [i \in 1..n |-> [t \in Nat |-> t + T[i]]]
<1>1. F \in [1..n -> [Nat -> Nat]]
  OBVIOUS
<1>2. PICK g : Solves(g, n, Nat, 0, F)
  <2> HIDE DEF F
  <2> QED
    BY <1>1, RecursionExists
<1>9. /\ \A i \in 0..n : g[i] \in Nat /\ g[i] = IF i = 0 THEN 0 ELSE F[i][g[i - 1]]
      /\ 0 \in 0..n /\ \A i \in 1..n : i \in 0..n /\ i - 1 \in 0..n /\ i # 0
      /\ \A i \in 0..n : i = 0 \/ i \in 1..n
  <2> HIDE DEF F
  <2> QED
    BY <1>2 DEF Solves
<1>3. ASSUME NEW i \in 1..n  PROVE g[i - 1] \in Nat /\ g[i] = g[i - 1] + T[i]
  <2>1. g[i - 1] \in Nat /\ g[i] = F[i][g[i - 1]]
    BY <1>9, Zenon
  <2>2. F[i] = [t \in Nat |-> t + T[i]]
    OBVIOUS
  <2> HIDE DEF F
  <2> QED
    BY <2>1, <2>2
<1>4. Sums(g, n, T)
  <2>1. g = [i \in 0..n |-> g[i]]
    BY <1>2 DEF Solves
  <2>3. g[0] = 0
    BY <1>9, Zenon
  <2>2. \A i \in 0..n : g[i] = IF i = 0 THEN 0 ELSE g[i - 1] + T[i]
    BY <1>3, <1>9, <2>3, Zenon
  <2> QED
    BY <2>1, <2>2, Zenon DEF Sums
<1> QED
  BY <1>4, Zenon

LEMMA SumsAre ==
    ASSUME NEW n \in Nat, NEW T \in [1..n -> Nat], NEW f,
           Sums(f, n, T)
    PROVE  /\ f \in [0..n -> Nat] /\ f[0] = 0
           /\ \A i \in 1..n : f[i] = f[i - 1] + T[i]
<1>9. /\ 0 \in 0..n /\ \A i \in 1..n : i \in 0..n /\ i - 1 \in 0..n /\ i # 0
      /\ \A i \in 0..n : i = 0 \/ i \in 1..n
  OBVIOUS
<1>7. \A i \in 0..n : f[i] = IF i = 0 THEN 0 ELSE f[i - 1] + T[i]
  BY DEF Sums
<1>6. f[0] = 0 /\ \A i \in 1..n : f[i] = f[i - 1] + T[i]
  BY <1>7, <1>9, Zenon
<1> DEFINE S == {i \in 0..n : f[i] \in Nat}
<1>10. 0..n \subseteq S
  <2>1. 0 \in S
    BY <1>6
  <2>2. ASSUME NEW i \in 0..(n - 1), i \in S  PROVE i + 1 \in S
    <3>1. i + 1 \in 1..n /\ i + 1 \in 0..n /\ (i + 1) - 1 = i
      OBVIOUS
    <3>2. f[i + 1] = f[i] + T[i + 1] /\ T[i + 1] \in Nat
      BY <1>6, <3>1
    <3> QED
      BY <2>2, <3>1, <3>2
  <2> HIDE DEF S
  <2> QED
    BY <2>1, <2>2, UpTo
<1>8. DOMAIN f = 0..n /\ f = [i \in 0..n |-> f[i]]
  BY DEF Sums
<1> QED
  BY <1>6, <1>8, <1>10

LEMMA ConcatExists ==
    ASSUME NEW n \in Nat, NEW D, NEW T \in [1..n -> Seq(D)]
    PROVE  \E g : Concats(g, n, T)
<1> DEFINE X == Seq(D)
           F == [i \in 1..n |-> [t \in X |-> t \o T[i]]]
<1>0. <<>> \in X /\ \A s, t \in X : s \o t \in X
  OBVIOUS
<1> HIDE DEF X
<1>1. F \in [1..n -> [X -> X]]
  BY <1>0 DEF X
<1>2. PICK g : Solves(g, n, X, <<>>, F)
  <2> HIDE DEF F
  <2> QED
    BY <1>0, <1>1, RecursionExists
<1>9. /\ \A i \in 0..n : g[i] \in X /\ g[i] = IF i = 0 THEN <<>> ELSE F[i][g[i - 1]]
      /\ 0 \in 0..n /\ \A i \in 1..n : i \in 0..n /\ i - 1 \in 0..n /\ i # 0
      /\ \A i \in 0..n : i = 0 \/ i \in 1..n
  <2> HIDE DEF F
  <2> QED
    BY <1>2 DEF Solves
<1>3. ASSUME NEW i \in 1..n  PROVE g[i - 1] \in X /\ g[i] = g[i - 1] \o T[i]
  <2>1. g[i - 1] \in X /\ g[i] = F[i][g[i - 1]]
    BY <1>9, Zenon
  <2>2. F[i] = [t \in X |-> t \o T[i]]
    OBVIOUS
  <2> HIDE DEF F
  <2> QED
    BY <2>1, <2>2
<1>4. Concats(g, n, T)
  <2>1. g = [i \in 0..n |-> g[i]]
    BY <1>2 DEF Solves
  <2>3. g[0] = <<>>
    BY <1>9, Zenon
  <2>2. \A i \in 0..n : g[i] = IF i = 0 THEN <<>> ELSE g[i - 1] \o T[i]
    BY <1>3, <1>9, <2>3, Zenon
  <2> QED
    BY <2>1, <2>2, Zenon DEF Concats
<1> QED
  BY <1>4, Zenon

LEMMA ConcatsAre ==
    ASSUME NEW n \in Nat, NEW D, NEW T \in [1..n -> Seq(D)], NEW f,
           Concats(f, n, T)
    PROVE  /\ f \in [0..n -> Seq(D)] /\ f[0] = <<>>
           /\ \A i \in 1..n : f[i] = f[i - 1] \o T[i]
<1> DEFINE X == Seq(D)
<1>0. <<>> \in X /\ \A s, t \in X : s \o t \in X
  OBVIOUS
<1> HIDE DEF X
<1>9. /\ 0 \in 0..n /\ \A i \in 1..n : i \in 0..n /\ i - 1 \in 0..n /\ i # 0
      /\ \A i \in 0..n : i = 0 \/ i \in 1..n
  OBVIOUS
<1>7. \A i \in 0..n : f[i] = IF i = 0 THEN <<>> ELSE f[i - 1] \o T[i]
  BY DEF Concats
<1>6. f[0] = <<>> /\ \A i \in 1..n : f[i] = f[i - 1] \o T[i]
  BY <1>7, <1>9, Zenon
<1> DEFINE S == {i \in 0..n : f[i] \in X}
<1>10. 0..n \subseteq S
  <2>1. 0 \in S
    BY <1>0, <1>6
  <2>2. ASSUME NEW i \in 0..(n - 1), i \in S  PROVE i + 1 \in S
    <3>1. i + 1 \in 1..n /\ i + 1 \in 0..n /\ (i + 1) - 1 = i
      OBVIOUS
    <3>2. f[i + 1] = f[i] \o T[i + 1] /\ T[i + 1] \in X
      BY <1>6, <3>1 DEF X
    <3> QED
      BY <1>0, <2>2, <3>1, <3>2
  <2> HIDE DEF S
  <2> QED
    BY <2>1, <2>2, UpTo
<1>8. DOMAIN f = 0..n /\ f = [i \in 0..n |-> f[i]]
  BY DEF Concats
<1> QED
  BY <1>6, <1>8, <1>10 DEF X
-----------------------------------------------------------------------------
(* Types. *)

\* What is told apart by its name: colours, shaders, blending, targets, matrices.
Names      == {Default, "shader", "material", "none", "white", "tint", "ALPHA", "ADDITIVE", "CUSTOM",
               "window", "target", "all", "part", "mesh", "translation", "camera", "view",
               "perspective", "screenScale", "window ortho", "target ortho"}
Words      == Seq(Names)
TextureIds == Textures \cup {Default}
Modes      == {"LINES", "TRIANGLES", "QUADS"}
Matrices   == {"projection", "modelview", "transform"}
Vertex     == [at : Nat, transform : Words, color : Names, texcoord : Nat, normal : Words]
Draw       == [mode : Modes, count : Nat, alignment : Nat, texture : TextureIds]
Batches    == [draws : [1..DrawCalls -> Draw], drawCounter : 1..DrawCalls,
               vertices : Seq(Vertex \cup {Gap})]
Settings   == [shader : Names, projection : Words, modelview : Words, blend : Names \X Nat,
               framebuffer : Names, viewport : Names, scissor : Names, depthTest : BOOLEAN,
               culling : BOOLEAN]
OnScreen   == [mode : Modes \cup {"MESH"}, texture : TextureIds \cup {"material"},
               vertices : Seq(Vertex \cup {Gap} \cup Words), setting : Settings]
                 \cup [clear : Names, scissor : Names]

GLType ==
    [batch : Batches, currentTextureId : TextureIds, shader : Names, matrixMode : Matrices,
     current : Matrices, transformRequired : BOOLEAN,
     matrix : [projection : Words, modelview : Words, transform : Words], stack : Seq(Words),
     color : Names, normal : Words, texcoord : Nat, blend : Names, factors : Nat,
     factorsModified : BOOLEAN, usedFactors : Nat, framebuffer : Names, viewport : Names,
     scissor : Names, depthTest : BOOLEAN, culling : BOOLEAN, overrun : BOOLEAN,
     drawn : Seq(OnScreen)]

\* What a state is besides its batch, its pen and what was drawn.
SameContext(r, s) ==
    /\ r.shader = s.shader /\ r.matrixMode = s.matrixMode /\ r.current = s.current
    /\ r.transformRequired = s.transformRequired /\ r.matrix = s.matrix /\ r.stack = s.stack
    /\ r.blend = s.blend /\ r.factors = s.factors /\ r.factorsModified = s.factorsModified
    /\ r.usedFactors = s.usedFactors /\ r.framebuffer = s.framebuffer /\ r.viewport = s.viewport
    /\ r.scissor = s.scissor /\ r.depthTest = s.depthTest /\ r.culling = s.culling

SamePen(r, s) ==
    /\ r.currentTextureId = s.currentTextureId
    /\ r.color = s.color /\ r.normal = s.normal /\ r.texcoord = s.texcoord

LEMMA SameSetting ==
    ASSUME NEW r, NEW s, SameContext(r, s)
    PROVE  Setting(r) = Setting(s)
BY DEF SameContext, Setting

LEMMA SettingType ==
    ASSUME NEW s \in GLType
    PROVE  Setting(s) \in Settings
BY DEF GLType, Setting, Settings

LEMMA BatchType ==
    ASSUME NEW s \in GLType
    PROVE  /\ s.batch \in Batches
           /\ s.batch.draws \in [1..DrawCalls -> Draw] /\ s.batch.drawCounter \in 1..DrawCalls
           /\ s.batch.vertices \in Seq(Vertex \cup {Gap}) /\ Len(s.batch.vertices) \in Nat
           /\ s.batch.draws[s.batch.drawCounter] \in Draw
           /\ \A i \in 1..DrawCalls :
                /\ s.batch.draws[i] \in Draw /\ s.batch.draws[i].mode \in Modes
                /\ s.batch.draws[i].count \in Nat /\ s.batch.draws[i].alignment \in Nat
                /\ s.batch.draws[i].texture \in TextureIds
           /\ s.drawn \in Seq(OnScreen) /\ s.overrun \in BOOLEAN
           /\ s.currentTextureId \in TextureIds
<1>1. s.batch \in Batches /\ s.drawn \in Seq(OnScreen) /\ s.overrun \in BOOLEAN
      /\ s.currentTextureId \in TextureIds
  BY DEF GLType
<1>2. /\ s.batch.draws \in [1..DrawCalls -> Draw] /\ s.batch.drawCounter \in 1..DrawCalls
      /\ s.batch.vertices \in Seq(Vertex \cup {Gap})
  BY <1>1 DEF Batches
<1>3. \A i \in 1..DrawCalls : s.batch.draws[i] \in Draw
  BY <1>2
<1> QED
  BY <1>1, <1>2, <1>3 DEF Draw

\* Where the draws start.
LEMMA OffsetsAre ==
    ASSUME NEW s \in GLType
    PROVE  /\ vertexOffset(s, 1) = 0
           /\ \A i \in 1..DrawCalls :
                /\ vertexOffset(s, i) \in Nat /\ vertexOffset(s, i + 1) \in Nat
                /\ vertexOffset(s, i + 1) = vertexOffset(s, i)
                     + (s.batch.draws[i].count + s.batch.draws[i].alignment)
<1> DEFINE n == DrawCalls
           T == [i \in 1..n |-> s.batch.draws[i].count + s.batch.draws[i].alignment]
           Is(h) == h = [k \in 0..n |-> IF k = 0 THEN 0
                           ELSE h[k - 1] + (s.batch.draws[k].count + s.batch.draws[k].alignment)]
           f == CHOOSE h : Is(h)
<1>1. n \in Nat /\ n >= 1
  BY BatchAssumption
<1>2. T \in [1..n -> Nat] /\ \A k \in 1..n : T[k] = s.batch.draws[k].count + s.batch.draws[k].alignment
  BY BatchType
<1>3. \A i : vertexOffset(s, i) = f[i - 1]
  BY DEF vertexOffset
<1>4. \A k \in 0..n : k # 0 => k \in 1..n
  OBVIOUS
<1> HIDE DEF T
<1>5. PICK g : Sums(g, n, T)
  <2>1. n \in Nat /\ T \in [1..n -> Nat]
    BY <1>1, <1>2
  <2> HIDE DEF n
  <2> QED
    BY <2>1, SumExists
<1>6. Is(g)
  BY <1>2, <1>4, <1>5 DEF Sums
<1>7. Is(f)
  BY <1>6
<1> HIDE DEF f
<1>8. Sums(f, n, T)
  BY <1>2, <1>4, <1>7 DEF Sums
<1>9. f \in [0..n -> Nat] /\ f[0] = 0 /\ \A k \in 1..n : f[k] = f[k - 1] + T[k]
  <2>1. n \in Nat /\ T \in [1..n -> Nat]
    BY <1>1, <1>2
  <2> HIDE DEF n
  <2> QED
    BY <2>1, <1>8, SumsAre
<1>10. vertexOffset(s, 1) = 0
  BY <1>3, <1>9
<1>11. ASSUME NEW i \in 1..n
       PROVE  /\ vertexOffset(s, i) \in Nat /\ vertexOffset(s, i + 1) \in Nat
              /\ vertexOffset(s, i + 1) = vertexOffset(s, i) + T[i]
  <2>1. (i + 1) - 1 = i /\ i - 1 \in 0..n /\ i \in 0..n
    BY <1>1
  <2> QED
    BY <1>3, <1>9, <2>1
<1> QED
  BY <1>2, <1>10, <1>11

\* What a draw draws.
LEMMA PrimitivesType ==
    ASSUME NEW s \in GLType, NEW i \in 1..DrawCalls
    PROVE  /\ DrawnBy(s, i) \in Seq(OnScreen)
           /\ Len(DrawnBy(s, i)) = s.batch.draws[i].count \div PerPrimitive(s.batch.draws[i].mode)
<1> DEFINE draw == s.batch.draws[i]
           k == PerPrimitive(draw.mode)
           m == draw.count \div k
           first == IF draw.mode = "QUADS" THEN (vertexOffset(s, i) \div 4) * 4 ELSE vertexOffset(s, i)
           V(n) == [v \in 1..k |-> VertexAt(s, first + (n - 1) * k + v - 1)]
           P(n) == Primitive(draw.mode, draw.texture, V(n), Setting(s))
<1>1. draw.mode \in Modes /\ draw.count \in Nat /\ draw.texture \in TextureIds
  BY BatchType
<1>2. k \in {2, 3, 4}
  BY <1>1 DEF PerPrimitive, Modes
<1> HIDE DEF k
<1>3. m \in Nat
  BY <1>1, <1>2
<1>4. first \in Nat
  BY OffsetsAre
<1> HIDE DEF first, m
<1>5. ASSUME NEW n \in 1..m  PROVE P(n) \in OnScreen
  <2>1. ASSUME NEW v \in 1..k  PROVE VertexAt(s, first + (n - 1) * k + v - 1) \in Vertex \cup {Gap}
    <3>1. first + (n - 1) * k + v - 1 \in Nat
      <4>1. (n - 1) * k \in Nat
        BY <1>2, <1>3
      <4> QED
        BY <1>4, <1>2, <4>1
    <3>2. s.batch.vertices \in Seq(Vertex \cup {Gap})
      BY BatchType
    <3> HIDE DEF Vertex
    <3> QED
      BY <3>1, <3>2 DEF VertexAt
  <2>2. V(n) \in Seq(Vertex \cup {Gap} \cup Words)
    BY <1>2, <2>1
  <2>3. Setting(s) \in Settings
    BY SettingType
  <2> HIDE DEF V
  <2> QED
    BY <1>1, <2>2, <2>3 DEF OnScreen, Primitive
<1>6. DrawnBy(s, i) = [n \in 1..m |-> P(n)]
  BY DEF DrawnBy, k, m, first
<1> HIDE DEF P
<1>7. DrawnBy(s, i) \in Seq(OnScreen) /\ Len(DrawnBy(s, i)) = m
  <2> HIDE DEF draw
  <2> QED
    BY <1>3, <1>5, <1>6
<1> QED
  BY <1>7, Zenon DEF m, k, draw

\* What the first draws draw.
LEMMA DrawnAre ==
    ASSUME NEW s \in GLType
    PROVE  /\ DrawnUpTo(s, 0) = <<>>
           /\ \A i \in 0..DrawCalls : DrawnUpTo(s, i) \in Seq(OnScreen)
           /\ \A i \in 1..DrawCalls : DrawnUpTo(s, i) = DrawnUpTo(s, i - 1) \o DrawnBy(s, i)
<1> DEFINE n == DrawCalls
           T == [i \in 1..n |-> DrawnBy(s, i)]
           Is(h) == h = [i \in 0..n |-> IF i = 0 THEN <<>> ELSE h[i - 1] \o DrawnBy(s, i)]
           f == CHOOSE h : Is(h)
<1>1. n \in Nat /\ n >= 1
  BY BatchAssumption
<1>2. T \in [1..n -> Seq(OnScreen)] /\ \A i \in 1..n : T[i] = DrawnBy(s, i)
  BY PrimitivesType
<1>3. \A i : DrawnUpTo(s, i) = f[i]
  BY DEF DrawnUpTo
<1>4. \A i \in 0..n : i # 0 => i \in 1..n
  OBVIOUS
<1> HIDE DEF T
<1>5. PICK g : Concats(g, n, T)
  <2> HIDE DEF n
  <2> QED
    BY <1>1, <1>2, ConcatExists
<1>6. Is(g)
  BY <1>2, <1>4, <1>5 DEF Concats
<1>7. Is(f)
  BY <1>6
<1> HIDE DEF f
<1>8. Concats(f, n, T)
  BY <1>2, <1>4, <1>7 DEF Concats
<1>9. f \in [0..n -> Seq(OnScreen)] /\ f[0] = <<>> /\ \A i \in 1..n : f[i] = f[i - 1] \o T[i]
  <2>1. n \in Nat /\ T \in [1..n -> Seq(OnScreen)]
    BY <1>1, <1>2
  <2> DEFINE D == OnScreen
  <2> HIDE DEF n, D
  <2>2. T \in [1..n -> Seq(D)]
    BY <2>1 DEF D
  <2>3. f \in [0..n -> Seq(D)] /\ f[0] = <<>> /\ \A i \in 1..n : f[i] = f[i - 1] \o T[i]
    BY ZenonT(60), <2>1, <2>2, <1>8, ConcatsAre
  <2> QED
    BY <2>3 DEF D
<1>10. \A i \in 0..n : DrawnUpTo(s, i) \in Seq(OnScreen)
  BY <1>3, <1>9
<1>11. \A i \in 1..n : DrawnUpTo(s, i) = DrawnUpTo(s, i - 1) \o DrawnBy(s, i)
  BY <1>2, <1>3, <1>9, Zenon
<1> QED
  BY <1>3, <1>9, <1>10, <1>11

\* An empty draw draws nothing.
LEMMA EmptyDrawsNothing ==
    ASSUME NEW s \in GLType, NEW i \in 1..DrawCalls, s.batch.draws[i].count = 0
    PROVE  DrawnBy(s, i) = <<>> /\ DrawnUpTo(s, i) = DrawnUpTo(s, i - 1)
<1>1. PerPrimitive(s.batch.draws[i].mode) \in {2, 3, 4}
  BY DEF PerPrimitive
<1>2. DrawnBy(s, i) \in Seq(OnScreen) /\ Len(DrawnBy(s, i)) = 0
  BY <1>1, PrimitivesType
<1>3. DrawnBy(s, i) = <<>>
  BY <1>2
<1>4. DrawnUpTo(s, i - 1) \in Seq(OnScreen)
  <2>1. i - 1 \in 0..DrawCalls
    BY BatchAssumption
  <2> QED
    BY <2>1, DrawnAre
<1>5. DrawnUpTo(s, i) = DrawnUpTo(s, i - 1) \o DrawnBy(s, i)
  BY DrawnAre, Zenon
<1>6. DrawnUpTo(s, i - 1) \o <<>> = DrawnUpTo(s, i - 1)
  BY <1>4, ConcatEmptySeq, Zenon
<1> QED
  BY <1>3, <1>5, <1>6, Zenon

\* What a draw draws is what its range of the buffer, its mode, its texture and the setting give.
LEMMA DrawnByFrame ==
    ASSUME NEW r \in GLType, NEW s \in GLType, NEW i \in 1..DrawCalls,
           r.batch.draws[i].mode = s.batch.draws[i].mode,
           r.batch.draws[i].count = s.batch.draws[i].count,
           r.batch.draws[i].texture = s.batch.draws[i].texture,
           vertexOffset(r, i) = vertexOffset(s, i), Setting(r) = Setting(s),
           \A p \in Nat : p < vertexOffset(s, i) + s.batch.draws[i].count
                            => VertexAt(r, p) = VertexAt(s, p)
    PROVE  DrawnBy(r, i) = DrawnBy(s, i)
<1> DEFINE draw == s.batch.draws[i]
           k == PerPrimitive(draw.mode)
           m == draw.count \div k
           off == vertexOffset(s, i)
           first == IF draw.mode = "QUADS" THEN (off \div 4) * 4 ELSE off
           P(x, n) == Primitive(draw.mode, draw.texture,
                                [v \in 1..k |-> VertexAt(x, first + (n - 1) * k + v - 1)], Setting(s))
<1>1. k \in {2, 3, 4} /\ draw.count \in Nat /\ off \in Nat
  BY BatchType, OffsetsAre DEF PerPrimitive
<1>2. DrawnBy(s, i) = [n \in 1..m |-> P(s, n)] /\ DrawnBy(r, i) = [n \in 1..m |-> P(r, n)]
  BY DEF DrawnBy
<1> HIDE DEF k, off, draw
<1>3. first \in Nat /\ first <= off
  BY <1>1
<1> HIDE DEF first
<1>4. ASSUME NEW n \in 1..m  PROVE P(r, n) = P(s, n)
  <2>1. ASSUME NEW v \in 1..k
        PROVE  VertexAt(r, first + (n - 1) * k + v - 1) = VertexAt(s, first + (n - 1) * k + v - 1)
    <3>1. first + (n - 1) * k + v - 1 \in Nat /\ (n - 1) * k + v - 1 < draw.count
      <4>1. CASE k = 2
        BY <1>1, <1>3, <4>1
      <4>2. CASE k = 3
        BY <1>1, <1>3, <4>2
      <4>3. CASE k = 4
        BY <1>1, <1>3, <4>3
      <4> QED
        BY <1>1, <4>1, <4>2, <4>3
    <3> DEFINE p == first + (n - 1) * k + v - 1
    <3>2. p \in Nat /\ p < off + draw.count
      <4> DEFINE q == (n - 1) * k + v - 1
      <4>1. q \in Int /\ p = first + q
        BY <1>1, <1>3
      <4> HIDE DEF p, q
      <4> QED
        BY <1>1, <1>3, <3>1, <4>1 DEF p, q
    <3> QED
      BY <3>2 DEF off, draw
  <2> QED
    BY <2>1
<1> QED
  BY <1>2, <1>4

\* Two batches that agree on the draws up to c and on what these draw from.
Agree(r, s, c) ==
    /\ \A i \in 1..c : /\ r.batch.draws[i].mode = s.batch.draws[i].mode
                       /\ r.batch.draws[i].count = s.batch.draws[i].count
                       /\ r.batch.draws[i].texture = s.batch.draws[i].texture
    /\ \A i \in 1..(c - 1) : r.batch.draws[i].alignment = s.batch.draws[i].alignment
    /\ \A i \in 1..c : \A p \in Nat : p < vertexOffset(s, i) + s.batch.draws[i].count
                                        => VertexAt(r, p) = VertexAt(s, p)

LEMMA OffsetsFrame ==
    ASSUME NEW r \in GLType, NEW s \in GLType, NEW c \in 1..DrawCalls,
           \A i \in 1..(c - 1) : /\ r.batch.draws[i].count = s.batch.draws[i].count
                                 /\ r.batch.draws[i].alignment = s.batch.draws[i].alignment
    PROVE  \A i \in 1..c : vertexOffset(r, i) = vertexOffset(s, i)
<1> DEFINE S == {i \in 0..(c - 1) : vertexOffset(r, i + 1) = vertexOffset(s, i + 1)}
<1>0. DrawCalls \in Nat
  BY BatchAssumption
<1>1. 0 \in S
  BY OffsetsAre
<1>2. ASSUME NEW i \in 0..((c - 1) - 1), i \in S  PROVE i + 1 \in S
  <2>1. i + 1 \in 1..(c - 1) /\ i + 1 \in 1..DrawCalls
    BY <1>0
  <2> DEFINE j == i + 1
  <2>2. /\ vertexOffset(r, j + 1) = vertexOffset(r, j) + (r.batch.draws[j].count + r.batch.draws[j].alignment)
        /\ vertexOffset(s, j + 1) = vertexOffset(s, j) + (s.batch.draws[j].count + s.batch.draws[j].alignment)
    BY <2>1, OffsetsAre
  <2>3. vertexOffset(r, j + 1) = vertexOffset(s, j + 1)
    BY <1>2, <2>1, <2>2
  <2> QED
    BY <2>1, <2>3
<1>3. 0..(c - 1) \subseteq S
  <2> HIDE DEF S
  <2>1. c - 1 \in Nat
    BY <1>0
  <2> QED
    BY <1>1, <1>2, <2>1, UpTo
<1>4. ASSUME NEW i \in 1..c  PROVE vertexOffset(r, i) = vertexOffset(s, i)
  <2>1. i - 1 \in 0..(c - 1) /\ (i - 1) + 1 = i
    BY <1>0
  <2>2. i - 1 \in S
    BY <1>3, <2>1
  <2> QED
    BY <2>1, <2>2
<1> QED
  BY <1>4

LEMMA DrawnFrame ==
    ASSUME NEW r \in GLType, NEW s \in GLType, NEW c \in 0..DrawCalls,
           Agree(r, s, c), Setting(r) = Setting(s)
    PROVE  /\ DrawnUpTo(r, c) = DrawnUpTo(s, c)
           /\ \A i \in 1..c : vertexOffset(r, i) = vertexOffset(s, i)
<1>0. DrawCalls \in Nat
  BY BatchAssumption
<1>1. \A i \in 1..c : vertexOffset(r, i) = vertexOffset(s, i)
  <2>1. CASE c = 0
    BY <2>1
  <2>2. CASE c # 0
    <3>1. c \in 1..DrawCalls
      BY <1>0, <2>2
    <3>2. \A i \in 1..(c - 1) : i \in 1..c
      BY <1>0
    <3> QED
      BY <3>1, <3>2, OffsetsFrame DEF Agree
  <2> QED
    BY <2>1, <2>2
<1>2. ASSUME NEW i \in 1..c  PROVE DrawnBy(r, i) = DrawnBy(s, i)
  <2>1. i \in 1..DrawCalls
    BY <1>0
  <2> QED
    BY <1>1, <2>1, DrawnByFrame DEF Agree
<1> DEFINE S == {i \in 0..c : DrawnUpTo(r, i) = DrawnUpTo(s, i)}
<1>3. 0 \in S
  BY <1>0, DrawnAre
<1>4. ASSUME NEW i \in 0..(c - 1), i \in S  PROVE i + 1 \in S
  <2>1. i + 1 \in 1..c /\ i + 1 \in 1..DrawCalls /\ (i + 1) - 1 = i
    BY <1>0
  <2>2. /\ DrawnUpTo(r, i + 1) = DrawnUpTo(r, i) \o DrawnBy(r, i + 1)
        /\ DrawnUpTo(s, i + 1) = DrawnUpTo(s, i) \o DrawnBy(s, i + 1)
    <3>1. /\ DrawnUpTo(r, i + 1) = DrawnUpTo(r, (i + 1) - 1) \o DrawnBy(r, i + 1)
          /\ DrawnUpTo(s, i + 1) = DrawnUpTo(s, (i + 1) - 1) \o DrawnBy(s, i + 1)
      BY <2>1, DrawnAre
    <3> QED
      BY <2>1, <3>1
  <2>3. DrawnUpTo(r, i) = DrawnUpTo(s, i) /\ DrawnBy(r, i + 1) = DrawnBy(s, i + 1)
    BY <1>2, <1>4, <2>1
  <2>4. DrawnUpTo(r, i + 1) = DrawnUpTo(s, i + 1)
    BY <2>2, <2>3, Zenon
  <2>5. i + 1 \in 0..c
    BY <1>0
  <2> QED
    BY <2>4, <2>5
<1>5. 0..c \subseteq S
  <2> HIDE DEF S
  <2>1. c \in Nat
    BY <1>0
  <2> QED
    BY <1>3, <1>4, <2>1, UpTo
<1> QED
  BY <1>0, <1>1, <1>5
-----------------------------------------------------------------------------
(* The batch. *)

\* What the device drew and what waits in the batch, in that order.
Total(s) == s.drawn \o Batched(s)

\* A batch of at most n draws between two primitives: the draws lie one after the other in the
\* buffer, where the quads' indices expect them, and what is written is theirs.
Good(s, n) ==
    /\ s \in GLType /\ ~s.overrun
    /\ s.batch.drawCounter <= n
    /\ \A i \in 1..DrawCalls : i > s.batch.drawCounter => s.batch.draws[i].count = 0
    /\ \A i \in 1..s.batch.drawCounter :
         /\ vertexOffset(s, i) % 4 = 0
         /\ vertexOffset(s, i) + s.batch.draws[i].count <= vertexCounter(s)
    /\ vertexOffset(s, s.batch.drawCounter) + DrawNow(s).count = vertexCounter(s)
    /\ vertexCounter(s) <= Elements * 4
    /\ DrawNow(s).count % PerPrimitive(DrawNow(s).mode) = 0

LEMMA PerPrimitiveType == \A mode : PerPrimitive(mode) \in {2, 3, 4}
BY DEF PerPrimitive

LEMMA TotalType ==
    ASSUME NEW s \in GLType
    PROVE  Batched(s) \in Seq(OnScreen) /\ Total(s) \in Seq(OnScreen) /\ s.drawn \in Seq(OnScreen)
<1>1. s.batch.drawCounter \in 1..DrawCalls /\ s.drawn \in Seq(OnScreen) /\ DrawCalls \in Nat
  BY BatchType, BatchAssumption
<1>2. s.batch.drawCounter \in 0..DrawCalls
  BY <1>1
<1>3. Batched(s) \in Seq(OnScreen)
  BY <1>2, DrawnAre DEF Batched
<1> HIDE DEF Batched
<1> QED
  BY <1>1, <1>3, ConcatProperties DEF Total

\* Nothing but the pen, or what no primitive depends on, changed.
LEMMA SameBatch ==
    ASSUME NEW r \in GLType, NEW s, NEW n, Good(s, n), r.batch = s.batch, Setting(r) = Setting(s),
           r.overrun = s.overrun
    PROVE  Good(r, n) /\ Batched(r) = Batched(s) /\ DrawNow(r) = DrawNow(s)
<1>1. \A i : vertexOffset(r, i) = vertexOffset(s, i)
  BY DEF vertexOffset
<1>2. \A p : VertexAt(r, p) = VertexAt(s, p)
  BY DEF VertexAt
<1>3. Batched(r) = Batched(s)
  <2>1. s \in GLType /\ s.batch.drawCounter \in 0..DrawCalls
    BY BatchType DEF Good
  <2>2. Agree(r, s, s.batch.drawCounter)
    BY <1>2 DEF Agree
  <2> QED
    BY <2>1, <2>2, DrawnFrame DEF Batched
<1>4. DrawNow(r) = DrawNow(s) /\ vertexCounter(r) = vertexCounter(s)
  BY DEF DrawNow, vertexCounter
<1>5. Good(r, n)
  BY <1>1, <1>4, Zenon DEF Good
<1> QED
  BY <1>3, <1>4, <1>5

LEMMA Untouched ==
    ASSUME NEW r \in GLType, NEW s, NEW n, Good(s, n), r.batch = s.batch, Setting(r) = Setting(s),
           r.drawn = s.drawn, r.overrun = s.overrun
    PROVE  Good(r, n) /\ Total(r) = Total(s) /\ Batched(r) = Batched(s) /\ DrawNow(r) = DrawNow(s)
<1>1. Good(r, n) /\ Batched(r) = Batched(s) /\ DrawNow(r) = DrawNow(s)
  BY SameBatch
<1> QED
  BY <1>1, Zenon DEF Total

\* The draw that is being filled is still empty: its mode and its texture are free.
LEMMA Titles ==
    ASSUME NEW r \in GLType, NEW s, NEW n, Good(s, n), Setting(r) = Setting(s),
           r.drawn = s.drawn, r.overrun = s.overrun,
           r.batch.drawCounter = s.batch.drawCounter, r.batch.vertices = s.batch.vertices,
           \A i \in 1..DrawCalls : i # s.batch.drawCounter => r.batch.draws[i] = s.batch.draws[i],
           DrawNow(s).count = 0, DrawNow(r).count = 0
    PROVE  Good(r, n) /\ Total(r) = Total(s) /\ vertexCounter(r) = vertexCounter(s)
<1> DEFINE c == s.batch.drawCounter
<1>0. s \in GLType /\ c \in 1..DrawCalls /\ DrawCalls \in Nat /\ c \in Nat /\ c - 1 \in 0..DrawCalls
  BY BatchType, BatchAssumption DEF Good
<1>1. \A i \in 1..(c - 1) : i \in 1..DrawCalls /\ i # c /\ i \in 1..c /\ r.batch.draws[i] = s.batch.draws[i]
  BY <1>0
<1>2. \A i \in 1..c : vertexOffset(r, i) = vertexOffset(s, i)
  BY <1>0, <1>1, OffsetsFrame
<1>3. \A p : VertexAt(r, p) = VertexAt(s, p)
  BY DEF VertexAt
<1>4. Agree(r, s, c - 1)
  BY <1>1, <1>3, <1>0 DEF Agree
<1>5. DrawnUpTo(r, c - 1) = DrawnUpTo(s, c - 1)
  BY <1>0, <1>4, DrawnFrame
<1>6. DrawnUpTo(r, c) = DrawnUpTo(r, c - 1) /\ DrawnUpTo(s, c) = DrawnUpTo(s, c - 1)
  BY <1>0, EmptyDrawsNothing DEF DrawNow
<1>7. Total(r) = Total(s)
  BY <1>5, <1>6, Zenon DEF Total, Batched
<1>8. vertexCounter(r) = vertexCounter(s)
  BY DEF vertexCounter
<1>9. \A i \in 1..DrawCalls : i > c => r.batch.draws[i].count = 0
  BY <1>0 DEF Good
<1>10. \A i \in 1..c : vertexOffset(r, i) % 4 = 0
                         /\ vertexOffset(r, i) + r.batch.draws[i].count <= vertexCounter(r)
  <2> TAKE i \in 1..c
  <2>1. CASE i = c
    BY <1>2, <1>8, <2>1 DEF Good, DrawNow
  <2>2. CASE i # c
    <3>1. i \in 1..(c - 1)
      BY <1>0, <2>2
    <3> QED
      BY <1>1, <1>2, <1>8, <3>1 DEF Good
  <2> QED
    BY <2>1, <2>2
<1>11. c \in 1..c
  BY <1>0
<1>12. vertexOffset(r, c) + DrawNow(r).count = vertexCounter(r)
  BY <1>2, <1>8, <1>11 DEF Good
<1>13. DrawNow(r).count % PerPrimitive(DrawNow(r).mode) = 0
  BY PerPrimitiveType
<1>14. Good(r, n)
  BY <1>8, <1>9, <1>10, <1>12, <1>13 DEF Good
<1> QED
  BY <1>7, <1>8, <1>14

\* The batch is drawn, and the next one is empty.
LEMMA Rendered ==
    ASSUME NEW s \in GLType
    PROVE  LET r == rlDrawRenderBatch(s) IN
           /\ r \in GLType /\ SameContext(r, s) /\ SamePen(r, s)
           /\ r.drawn = Total(s) /\ r.overrun = s.overrun
           /\ r.batch.drawCounter = 1 /\ r.batch.vertices = <<>>
           /\ \A i \in 1..DrawCalls : /\ r.batch.draws[i].count = 0
                                      /\ r.batch.draws[i].mode = "QUADS"
                                      /\ r.batch.draws[i].texture = Default
<1> DEFINE ds == [i \in 1..DrawCalls |-> [EmptyDraw EXCEPT !.alignment = s.batch.draws[i].alignment]]
           b == [draws |-> ds, drawCounter |-> 1, vertices |-> <<>>]
           r == rlDrawRenderBatch(s)
<1>1. ASSUME NEW i \in 1..DrawCalls
      PROVE  ds[i] \in Draw /\ ds[i].count = 0 /\ ds[i].mode = "QUADS" /\ ds[i].texture = Default
  BY BatchType DEF EmptyDraw, Draw, Modes, TextureIds
<1>2. ds \in [1..DrawCalls -> Draw]
  BY <1>1
<1> HIDE DEF ds
<1>3. b \in Batches
  BY <1>2, BatchAssumption DEF Batches
<1>4. b.draws = ds /\ b.drawCounter = 1 /\ b.vertices = <<>>
  OBVIOUS
<1>5. r = [s EXCEPT !.drawn = s.drawn \o Batched(s), !.batch = b]
  BY DEF rlDrawRenderBatch, ds
<1> HIDE DEF b, r
<1>6. s.drawn \o Batched(s) = Total(s) /\ Total(s) \in Seq(OnScreen)
  BY TotalType DEF Total
<1>7. r = [s EXCEPT !.drawn = Total(s), !.batch = b]
  BY <1>5, <1>6
<1> HIDE DEF Total
<1>8. r \in GLType /\ r.batch = b /\ r.drawn = Total(s) /\ r.overrun = s.overrun
  BY <1>3, <1>6, <1>7 DEF GLType
<1>9. SameContext(r, s) /\ SamePen(r, s)
  BY <1>7 DEF SameContext, SamePen, GLType
<1> QED
  BY <1>1, <1>4, <1>8, <1>9 DEF r

\* A batch that was just begun.
LEMMA BlankIsGood ==
    ASSUME NEW r \in GLType, ~r.overrun, r.batch.drawCounter = 1, r.batch.vertices = <<>>,
           \A i \in 1..DrawCalls : r.batch.draws[i].count = 0
    PROVE  Good(r, 1) /\ Batched(r) = <<>> /\ Total(r) = r.drawn /\ vertexCounter(r) = 0
<1>0. 1 \in 1..DrawCalls /\ 1 - 1 = 0 /\ Elements * 4 \in Nat
  BY BatchAssumption
<1>1. Batched(r) = <<>>
  <2>1. DrawnUpTo(r, 1) = DrawnUpTo(r, 1 - 1)
    BY <1>0, EmptyDrawsNothing
  <2> QED
    BY <1>0, <2>1, DrawnAre DEF Batched
<1>2. Total(r) = r.drawn
  BY <1>1, TotalType, ConcatEmptySeq DEF Total
<1>3. vertexCounter(r) = 0
  BY DEF vertexCounter
<1>4. DrawNow(r).count = 0 /\ vertexOffset(r, 1) = 0
  BY <1>0, OffsetsAre DEF DrawNow
<1>5. \A i \in 1..r.batch.drawCounter : i = 1
  OBVIOUS
<1>6. 0 % PerPrimitive(DrawNow(r).mode) = 0
  BY PerPrimitiveType
<1>7. Good(r, 1)
  BY <1>0, <1>3, <1>4, <1>5, <1>6 DEF Good
<1> QED
  BY <1>1, <1>2, <1>3, <1>7

LEMMA RenderedIsGood ==
    ASSUME NEW s \in GLType, ~s.overrun
    PROVE  LET r == rlDrawRenderBatch(s) IN
           /\ Good(r, 1) /\ Batched(r) = <<>> /\ Total(r) = Total(s) /\ vertexCounter(r) = 0
           /\ DrawNow(r).count = 0 /\ DrawNow(r).mode = "QUADS" /\ DrawNow(r).texture = Default
<1> DEFINE r == rlDrawRenderBatch(s)
<1>1. /\ r \in GLType /\ r.drawn = Total(s) /\ r.overrun = s.overrun
      /\ r.batch.drawCounter = 1 /\ r.batch.vertices = <<>>
      /\ \A i \in 1..DrawCalls : /\ r.batch.draws[i].count = 0
                                 /\ r.batch.draws[i].mode = "QUADS"
                                 /\ r.batch.draws[i].texture = Default
  BY Rendered
<1> HIDE DEF r
<1>2. Good(r, 1) /\ Batched(r) = <<>> /\ Total(r) = Total(s) /\ vertexCounter(r) = 0
  BY <1>1, BlankIsGood
<1>3. 1 \in 1..DrawCalls
  BY BatchAssumption
<1> QED
  BY <1>1, <1>2, <1>3 DEF r, DrawNow

\* One draw of the batch is replaced.
WithDraw(s, i, draw) == [s EXCEPT !.batch.draws[i] = draw]

LEMMA WithDrawIs ==
    ASSUME NEW s \in GLType, NEW i \in 1..DrawCalls, NEW draw \in Draw
    PROVE  LET r == WithDraw(s, i, draw) IN
           /\ r \in GLType /\ SameContext(r, s) /\ SamePen(r, s) /\ r.drawn = s.drawn
           /\ r.overrun = s.overrun /\ r.batch.drawCounter = s.batch.drawCounter
           /\ r.batch.vertices = s.batch.vertices /\ r.batch.draws[i] = draw
           /\ \A j \in 1..DrawCalls : j # i => r.batch.draws[j] = s.batch.draws[j]
<1> DEFINE ds == [s.batch.draws EXCEPT ![i] = draw]
           b == [s.batch EXCEPT !.draws = ds]
           r == WithDraw(s, i, draw)
<1>1. s.batch \in Batches /\ s.batch.draws \in [1..DrawCalls -> Draw]
  BY BatchType
<1>2. /\ ds \in [1..DrawCalls -> Draw] /\ ds[i] = draw
      /\ \A j \in 1..DrawCalls : j # i => ds[j] = s.batch.draws[j]
  BY <1>1
<1>3. r = [s EXCEPT !.batch = b]
  BY DEF WithDraw
<1> HIDE DEF ds
<1>4. /\ b \in Batches /\ b.draws = ds /\ b.drawCounter = s.batch.drawCounter
      /\ b.vertices = s.batch.vertices
  BY <1>1, <1>2 DEF Batches
<1> HIDE DEF b, r
<1>5. r \in GLType /\ r.batch = b /\ r.drawn = s.drawn /\ r.overrun = s.overrun
  BY <1>3, <1>4 DEF GLType
<1>6. SameContext(r, s) /\ SamePen(r, s)
  BY <1>3 DEF SameContext, SamePen, GLType
<1> QED
  BY <1>2, <1>4, <1>5, <1>6 DEF r

Titled(s, i, mode, texture) ==
    [s EXCEPT !.batch.draws[i].mode = mode, !.batch.draws[i].texture = texture]

LEMMA TitledIs ==
    ASSUME NEW s \in GLType, NEW i \in 1..DrawCalls, NEW mode \in Modes, NEW texture \in TextureIds
    PROVE  LET r == Titled(s, i, mode, texture) IN
           /\ r \in GLType /\ SameContext(r, s) /\ SamePen(r, s) /\ r.drawn = s.drawn
           /\ r.overrun = s.overrun /\ r.batch.drawCounter = s.batch.drawCounter
           /\ r.batch.vertices = s.batch.vertices
           /\ \A j \in 1..DrawCalls : j # i => r.batch.draws[j] = s.batch.draws[j]
           /\ r.batch.draws[i].mode = mode /\ r.batch.draws[i].texture = texture
           /\ r.batch.draws[i].count = s.batch.draws[i].count
<1> DEFINE d == [s.batch.draws[i] EXCEPT !.mode = mode, !.texture = texture]
<1>1. /\ s.batch \in Batches /\ s.batch.draws \in [1..DrawCalls -> Draw] /\ s.batch.draws[i] \in Draw
      /\ s.batch.draws[i].mode \in Modes /\ s.batch.draws[i].count \in Nat
      /\ s.batch.draws[i].alignment \in Nat /\ s.batch.draws[i].texture \in TextureIds
  BY BatchType
<1>2. Titled(s, i, mode, texture) = WithDraw(s, i, d)
  BY ZenonT(60), <1>1 DEF Titled, WithDraw, GLType, Batches
<1>3. d \in Draw /\ d.mode = mode /\ d.texture = texture /\ d.count = s.batch.draws[i].count
  BY <1>1 DEF Draw
<1> HIDE DEF d
<1> QED
  BY <1>2, <1>3, WithDrawIs

\* The batch is drawn because it is full, and the draw goes on in the next one.
LEMMA LimitReached ==
    ASSUME NEW s \in GLType, ~s.overrun, NEW v, Full(s, v)
    PROVE  LET r == rlCheckRenderBatchLimit(s, v) IN
           /\ Good(r, 1) /\ SameContext(r, s) /\ SamePen(r, s) /\ Total(r) = Total(s)
           /\ vertexCounter(r) = 0 /\ r.batch.drawCounter = 1 /\ DrawNow(r).count = 0
           /\ DrawNow(r).mode = DrawNow(s).mode /\ DrawNow(r).texture = DrawNow(s).texture
<1> DEFINE x == rlDrawRenderBatch(s)
           m == DrawNow(s).mode
           t == DrawNow(s).texture
           r == Titled(x, 1, m, t)
<1>1. /\ x \in GLType /\ SameContext(x, s) /\ SamePen(x, s) /\ x.overrun = s.overrun
      /\ x.batch.drawCounter = 1
  BY Rendered
<1>2. Good(x, 1) /\ Total(x) = Total(s) /\ vertexCounter(x) = 0 /\ DrawNow(x).count = 0
  BY RenderedIsGood
<1>3. m \in Modes /\ t \in TextureIds
  BY BatchType DEF DrawNow
<1>4. rlCheckRenderBatchLimit(s, v) = r
  BY DEF rlCheckRenderBatchLimit, Titled
<1>5. 1 \in 1..DrawCalls
  BY BatchAssumption
<1> HIDE DEF x, m, t
<1>6. /\ r \in GLType /\ SameContext(r, x) /\ SamePen(r, x) /\ r.drawn = x.drawn
      /\ r.overrun = x.overrun /\ r.batch.drawCounter = 1 /\ r.batch.vertices = x.batch.vertices
      /\ \A i \in 1..DrawCalls : i # 1 => r.batch.draws[i] = x.batch.draws[i]
      /\ r.batch.draws[1].mode = m /\ r.batch.draws[1].texture = t
      /\ r.batch.draws[1].count = x.batch.draws[1].count
  BY <1>1, <1>3, <1>5, TitledIs
<1> HIDE DEF r
<1>7. Setting(r) = Setting(x)
  BY <1>6, SameSetting
<1>8. DrawNow(r).count = 0 /\ DrawNow(r).mode = m /\ DrawNow(r).texture = t
  BY <1>1, <1>2, <1>6 DEF DrawNow
<1>9. Good(r, 1) /\ Total(r) = Total(x) /\ vertexCounter(r) = vertexCounter(x)
  BY <1>1, <1>2, <1>6, <1>7, <1>8, Titles
<1>10. SameContext(r, s) /\ SamePen(r, s)
  BY <1>1, <1>6 DEF SameContext, SamePen
<1> QED
  BY <1>2, <1>4, <1>6, <1>8, <1>9, <1>10 DEF m, t

LEMMA AlignmentIs ==
    ASSUME NEW draw \in Draw, draw.count % PerPrimitive(draw.mode) = 0
    PROVE  /\ vertexAlignment(draw) \in Nat
           /\ draw.count # 0 => (draw.count + vertexAlignment(draw)) % 4 = 0
<1>1. draw.count \in Nat /\ draw.mode \in Modes
  BY DEF Draw
<1>2. CASE draw.mode = "LINES"
  BY <1>1, <1>2 DEF vertexAlignment, PerPrimitive
<1>3. CASE draw.mode = "TRIANGLES"
  BY <1>1, <1>3 DEF vertexAlignment, PerPrimitive
<1>4. CASE draw.mode = "QUADS"
  BY <1>1, <1>4 DEF vertexAlignment, PerPrimitive
<1> QED
  BY <1>1, <1>2, <1>3, <1>4 DEF Modes

\* What is written stays where it is when more is written behind it.
LEMMA WrittenStays ==
    ASSUME NEW D, NEW w \in Seq(D), NEW more \in Seq(D)
    PROVE  /\ w \o more \in Seq(D) /\ Len(w \o more) = Len(w) + Len(more)
           /\ \A p \in Nat : p < Len(w) => (w \o more)[p + 1] = w[p + 1]
           /\ \A p \in 1..Len(more) : (w \o more)[Len(w) + p] = more[p]
BY ConcatProperties

\* The draw that is being filled ends; the next one is empty, in this batch or in a new one.
LEMMA ClosedIs ==
    ASSUME NEW s, Good(s, DrawCalls - 1)
    PROVE  LET r == Closed(s) IN
           /\ Good(r, DrawCalls) /\ SameContext(r, s) /\ SamePen(r, s) /\ Total(r) = Total(s)
           /\ DrawNow(r).count = 0
<1> DEFINE c == s.batch.drawCounter
           skipped == vertexAlignment(DrawNow(s))
           d == [s.batch.draws[c] EXCEPT !.alignment = skipped]
           aligned == [s EXCEPT !.batch.draws[c].alignment = skipped]
           gaps == [n \in 1..skipped |-> Gap]
           r == [aligned EXCEPT !.batch.vertices = @ \o gaps, !.batch.drawCounter = c + 1]
<1>0. /\ DrawCalls \in Nat /\ Elements * 4 \in Nat /\ DrawCalls - 1 \in Nat
      /\ s \in GLType /\ ~s.overrun /\ c \in 1..DrawCalls /\ c <= DrawCalls - 1 /\ c \in Nat
      /\ c + 1 \in 1..DrawCalls /\ c \in 0..DrawCalls /\ c \in 1..c
  BY BatchType, BatchAssumption DEF Good
<1>1. CASE DrawNow(s).count = 0
  <2>1. Closed(s) = s
    BY <1>1 DEF Closed
  <2>2. Good(s, DrawCalls)
    BY <1>0 DEF Good
  <2>3. SameContext(s, s) /\ SamePen(s, s)
    BY DEF SameContext, SamePen
  <2> QED
    BY <1>1, <2>1, <2>2, <2>3
<1>2. /\ DrawNow(s) = s.batch.draws[c] /\ s.batch.draws[c] \in Draw
      /\ s.batch.draws[c].count \in Nat
  BY <1>0, BatchType DEF DrawNow
<1>3. /\ skipped \in Nat
      /\ DrawNow(s).count # 0 => (s.batch.draws[c].count + skipped) % 4 = 0
  BY <1>2, AlignmentIs DEF Good
<1> HIDE DEF skipped
<1>4. /\ d \in Draw /\ d.mode = s.batch.draws[c].mode /\ d.count = s.batch.draws[c].count
      /\ d.texture = s.batch.draws[c].texture /\ d.alignment = skipped
  BY <1>2, <1>3 DEF Draw
<1>5. aligned = WithDraw(s, c, d)
  BY <1>0, BatchType DEF WithDraw
<1> HIDE DEF d, aligned
<1>6. /\ aligned \in GLType /\ SameContext(aligned, s) /\ SamePen(aligned, s)
      /\ aligned.drawn = s.drawn /\ aligned.overrun = s.overrun
      /\ aligned.batch.drawCounter = c /\ aligned.batch.vertices = s.batch.vertices
      /\ aligned.batch.draws[c] = d
      /\ \A j \in 1..DrawCalls : j # c => aligned.batch.draws[j] = s.batch.draws[j]
  <2>1. s \in GLType /\ c \in 1..DrawCalls /\ s.batch.drawCounter = c
    BY <1>0
  <2> HIDE DEF c
  <2> QED
    BY <2>1, <1>4, <1>5, WithDrawIs
<1>7. DrawNow(aligned) = d /\ vertexCounter(aligned) = vertexCounter(s)
  BY <1>6 DEF DrawNow, vertexCounter
<1>8. \A j \in 1..DrawCalls : /\ aligned.batch.draws[j].mode = s.batch.draws[j].mode
                              /\ aligned.batch.draws[j].count = s.batch.draws[j].count
                              /\ aligned.batch.draws[j].texture = s.batch.draws[j].texture
  BY <1>4, <1>6
<1>9. \A j \in 1..(c - 1) : aligned.batch.draws[j].alignment = s.batch.draws[j].alignment
  BY <1>0, <1>6
<1>10. Setting(aligned) = Setting(s)
  BY <1>6, SameSetting
<1>11. /\ Total(aligned) = Total(s) /\ DrawnUpTo(aligned, c) = DrawnUpTo(s, c)
       /\ \A i \in 1..c : vertexOffset(aligned, i) = vertexOffset(s, i)
  <2>1. \A p : VertexAt(aligned, p) = VertexAt(s, p)
    BY <1>6 DEF VertexAt
  <2>2. \A j \in 1..c : j \in 1..DrawCalls
    BY <1>0
  <2>3. Agree(aligned, s, c)
    BY <1>8, <1>9, <2>1, <2>2 DEF Agree
  <2>4. /\ DrawnUpTo(aligned, c) = DrawnUpTo(s, c)
        /\ \A i \in 1..c : vertexOffset(aligned, i) = vertexOffset(s, i)
    BY <1>0, <1>6, <1>10, <2>3, DrawnFrame
  <2> QED
    BY <1>6, <2>4, Zenon DEF Total, Batched
<1>12. CASE DrawNow(s).count # 0 /\ Full(s, skipped)
  <2> DEFINE x == rlCheckRenderBatchLimit(aligned, skipped)
  <2>1. Closed(s) = x
    BY <1>12 DEF Closed, skipped, aligned
  <2>2. Full(aligned, skipped)
    BY <1>7, <1>12 DEF Full
  <2>3. /\ Good(x, 1) /\ SameContext(x, aligned) /\ SamePen(x, aligned)
        /\ Total(x) = Total(aligned) /\ DrawNow(x).count = 0
    BY <1>0, <1>6, <2>2, LimitReached
  <2> HIDE DEF x
  <2>4. Good(x, DrawCalls)
    <3>1. x.batch.drawCounter \in 1..DrawCalls /\ 1 <= DrawCalls
      BY <1>0, <2>3, BatchType DEF Good
    <3> QED
      BY <1>0, <2>3, <3>1 DEF Good
  <2>5. SameContext(x, s) /\ SamePen(x, s)
    BY <1>6, <2>3 DEF SameContext, SamePen
  <2> QED
    BY <1>11, <2>1, <2>3, <2>4, <2>5
<1>13. CASE DrawNow(s).count # 0 /\ ~Full(s, skipped)
  <2>1. Closed(s) = r
    BY <1>13 DEF Closed, skipped, aligned
  <2> DEFINE w == s.batch.vertices \o gaps
  <2>2. /\ gaps \in Seq(Vertex \cup {Gap}) /\ Len(gaps) = skipped
        /\ s.batch.vertices \in Seq(Vertex \cup {Gap})
    <3>1. s.batch.vertices \in Seq(Vertex \cup {Gap})
      BY <1>0, BatchType
    <3> QED
      BY <1>3, <3>1
  <2>3. /\ w \in Seq(Vertex \cup {Gap}) /\ Len(w) = vertexCounter(s) + skipped
        /\ \A p \in Nat : p < Len(s.batch.vertices) => w[p + 1] = s.batch.vertices[p + 1]
    <3> DEFINE D == Vertex \cup {Gap}
    <3>1. gaps \in Seq(D) /\ Len(gaps) = skipped /\ s.batch.vertices \in Seq(D)
      BY <2>2
    <3> HIDE DEF D, gaps
    <3>2. /\ w \in Seq(D) /\ Len(w) = Len(s.batch.vertices) + Len(gaps)
          /\ \A p \in Nat : p < Len(s.batch.vertices) => w[p + 1] = s.batch.vertices[p + 1]
      BY ZenonT(60), <3>1, WrittenStays
    <3> QED
      BY <3>1, <3>2 DEF D, vertexCounter
  <2> HIDE DEF gaps
  <2>4. r = [aligned EXCEPT !.batch = [aligned.batch EXCEPT !.vertices = w, !.drawCounter = c + 1]]
    BY <1>6 DEF GLType, Batches
  <2> HIDE DEF w
  <2>5. /\ r \in GLType /\ SameContext(r, aligned) /\ SamePen(r, aligned)
        /\ r.drawn = aligned.drawn /\ r.overrun = aligned.overrun
        /\ r.batch.drawCounter = c + 1 /\ r.batch.vertices = w
        /\ r.batch.draws = aligned.batch.draws
    <3> DEFINE b == [aligned.batch EXCEPT !.vertices = w, !.drawCounter = c + 1]
    <3>1. /\ b \in Batches /\ b.draws = aligned.batch.draws /\ b.drawCounter = c + 1
          /\ b.vertices = w
      <4>1. aligned.batch \in Batches
        BY <1>6, BatchType
      <4> QED
        BY <1>0, <2>3, <4>1 DEF Batches
    <3>2. r = [aligned EXCEPT !.batch = b]
      BY <2>4
    <3> HIDE DEF b, r
    <3>3. /\ r \in GLType /\ r.batch = b /\ r.drawn = aligned.drawn
          /\ r.overrun = aligned.overrun
      BY <1>6, <3>1, <3>2 DEF GLType
    <3>4. SameContext(r, aligned) /\ SamePen(r, aligned)
      BY <1>6, <3>2 DEF SameContext, SamePen, GLType
    <3> QED
      BY <3>1, <3>3, <3>4
  <2> HIDE DEF r
  <2>6. Setting(r) = Setting(aligned)
    BY <2>5, SameSetting
  <2>7. vertexCounter(r) = vertexCounter(s) + skipped /\ vertexCounter(s) \in Nat
    BY <1>0, <2>3, <2>5, BatchType DEF vertexCounter
  <2>8. Agree(r, aligned, c)
    <3>1. ASSUME NEW i \in 1..c, NEW p \in Nat,
                 p < vertexOffset(aligned, i) + aligned.batch.draws[i].count
          PROVE  VertexAt(r, p) = VertexAt(aligned, p)
      <4>1. vertexOffset(s, i) + s.batch.draws[i].count <= vertexCounter(s)
        BY DEF Good
      <4>2. /\ vertexOffset(aligned, i) = vertexOffset(s, i)
            /\ aligned.batch.draws[i].count = s.batch.draws[i].count /\ i \in 1..DrawCalls
        BY <1>0, <1>8, <1>11
      <4>3. /\ vertexOffset(s, i) \in Nat /\ s.batch.draws[i].count \in Nat
        BY <1>0, <4>2, OffsetsAre, BatchType
      <4>4. p < Len(s.batch.vertices)
        BY <2>7, <3>1, <4>1, <4>2, <4>3 DEF vertexCounter
      <4>5. p < Len(w)
        BY <1>3, <2>3, <2>7, <4>4 DEF vertexCounter
      <4> QED
        BY <1>6, <2>3, <2>5, <4>4, <4>5 DEF VertexAt
    <3> QED
      BY <2>5, <3>1 DEF Agree
  <2>9. /\ DrawnUpTo(r, c) = DrawnUpTo(aligned, c)
        /\ \A i \in 1..c : vertexOffset(r, i) = vertexOffset(aligned, i)
    BY <1>0, <1>6, <2>5, <2>6, <2>8, DrawnFrame
  <2>10. r.batch.draws[c + 1].count = 0
    <3>1. s.batch.draws[c + 1].count = 0
      BY <1>0 DEF Good
    <3> QED
      BY <1>0, <1>8, <2>5, <3>1
  <2>11. DrawNow(r).count = 0
    BY <2>5, <2>10 DEF DrawNow
  <2>12. Total(r) = Total(s)
    <3>1. DrawnUpTo(r, c + 1) = DrawnUpTo(r, c)
      <4>1. (c + 1) - 1 = c
        BY <1>0
      <4> QED
        BY <1>0, <2>5, <2>10, <4>1, EmptyDrawsNothing
    <3>2. Total(r) = aligned.drawn \o DrawnUpTo(aligned, c)
      BY <2>5, <2>9, <3>1, Zenon DEF Total, Batched
    <3> QED
      BY <1>6, <1>11, <3>2, Zenon DEF Total, Batched
  <2>13. vertexOffset(r, c + 1) = vertexCounter(r) /\ vertexOffset(r, c + 1) % 4 = 0
    <3>1. vertexOffset(r, c + 1) = vertexOffset(r, c)
                                    + (r.batch.draws[c].count + r.batch.draws[c].alignment)
      BY <1>0, <2>5, OffsetsAre
    <3>2. r.batch.draws[c].count = s.batch.draws[c].count /\ r.batch.draws[c].alignment = skipped
      BY <1>4, <1>6, <2>5
    <3>3. vertexOffset(r, c) = vertexOffset(s, c) /\ vertexOffset(s, c) \in Nat
      BY <1>0, <1>11, <2>9, OffsetsAre
    <3>4. /\ vertexOffset(s, c) % 4 = 0
          /\ vertexOffset(s, c) + s.batch.draws[c].count = vertexCounter(s)
      BY <1>0, <1>2 DEF Good
    <3>5. vertexOffset(r, c + 1) = vertexOffset(s, c) + (s.batch.draws[c].count + skipped)
      BY <3>1, <3>2, <3>3
    <3>6. (s.batch.draws[c].count + skipped) % 4 = 0
      BY <1>3, <1>13
    <3> HIDE DEF c
    <3> QED
      BY <1>2, <1>3, <3>6, <2>7, <3>3, <3>4, <3>5
  <2>14. vertexCounter(r) <= Elements * 4
    BY <1>0, <1>3, <1>13, <2>7 DEF Full
  <2>15. Good(r, DrawCalls)
    <3>1. \A i \in 1..DrawCalls : i > c + 1 => r.batch.draws[i].count = 0
      <4> TAKE i \in 1..DrawCalls
      <4> HAVE i > c + 1
      <4>1. s.batch.draws[i].count = 0
        BY <1>0 DEF Good
      <4> QED
        BY <1>8, <2>5, <4>1
    <3>2. ASSUME NEW i \in 1..(c + 1)
          PROVE  /\ vertexOffset(r, i) % 4 = 0
                 /\ vertexOffset(r, i) + r.batch.draws[i].count <= vertexCounter(r)
      <4>1. CASE i = c + 1
        BY <1>0, <2>5, <2>10, <2>13, <4>1, OffsetsAre
      <4>2. CASE i # c + 1
        <5>1. i \in 1..c /\ i \in 1..DrawCalls
          BY <1>0, <4>2
        <5>2. /\ vertexOffset(s, i) % 4 = 0
              /\ vertexOffset(s, i) + s.batch.draws[i].count <= vertexCounter(s)
          BY <5>1 DEF Good
        <5>3. vertexOffset(r, i) = vertexOffset(s, i) /\ r.batch.draws[i].count = s.batch.draws[i].count
          BY <1>8, <1>11, <2>5, <2>9, <5>1
        <5>4. vertexOffset(s, i) \in Nat /\ s.batch.draws[i].count \in Nat
          BY <1>0, <5>1, OffsetsAre, BatchType
        <5> QED
          BY <1>3, <2>7, <5>2, <5>3, <5>4
      <4> QED
        BY <4>1, <4>2
    <3>3. vertexOffset(r, c + 1) + DrawNow(r).count = vertexCounter(r)
      BY <1>0, <2>5, <2>11, <2>13, OffsetsAre
    <3>4. DrawNow(r).count % PerPrimitive(DrawNow(r).mode) = 0
      BY <2>11, PerPrimitiveType
    <3>5. r.overrun = s.overrun /\ c + 1 <= DrawCalls
      BY <1>0, <1>6, <2>5
    <3> QED
      BY <1>0, <2>5, <2>14, <3>1, <3>2, <3>3, <3>4, <3>5 DEF Good
  <2>16. SameContext(r, s) /\ SamePen(r, s)
    BY <1>6, <2>5 DEF SameContext, SamePen
  <2> QED
    BY <2>1, <2>11, <2>12, <2>15, <2>16
<1> QED
  BY <1>1, <1>12, <1>13

\* The empty draw that is to be filled is given a mode and a texture.
LEMMA Retitled ==
    ASSUME NEW s, NEW n, Good(s, n), DrawNow(s).count = 0, NEW draw \in Draw, draw.count = 0
    PROVE  LET r == WithDraw(s, s.batch.drawCounter, draw) IN
           /\ Good(r, n) /\ SameContext(r, s) /\ SamePen(r, s) /\ Total(r) = Total(s)
           /\ DrawNow(r) = draw /\ r.batch.drawCounter = s.batch.drawCounter
<1>1. PICK c \in 1..DrawCalls : c = s.batch.drawCounter
  BY BatchType DEF Good
<1> DEFINE r == WithDraw(s, c, draw)
<1>2. s \in GLType
  BY DEF Good
<1>3. /\ r \in GLType /\ SameContext(r, s) /\ SamePen(r, s) /\ r.drawn = s.drawn
      /\ r.overrun = s.overrun /\ r.batch.drawCounter = s.batch.drawCounter
      /\ r.batch.vertices = s.batch.vertices /\ r.batch.draws[c] = draw
      /\ \A j \in 1..DrawCalls : j # c => r.batch.draws[j] = s.batch.draws[j]
  BY <1>2, WithDrawIs
<1> HIDE DEF r
<1>4. DrawNow(r) = draw
  BY <1>1, <1>3 DEF DrawNow
<1>5. Setting(r) = Setting(s)
  BY <1>3, SameSetting
<1>6. \A j \in 1..DrawCalls : j # s.batch.drawCounter => r.batch.draws[j] = s.batch.draws[j]
  BY <1>1, <1>3
<1>7. Good(r, n) /\ Total(r) = Total(s)
  BY <1>3, <1>4, <1>5, <1>6, Titles
<1> QED
  BY <1>1, <1>3, <1>4, <1>7 DEF r

LEMMA ManyDrawsAre ==
    ASSUME NEW s, Good(s, DrawCalls), DrawNow(s).count = 0
    PROVE  LET r == IfManyDraws(s) IN
           /\ Good(r, DrawCalls - 1) /\ SameContext(r, s) /\ SamePen(r, s) /\ Total(r) = Total(s)
           /\ DrawNow(r).count = 0
<1>0. /\ DrawCalls \in Nat /\ 1 <= DrawCalls - 1 /\ s \in GLType /\ ~s.overrun
      /\ s.batch.drawCounter \in 1..DrawCalls
  BY BatchType, BatchAssumption DEF Good
<1>1. CASE s.batch.drawCounter >= DrawCalls
  <2> DEFINE r == rlDrawRenderBatch(s)
  <2>1. IfManyDraws(s) = r
    BY <1>1 DEF IfManyDraws
  <2>2. r.batch.drawCounter = 1 /\ SameContext(r, s) /\ SamePen(r, s)
    BY <1>0, Rendered
  <2>3. Good(r, 1) /\ Total(r) = Total(s) /\ DrawNow(r).count = 0
    BY <1>0, RenderedIsGood
  <2> HIDE DEF r
  <2>4. Good(r, DrawCalls - 1)
    BY <1>0, <2>2, <2>3 DEF Good
  <2> QED
    BY <2>1, <2>2, <2>3, <2>4
<1>2. CASE s.batch.drawCounter < DrawCalls
  <2>1. IfManyDraws(s) = s
    BY <1>0, <1>2 DEF IfManyDraws
  <2>2. Good(s, DrawCalls - 1)
    BY <1>0, <1>2 DEF Good
  <2>3. SameContext(s, s) /\ SamePen(s, s)
    BY DEF SameContext, SamePen
  <2> QED
    BY <2>1, <2>2, <2>3
<1> QED
  BY <1>0, <1>1, <1>2

\* What is not drawn with, but given to the next primitive.
SameStyle(r, s) == r.color = s.color /\ r.normal = s.normal /\ r.texcoord = s.texcoord

\* Only the texture for the next draw changes.
LEMMA TextureNamed ==
    ASSUME NEW s, NEW n, Good(s, n), NEW id \in TextureIds
    PROVE  LET r == [s EXCEPT !.currentTextureId = id] IN
           /\ Good(r, n) /\ SameContext(r, s) /\ SameStyle(r, s) /\ Total(r) = Total(s)
           /\ r.currentTextureId = id /\ DrawNow(r) = DrawNow(s) /\ r.batch = s.batch
           /\ r.drawn = s.drawn
<1> DEFINE r == [s EXCEPT !.currentTextureId = id]
<1>1. s \in GLType
  BY DEF Good
<1>2. /\ r \in GLType /\ r.batch = s.batch /\ r.drawn = s.drawn /\ r.overrun = s.overrun
      /\ r.currentTextureId = id
  BY <1>1 DEF GLType
<1>3. SameContext(r, s) /\ SameStyle(r, s)
  BY <1>1 DEF SameContext, SameStyle, GLType
<1> HIDE DEF r
<1>4. Setting(r) = Setting(s)
  BY <1>3, SameSetting
<1>5. Good(r, n) /\ Total(r) = Total(s) /\ DrawNow(r) = DrawNow(s)
  BY <1>2, <1>4, Untouched
<1> QED
  BY <1>2, <1>3, <1>5 DEF r

LEMMA BeginIs ==
    ASSUME NEW s, Good(s, DrawCalls - 1), NEW mode \in Modes
    PROVE  LET r == rlBegin(s, mode) IN
           /\ Good(r, DrawCalls - 1) /\ SameContext(r, s) /\ SameStyle(r, s) /\ Total(r) = Total(s)
           /\ DrawNow(r).mode = mode
           /\ DrawNow(r).texture = IF DrawNow(s).mode = mode THEN DrawNow(s).texture
                                   ELSE s.currentTextureId
           /\ r.currentTextureId = IF DrawNow(s).mode = mode THEN s.currentTextureId ELSE Default
<1>1. CASE DrawNow(s).mode = mode
  <2>1. rlBegin(s, mode) = s
    BY <1>1 DEF rlBegin
  <2>2. SameContext(s, s) /\ SameStyle(s, s)
    BY DEF SameContext, SameStyle
  <2> QED
    BY <1>1, <2>1, <2>2
<1>2. CASE DrawNow(s).mode # mode
  <2> DEFINE closed == Closed(s)
             ready == IfManyDraws(closed)
             i == ready.batch.drawCounter
             d == [ready.batch.draws[i] EXCEPT !.mode = mode, !.texture = s.currentTextureId]
             titled == WithDraw(ready, i, d)
             r == [titled EXCEPT !.currentTextureId = Default]
  <2>1. s.currentTextureId \in TextureIds /\ Default \in TextureIds
    BY BatchType DEF Good, TextureIds
  <2>2. /\ Good(closed, DrawCalls) /\ SameContext(closed, s) /\ SamePen(closed, s)
        /\ Total(closed) = Total(s) /\ DrawNow(closed).count = 0
    BY ClosedIs
  <2> HIDE DEF closed
  <2>3. /\ Good(ready, DrawCalls - 1) /\ SameContext(ready, closed) /\ SamePen(ready, closed)
        /\ Total(ready) = Total(closed) /\ DrawNow(ready).count = 0
    BY <2>2, ManyDrawsAre
  <2> HIDE DEF ready
  <2>4. /\ ready \in GLType /\ ready.batch \in Batches /\ i \in 1..DrawCalls
        /\ ready.batch.draws \in [1..DrawCalls -> Draw] /\ ready.batch.draws[i] \in Draw
        /\ ready.batch.draws[i].count = 0 /\ ready.batch.draws[i].alignment \in Nat
    BY <2>3, BatchType DEF Good, DrawNow
  <2>5. d \in Draw /\ d.mode = mode /\ d.texture = s.currentTextureId /\ d.count = 0
    BY <2>1, <2>4 DEF Draw
  <2>6. rlBegin(s, mode) = r
    <3>1. rlBegin(s, mode) = [ready EXCEPT !.batch.draws[i].mode = mode,
                                           !.batch.draws[i].texture = s.currentTextureId,
                                           !.currentTextureId = Default]
      BY <1>2 DEF rlBegin, ready, closed
    <3>2. titled = [ready EXCEPT !.batch.draws[i].mode = mode,
                                 !.batch.draws[i].texture = s.currentTextureId]
      BY <2>4 DEF WithDraw, GLType, Batches
    <3> QED
      BY <3>1, <3>2
  <2> HIDE DEF d
  <2>7. /\ Good(titled, DrawCalls - 1) /\ SameContext(titled, ready) /\ SamePen(titled, ready)
        /\ Total(titled) = Total(ready) /\ DrawNow(titled) = d
    BY <2>3, <2>5, Retitled
  <2> HIDE DEF titled
  <2>8. /\ Good(r, DrawCalls - 1) /\ SameContext(r, titled) /\ SameStyle(r, titled)
        /\ Total(r) = Total(titled) /\ r.currentTextureId = Default /\ DrawNow(r) = DrawNow(titled)
    BY <2>1, <2>7, TextureNamed
  <2> HIDE DEF r
  <2>9. SameContext(r, s)
    BY <2>2, <2>3, <2>7, <2>8 DEF SameContext
  <2>10. SameStyle(r, s)
    BY <2>2, <2>3, <2>7, <2>8 DEF SamePen, SameStyle
  <2> QED
    BY <1>2, <2>2, <2>3, <2>5, <2>6, <2>7, <2>8, <2>9, <2>10
<1> QED
  BY <1>1, <1>2

LEMMA SetTextureIs ==
    ASSUME NEW s, Good(s, DrawCalls - 1), NEW id \in TextureIds
    PROVE  LET r == rlSetTexture(s, id) IN
           /\ Good(r, DrawCalls - 1) /\ SameContext(r, s) /\ SameStyle(r, s) /\ Total(r) = Total(s)
           /\ r.currentTextureId = id /\ DrawNow(r).texture = id
<1> DEFINE s0 == [s EXCEPT !.currentTextureId = id]
           closed == Closed(s0)
           j == closed.batch.drawCounter
           e == [closed.batch.draws[j] EXCEPT !.mode = DrawNow(s).mode]
           named == IF j = s.batch.drawCounter THEN closed ELSE WithDraw(closed, j, e)
           ready == IfManyDraws(named)
           i == ready.batch.drawCounter
           d == [ready.batch.draws[i] EXCEPT !.texture = id, !.count = 0]
           r == WithDraw(ready, i, d)
<1>1. /\ Good(s0, DrawCalls - 1) /\ SameContext(s0, s) /\ SameStyle(s0, s) /\ Total(s0) = Total(s)
      /\ s0.currentTextureId = id /\ DrawNow(s0) = DrawNow(s)
  BY TextureNamed
<1>2. CASE DrawNow(s).texture = id
  BY <1>1, <1>2 DEF rlSetTexture
<1>3. CASE DrawNow(s).texture # id
  <2>1. DrawNow(s).mode \in Modes
    BY BatchType DEF Good, DrawNow
  <2> HIDE DEF s0
  <2>2. /\ Good(closed, DrawCalls) /\ SameContext(closed, s0) /\ SamePen(closed, s0)
        /\ Total(closed) = Total(s0) /\ DrawNow(closed).count = 0
    BY <1>1, ClosedIs
  <2> HIDE DEF closed
  <2>3. /\ Good(named, DrawCalls) /\ SameContext(named, closed) /\ SamePen(named, closed)
        /\ Total(named) = Total(closed) /\ DrawNow(named).count = 0
    <3>1. /\ closed \in GLType /\ closed.batch.draws[j] \in Draw /\ closed.batch.draws[j].count = 0
      BY <2>2, BatchType DEF Good, DrawNow
    <3>2. e \in Draw /\ e.count = 0
      BY <2>1, <3>1 DEF Draw
    <3> HIDE DEF e
    <3>3. /\ Good(WithDraw(closed, j, e), DrawCalls) /\ SameContext(WithDraw(closed, j, e), closed)
          /\ SamePen(WithDraw(closed, j, e), closed) /\ Total(WithDraw(closed, j, e)) = Total(closed)
          /\ DrawNow(WithDraw(closed, j, e)) = e
      BY <2>2, <3>2, Retitled
    <3>4. SameContext(closed, closed) /\ SamePen(closed, closed)
      BY DEF SameContext, SamePen
    <3> QED
      BY <2>2, <3>2, <3>3, <3>4
  <2>4. named = IF j = s.batch.drawCounter THEN closed
                ELSE [closed EXCEPT !.batch.draws[j].mode = DrawNow(s).mode]
    <3>1. closed \in GLType /\ closed.batch \in Batches /\ j \in 1..DrawCalls
          /\ closed.batch.draws \in [1..DrawCalls -> Draw] /\ closed.batch.draws[j] \in Draw
      BY <2>2, BatchType DEF Good
    <3>2. WithDraw(closed, j, e) = [closed EXCEPT !.batch.draws[j].mode = DrawNow(s).mode]
      BY <3>1 DEF WithDraw, GLType, Batches
    <3> HIDE DEF e
    <3> QED
      BY <3>2
  <2> HIDE DEF named
  <2>5. /\ Good(ready, DrawCalls - 1) /\ SameContext(ready, named) /\ SamePen(ready, named)
        /\ Total(ready) = Total(named) /\ DrawNow(ready).count = 0
    BY <2>3, ManyDrawsAre
  <2>6. rlSetTexture(s, id) = [ready EXCEPT !.batch.draws[i].texture = id,
                                            !.batch.draws[i].count = 0]
    BY <1>3, <2>4 DEF rlSetTexture, s0, closed, ready
  <2> HIDE DEF ready
  <2>7. /\ ready \in GLType /\ ready.batch \in Batches /\ i \in 1..DrawCalls
        /\ ready.batch.draws \in [1..DrawCalls -> Draw] /\ ready.batch.draws[i] \in Draw
    BY <2>5, BatchType DEF Good
  <2>8. d \in Draw /\ d.texture = id /\ d.count = 0
    BY <2>7 DEF Draw
  <2>9. rlSetTexture(s, id) = r
    <3>1. r = [ready EXCEPT !.batch.draws[i].texture = id, !.batch.draws[i].count = 0]
      BY <2>7 DEF WithDraw, GLType, Batches
    <3> QED
      BY <2>6, <3>1
  <2> HIDE DEF d
  <2>10. /\ Good(r, DrawCalls - 1) /\ SameContext(r, ready) /\ SamePen(r, ready)
         /\ Total(r) = Total(ready) /\ DrawNow(r) = d
    BY <2>5, <2>8, Retitled
  <2> HIDE DEF r
  <2>11. SameContext(r, s)
    BY <1>1, <2>2, <2>3, <2>5, <2>10 DEF SameContext
  <2>12. SameStyle(r, s) /\ r.currentTextureId = id
    BY <1>1, <2>2, <2>3, <2>5, <2>10 DEF SamePen, SameStyle
  <2> QED
    BY <1>1, <2>2, <2>3, <2>5, <2>8, <2>9, <2>10, <2>11, <2>12
<1> QED
  BY <1>2, <1>3
-----------------------------------------------------------------------------
(* Vertices. *)

\* The vertices one after the other, from the recursive definition.
LEMMA VerticesAre ==
    ASSUME NEW s, NEW n \in Nat
    PROVE  \E after : /\ after[0] = s /\ Vertices(s, n) = after[n]
                      /\ \A i \in 1..n : after[i] = rlVertex3f(rlTexCoord2f(after[i - 1], i), i)
<1> DEFINE Is(g, m) == g = [i \in 0..m |-> IF i = 0 THEN s
                                           ELSE rlVertex3f(rlTexCoord2f(g[i - 1], i), i)]
           S == {m \in 0..n : \E g : Is(g, m)}
           f == CHOOSE g : Is(g, n)
<1>1. 0 \in S
  <2>1. Is([i \in 0..0 |-> s], 0)
    OBVIOUS
  <2>2. 0 \in 0..n
    OBVIOUS
  <2> HIDE DEF Is
  <2> QED
    BY <2>1, <2>2
<1>2. ASSUME NEW m \in 0..(n - 1), m \in S  PROVE m + 1 \in S
  <2>1. PICK g : Is(g, m)
    BY <1>2
  <2> DEFINE h == [i \in 0..(m + 1) |-> IF i <= m THEN g[i]
                                        ELSE rlVertex3f(rlTexCoord2f(g[m], m + 1), m + 1)]
  <2>2. ASSUME NEW i \in 0..(m + 1)
        PROVE  h[i] = IF i = 0 THEN s ELSE rlVertex3f(rlTexCoord2f(h[i - 1], i), i)
    <3>1. CASE i = 0
      BY <2>1, <3>1
    <3>2. CASE i \in 1..m
      <4>1. i \in 0..m /\ i - 1 \in 0..m /\ i # 0 /\ i <= m /\ i - 1 <= m /\ i - 1 \in 0..(m + 1)
        BY <3>2
      <4>2. h[i] = g[i] /\ h[i - 1] = g[i - 1]
        BY <4>1
      <4>3. g[i] = rlVertex3f(rlTexCoord2f(g[i - 1], i), i)
        <5> HIDE DEF h
        <5> QED
          BY <2>1, <4>1, Zenon
      <4> QED
        BY <4>1, <4>2, <4>3, Zenon
    <3>3. CASE i = m + 1
      <4>1. i # 0 /\ i - 1 = m /\ m \in 0..(m + 1) /\ m <= m /\ ~(i <= m)
        BY <3>3
      <4>2. h[i] = rlVertex3f(rlTexCoord2f(g[m], i), i) /\ h[i - 1] = g[m]
        BY <3>3, <4>1
      <4> QED
        BY <4>1, <4>2, Zenon
    <3> QED
      BY <3>1, <3>2, <3>3
  <2>3. Is(h, m + 1)
    <3>1. h = [i \in 0..(m + 1) |-> h[i]]
      OBVIOUS
    <3> HIDE DEF h
    <3> QED
      BY <2>2, <3>1, Zenon
  <2>4. m + 1 \in 0..n
    OBVIOUS
  <2> HIDE DEF h, Is
  <2> QED
    BY <2>3, <2>4
<1>3. n \in S
  <2> HIDE DEF S
  <2>1. 0..n \subseteq S
    BY <1>1, <1>2, UpTo
  <2> QED
    BY <2>1
<1>4. Is(f, n)
  <2> HIDE DEF Is
  <2> QED
    BY <1>3
<1>5. Vertices(s, n) = f[n]
  BY DEF Vertices
<1> HIDE DEF f
<1>6. f[0] = s
  BY <1>4
<1>7. ASSUME NEW i \in 1..n  PROVE f[i] = rlVertex3f(rlTexCoord2f(f[i - 1], i), i)
  <2>1. i \in 0..n /\ i # 0
    OBVIOUS
  <2> QED
    BY <1>4, <2>1, Zenon
<1> QED
  BY <1>5, <1>6, <1>7

\* What is written for a vertex.
Corner(s, at, texcoord) ==
    [at |-> at, transform |-> IF s.transformRequired THEN s.matrix.transform ELSE Identity,
     color |-> s.color, texcoord |-> texcoord, normal |-> s.normal]

Written(s, at) ==
    [s EXCEPT !.overrun = @ \/ vertexCounter(s) >= Elements * 4,
              !.batch.draws[s.batch.drawCounter].count = @ + 1,
              !.batch.vertices = Append(@, Corner(s, at, s.texcoord))]

LEMMA CornerType ==
    ASSUME NEW s \in GLType, NEW at \in Nat, NEW texcoord \in Nat
    PROVE  Corner(s, at, texcoord) \in Vertex
<1>1. <<>> \in Words
  BY DEF Words
<1>2. /\ s.transformRequired \in BOOLEAN /\ s.color \in Names /\ s.normal \in Words
      /\ s.matrix \in [projection : Words, modelview : Words, transform : Words]
  BY DEF GLType
<1>3. s.matrix.transform \in Words
  BY <1>2
<1> QED
  BY <1>1, <1>2, <1>3 DEF Corner, Vertex, Identity

LEMMA WrittenIs ==
    ASSUME NEW s \in GLType, ~s.overrun, vertexCounter(s) < Elements * 4, NEW at \in Nat
    PROVE  LET r == Written(s, at)
               c == s.batch.drawCounter
           IN /\ r \in GLType /\ ~r.overrun /\ SameContext(r, s) /\ SamePen(r, s)
              /\ r.drawn = s.drawn /\ r.batch.drawCounter = c
              /\ r.batch.vertices = Append(s.batch.vertices, Corner(s, at, s.texcoord))
              /\ r.batch.draws[c].mode = s.batch.draws[c].mode
              /\ r.batch.draws[c].texture = s.batch.draws[c].texture
              /\ r.batch.draws[c].count = s.batch.draws[c].count + 1
              /\ \A i \in 1..DrawCalls : i # c => r.batch.draws[i] = s.batch.draws[i]
<1> DEFINE c == s.batch.drawCounter
           d == [s.batch.draws[c] EXCEPT !.count = @ + 1]
           ds == [s.batch.draws EXCEPT ![c] = d]
           w == Append(s.batch.vertices, Corner(s, at, s.texcoord))
           b == [s.batch EXCEPT !.draws = ds, !.vertices = w]
           r == Written(s, at)
<1>1. /\ s.batch \in Batches /\ s.batch.draws \in [1..DrawCalls -> Draw] /\ c \in 1..DrawCalls
      /\ s.batch.draws[c] \in Draw /\ s.batch.vertices \in Seq(Vertex \cup {Gap})
      /\ vertexCounter(s) \in Nat
  BY BatchType DEF vertexCounter
<1>2. /\ d \in Draw /\ d.mode = s.batch.draws[c].mode /\ d.texture = s.batch.draws[c].texture
      /\ d.count = s.batch.draws[c].count + 1
  <2>1. PICK old \in Draw : old = s.batch.draws[c]
    BY <1>1
  <2> DEFINE new == [old EXCEPT !.count = old.count + 1]
  <2>2. new \in Draw /\ new.mode = old.mode /\ new.texture = old.texture /\ new.count = old.count + 1
    BY DEF Draw
  <2>3. d = new
    BY <2>1
  <2> HIDE DEF d, new
  <2> QED
    BY <2>1, <2>2, <2>3
<1> HIDE DEF d
<1>3. /\ ds \in [1..DrawCalls -> Draw] /\ ds[c] = d
      /\ \A i \in 1..DrawCalls : i # c => ds[i] = s.batch.draws[i]
  BY <1>1, <1>2
<1> HIDE DEF ds
<1>4. w \in Seq(Vertex \cup {Gap})
  <2>1. Corner(s, at, s.texcoord) \in Vertex
    BY CornerType DEF GLType
  <2> DEFINE D == Vertex \cup {Gap}
  <2>2. Corner(s, at, s.texcoord) \in D /\ s.batch.vertices \in Seq(D)
    BY <1>1, <2>1
  <2> HIDE DEF D
  <2>3. w \in Seq(D)
    BY <2>2, AppendProperties
  <2> QED
    BY <2>3 DEF D
<1> HIDE DEF w
<1>5. b \in Batches /\ b.draws = ds /\ b.drawCounter = c /\ b.vertices = w
  BY <1>1, <1>3, <1>4 DEF Batches
<1>6. ~(vertexCounter(s) >= Elements * 4)
  BY <1>1, BatchAssumption
<1>7. r = [s EXCEPT !.overrun = @ \/ vertexCounter(s) >= Elements * 4, !.batch = b]
  BY <1>1 DEF Written, b, ds, d, w, GLType, Batches
<1> HIDE DEF b, r
<1>8. r \in GLType /\ ~r.overrun /\ r.batch = b /\ r.drawn = s.drawn
  BY <1>5, <1>6, <1>7 DEF GLType
<1>9. SameContext(r, s) /\ SamePen(r, s)
  BY <1>7 DEF SameContext, SamePen, GLType
<1> QED
  BY <1>2, <1>3, <1>5, <1>8, <1>9 DEF r, w

LEMMA TexCoordIs ==
    ASSUME NEW s \in GLType, NEW t \in Nat
    PROVE  LET r == rlTexCoord2f(s, t) IN
           /\ r \in GLType /\ SameContext(r, s) /\ r.batch = s.batch /\ r.drawn = s.drawn
           /\ r.overrun = s.overrun /\ r.color = s.color /\ r.normal = s.normal
           /\ r.currentTextureId = s.currentTextureId /\ r.texcoord = t
<1> DEFINE r == rlTexCoord2f(s, t)
<1>1. r = [s EXCEPT !.texcoord = t]
  BY DEF rlTexCoord2f
<1> HIDE DEF r
<1>2. SameContext(r, s)
  BY <1>1 DEF SameContext, GLType
<1> QED
  BY <1>1, <1>2 DEF GLType, r

\* Room for a primitive, made before its first vertex.
Roomy(s) ==
    LET k == PerPrimitive(DrawNow(s).mode)
    IN  IF vertexCounter(s) > Elements * 4 - 4 /\ DrawNow(s).count % k = 0
        THEN rlCheckRenderBatchLimit(s, k + 1) ELSE s

LEMMA RoomIs ==
    ASSUME NEW s, Good(s, DrawCalls - 1)
    PROVE  LET r == Roomy(s) IN
           /\ Good(r, DrawCalls - 1) /\ vertexCounter(r) <= Elements * 4 - 4
           /\ SameContext(r, s) /\ SamePen(r, s) /\ Total(r) = Total(s)
           /\ DrawNow(r).mode = DrawNow(s).mode /\ DrawNow(r).texture = DrawNow(s).texture
<1> DEFINE k == PerPrimitive(DrawNow(s).mode)
           r == rlCheckRenderBatchLimit(s, k + 1)
<1>0. /\ Elements \in Nat /\ Elements >= 1 /\ vertexCounter(s) \in Nat /\ k \in {2, 3, 4}
      /\ DrawCalls \in Nat /\ 1 <= DrawCalls - 1 /\ s \in GLType /\ ~s.overrun
      /\ DrawNow(s).count % k = 0
  BY BatchAssumption, BatchType, PerPrimitiveType DEF Good, vertexCounter
<1> HIDE DEF k
<1>1. CASE vertexCounter(s) > Elements * 4 - 4
  <2>1. Full(s, k + 1)
    BY <1>0, <1>1 DEF Full
  <2>2. /\ Good(r, 1) /\ SameContext(r, s) /\ SamePen(r, s) /\ Total(r) = Total(s)
        /\ vertexCounter(r) = 0 /\ r.batch.drawCounter = 1
        /\ DrawNow(r).mode = DrawNow(s).mode /\ DrawNow(r).texture = DrawNow(s).texture
    BY <1>0, <2>1, LimitReached
  <2>3. Roomy(s) = r
    BY <1>0, <1>1 DEF Roomy, k
  <2> HIDE DEF r
  <2>4. Good(r, DrawCalls - 1) /\ vertexCounter(r) <= Elements * 4 - 4
    BY <1>0, <2>2 DEF Good
  <2> QED
    BY <2>2, <2>3, <2>4
<1>2. CASE ~(vertexCounter(s) > Elements * 4 - 4)
  <2>1. Roomy(s) = s
    BY <1>2 DEF Roomy
  <2>2. vertexCounter(s) <= Elements * 4 - 4
    BY <1>0, <1>2
  <2>3. SameContext(s, s) /\ SamePen(s, s)
    BY DEF SameContext, SamePen
  <2> QED
    BY <2>1, <2>2, <2>3
<1> QED
  BY <1>1, <1>2

\* x is s after the first j vertices of a primitive.
Filled(x, s, j) ==
    LET c == s.batch.drawCounter IN
    /\ x \in GLType /\ ~x.overrun /\ SameContext(x, s)
    /\ x.color = s.color /\ x.normal = s.normal /\ x.currentTextureId = s.currentTextureId
    /\ x.drawn = s.drawn /\ x.batch.drawCounter = c
    /\ x.batch.draws[c].mode = s.batch.draws[c].mode
    /\ x.batch.draws[c].texture = s.batch.draws[c].texture
    /\ x.batch.draws[c].count = s.batch.draws[c].count + j
    /\ \A i \in 1..DrawCalls : i # c => x.batch.draws[i] = s.batch.draws[i]
    /\ x.batch.vertices = s.batch.vertices \o [v \in 1..j |-> Corner(s, v, v)]

LEMMA AppendToRun ==
    ASSUME NEW s \in GLType, NEW w \in Seq(Vertex \cup {Gap}), NEW j \in Nat
    PROVE  /\ Append(w \o [v \in 1..j |-> Corner(s, v, v)], Corner(s, j + 1, j + 1))
                = w \o [v \in 1..(j + 1) |-> Corner(s, v, v)]
           /\ [v \in 1..j |-> Corner(s, v, v)] \in Seq(Vertex \cup {Gap})
           /\ Len([v \in 1..j |-> Corner(s, v, v)]) = j
<1> DEFINE D == Vertex \cup {Gap}
           a == [v \in 1..j |-> Corner(s, v, v)]
           b == [v \in 1..(j + 1) |-> Corner(s, v, v)]
           e == Corner(s, j + 1, j + 1)
<1>1. \A v \in Nat : Corner(s, v, v) \in D
  BY CornerType
<1> HIDE DEF D
<1>2. a \in Seq(D) /\ Len(a) = j /\ b \in Seq(D) /\ Len(b) = j + 1 /\ e \in D
  BY <1>1
<1>3. \A v \in 1..j : b[v] = a[v]
  OBVIOUS
<1>4. b[j + 1] = e
  OBVIOUS
<1>5. w \in Seq(D) /\ Len(w) \in Nat
  BY DEF D
<1> HIDE DEF a, b, e
<1>6. /\ w \o a \in Seq(D) /\ Len(w \o a) = Len(w) + j /\ Len(w) \in Nat
      /\ \A i \in 1..(Len(w) + j) : (w \o a)[i] = IF i <= Len(w) THEN w[i] ELSE a[i - Len(w)]
  BY <1>2, <1>5, ConcatProperties, LenProperties
<1>7. /\ w \o b \in Seq(D) /\ Len(w \o b) = Len(w) + (j + 1)
      /\ \A i \in 1..(Len(w) + (j + 1)) : (w \o b)[i] = IF i <= Len(w) THEN w[i] ELSE b[i - Len(w)]
  <2>1. /\ w \o b \in Seq(D) /\ Len(w \o b) = Len(w) + Len(b)
        /\ \A i \in 1..(Len(w) + Len(b)) : (w \o b)[i] = IF i <= Len(w) THEN w[i] ELSE b[i - Len(w)]
    BY <1>2, <1>5, ConcatProperties
  <2> QED
    BY <1>2, <2>1
<1> DEFINE p == w \o a
           q == w \o b
<1>8. /\ Append(p, e) \in Seq(D) /\ Len(Append(p, e)) = Len(p) + 1
      /\ \A i \in 1..Len(p) : Append(p, e)[i] = p[i]
      /\ Append(p, e)[Len(p) + 1] = e
  <2>1. p \in Seq(D) /\ e \in D
    BY <1>2, <1>6
  <2> HIDE DEF p
  <2> QED
    BY <2>1, AppendProperties
<1> HIDE DEF p, q
<1>9. ASSUME NEW i \in 1..(Len(w) + (j + 1))  PROVE Append(p, e)[i] = q[i]
  <2>1. CASE i <= Len(w)
    BY <1>6, <1>7, <1>8, <2>1 DEF p, q
  <2>2. CASE i > Len(w) /\ i <= Len(w) + j
    <3>1. i - Len(w) \in 1..j
      BY <1>6, <2>2
    <3> QED
      BY <1>3, <1>6, <1>7, <1>8, <2>2, <3>1 DEF p, q
  <2>3. CASE i = Len(w) + (j + 1)
    <3>1. i - Len(w) = j + 1 /\ ~(i <= Len(w)) /\ i = Len(p) + 1
      BY <1>6, <2>3 DEF p
    <3> QED
      BY <1>4, <1>7, <1>8, <3>1 DEF q
  <2>4. i <= Len(w) \/ (i > Len(w) /\ i <= Len(w) + j) \/ i = Len(w) + (j + 1)
    BY <1>5
  <2> QED
    BY <2>1, <2>2, <2>3, <2>4
<1>10. Append(p, e) = q
  <2>1. q \in Seq(D) /\ Len(q) = Len(w) + (j + 1) /\ Len(Append(p, e)) = Len(q)
    BY <1>6, <1>7, <1>8 DEF p, q
  <2> QED
    BY <1>8, <1>9, <2>1, SeqEqual
<1> QED
  BY <1>2, <1>10 DEF a, b, e, p, q, D

\* One more vertex, where there is room.
LEMMA OneMoreVertex ==
    ASSUME NEW s, Good(s, DrawCalls - 1), vertexCounter(s) <= Elements * 4 - 4,
           NEW j \in 0..3, NEW x, Filled(x, s, j), x.texcoord = j + 1
    PROVE  Filled(Written(x, j + 1), s, j + 1)
<1> DEFINE r == Written(x, j + 1)
           c == s.batch.drawCounter
           run == [v \in 1..j |-> Corner(s, v, v)]
<1>0. /\ s \in GLType /\ x \in GLType /\ ~x.overrun /\ j \in Nat /\ j + 1 \in Nat
      /\ s.batch.vertices \in Seq(Vertex \cup {Gap}) /\ vertexCounter(s) \in Nat
      /\ s.batch.draws[c].count \in Nat /\ Elements \in Nat
  <2>1. s \in GLType /\ x \in GLType /\ ~x.overrun
    BY DEF Good, Filled
  <2>2. /\ s.batch.vertices \in Seq(Vertex \cup {Gap}) /\ Len(s.batch.vertices) \in Nat
        /\ c \in 1..DrawCalls /\ \A i \in 1..DrawCalls : s.batch.draws[i].count \in Nat
    BY <2>1, BatchType
  <2> QED
    BY <2>1, <2>2, BatchAssumption DEF vertexCounter
<1>1. vertexCounter(x) = vertexCounter(s) + j
  <2> DEFINE D == Vertex \cup {Gap}
  <2>1. run \in Seq(D) /\ Len(run) = j /\ s.batch.vertices \in Seq(D)
    BY <1>0, AppendToRun
  <2>2. x.batch.vertices = s.batch.vertices \o run
    BY DEF Filled
  <2> HIDE DEF D, run
  <2>3. Len(s.batch.vertices \o run) = Len(s.batch.vertices) + Len(run)
    BY <2>1, ConcatProperties
  <2> QED
    BY <2>1, <2>2, <2>3 DEF vertexCounter
<1>2. vertexCounter(x) < Elements * 4
  BY <1>0, <1>1
<1>3. /\ r \in GLType /\ ~r.overrun /\ SameContext(r, x) /\ SamePen(r, x)
      /\ r.drawn = x.drawn /\ r.batch.drawCounter = x.batch.drawCounter
      /\ r.batch.vertices = Append(x.batch.vertices, Corner(x, j + 1, x.texcoord))
      /\ r.batch.draws[x.batch.drawCounter].mode = x.batch.draws[x.batch.drawCounter].mode
      /\ r.batch.draws[x.batch.drawCounter].texture = x.batch.draws[x.batch.drawCounter].texture
      /\ r.batch.draws[x.batch.drawCounter].count = x.batch.draws[x.batch.drawCounter].count + 1
      /\ \A i \in 1..DrawCalls : i # x.batch.drawCounter => r.batch.draws[i] = x.batch.draws[i]
  <2> HIDE DEF r
  <2> QED
    BY <1>0, <1>2, WrittenIs DEF r
<1> HIDE DEF r
<1>4. /\ SameContext(x, s) /\ x.color = s.color /\ x.normal = s.normal
      /\ x.currentTextureId = s.currentTextureId /\ x.drawn = s.drawn /\ x.batch.drawCounter = c
      /\ x.batch.draws[c].mode = s.batch.draws[c].mode
      /\ x.batch.draws[c].texture = s.batch.draws[c].texture
      /\ x.batch.draws[c].count = s.batch.draws[c].count + j
      /\ \A i \in 1..DrawCalls : i # c => x.batch.draws[i] = s.batch.draws[i]
      /\ x.batch.vertices = s.batch.vertices \o run
  BY DEF Filled
<1>5. Corner(x, j + 1, x.texcoord) = Corner(s, j + 1, j + 1)
  BY <1>4 DEF Corner, SameContext
<1>6. r.batch.vertices = s.batch.vertices \o [v \in 1..(j + 1) |-> Corner(s, v, v)]
  <2>1. Append(s.batch.vertices \o run, Corner(s, j + 1, j + 1))
          = s.batch.vertices \o [v \in 1..(j + 1) |-> Corner(s, v, v)]
    BY <1>0, AppendToRun
  <2>2. r.batch.vertices = Append(s.batch.vertices \o run, Corner(s, j + 1, j + 1))
    <3> HIDE DEF run
    <3> QED
      BY <1>3, <1>4, <1>5, Zenon
  <2> QED
    BY <2>1, <2>2, Zenon
<1>7. SameContext(r, s)
  BY <1>3, <1>4 DEF SameContext
<1>8. r.color = s.color /\ r.normal = s.normal /\ r.currentTextureId = s.currentTextureId
  BY <1>3, <1>4 DEF SamePen
<1>9. r.batch.draws[c].count = s.batch.draws[c].count + (j + 1)
  BY SMTT(30), <1>0, <1>3, <1>4
<1>10. /\ r.drawn = s.drawn /\ r.batch.drawCounter = c
       /\ r.batch.draws[c].mode = s.batch.draws[c].mode
       /\ r.batch.draws[c].texture = s.batch.draws[c].texture
       /\ \A i \in 1..DrawCalls : i # c => r.batch.draws[i] = s.batch.draws[i]
  BY <1>3, <1>4
<1> QED
  BY <1>3, <1>6, <1>7, <1>8, <1>9, <1>10, Zenon DEF Filled, r

\* The first vertex of a primitive makes room for all of them.
LEMMA FirstVertex ==
    ASSUME NEW s, Good(s, DrawCalls - 1)
    PROVE  \E room :
             /\ Good(room, DrawCalls - 1) /\ vertexCounter(room) <= Elements * 4 - 4
             /\ SameContext(room, s) /\ room.color = s.color /\ room.normal = s.normal
             /\ room.currentTextureId = s.currentTextureId /\ Total(room) = Total(s)
             /\ DrawNow(room).mode = DrawNow(s).mode /\ DrawNow(room).texture = DrawNow(s).texture
             /\ Filled(rlVertex3f(rlTexCoord2f(s, 1), 1), room, 1)
<1> DEFINE s1 == rlTexCoord2f(s, 1)
           room == Roomy(s1)
<1>0. s \in GLType /\ DrawCalls \in Nat /\ 0 \in 0..3 /\ 0 + 1 = 1
  BY BatchAssumption DEF Good
<1>1. /\ s1 \in GLType /\ SameContext(s1, s) /\ s1.batch = s.batch /\ s1.drawn = s.drawn
      /\ s1.overrun = s.overrun /\ s1.color = s.color /\ s1.normal = s.normal
      /\ s1.currentTextureId = s.currentTextureId /\ s1.texcoord = 1
  BY <1>0, TexCoordIs
<1> HIDE DEF s1
<1>2. Good(s1, DrawCalls - 1) /\ Total(s1) = Total(s) /\ DrawNow(s1) = DrawNow(s)
  <2>1. Setting(s1) = Setting(s)
    BY <1>1, SameSetting
  <2> QED
    BY <1>1, <2>1, Untouched
<1>3. /\ Good(room, DrawCalls - 1) /\ vertexCounter(room) <= Elements * 4 - 4
      /\ SameContext(room, s1) /\ SamePen(room, s1) /\ Total(room) = Total(s1)
      /\ DrawNow(room).mode = DrawNow(s1).mode /\ DrawNow(room).texture = DrawNow(s1).texture
  BY <1>2, RoomIs
<1>4. rlVertex3f(s1, 1) = Written(room, 1)
  <2>1. /\ room.transformRequired = s1.transformRequired /\ room.matrix = s1.matrix
        /\ room.color = s1.color /\ room.texcoord = s1.texcoord /\ room.normal = s1.normal
    <3> HIDE DEF room
    <3> QED
      BY <1>3 DEF SameContext, SamePen
  <2>2. rlVertex3f(s1, 1) =
          [room EXCEPT !.overrun = @ \/ vertexCounter(room) >= Elements * 4,
                       !.batch.draws[room.batch.drawCounter].count = @ + 1,
                       !.batch.vertices = Append(@, Corner(s1, 1, s1.texcoord))]
    BY DEF rlVertex3f, Roomy, Corner
  <2>3. Corner(s1, 1, s1.texcoord) = Corner(room, 1, room.texcoord)
    <3> HIDE DEF room
    <3> QED
      BY <2>1 DEF Corner
  <2> HIDE DEF room
  <2> QED
    BY <2>2, <2>3 DEF Written
<1> HIDE DEF room
<1>5. Filled(room, room, 0)
  <2>1. room \in GLType /\ ~room.overrun /\ SameContext(room, room)
    BY <1>3 DEF Good, SameContext
  <2>2. room.batch.vertices \in Seq(Vertex \cup {Gap}) /\ room.batch.drawCounter \in 1..DrawCalls
    BY <2>1, BatchType
  <2>3. room.batch.draws[room.batch.drawCounter].count \in Nat
    BY <2>1, <2>2, BatchType
  <2>4. room.batch.vertices = room.batch.vertices \o [v \in 1..0 |-> Corner(room, v, v)]
    <3>1. [v \in 1..0 |-> Corner(room, v, v)] = <<>>
      OBVIOUS
    <3> QED
      BY <2>2, <3>1, ConcatEmptySeq
  <2> QED
    BY <2>1, <2>3, <2>4 DEF Filled
<1>6. room.texcoord = 0 + 1
  BY <1>0, <1>1, <1>3 DEF SamePen
<1>7. Filled(Written(room, 0 + 1), room, 0 + 1)
  BY <1>0, <1>3, <1>5, <1>6, OneMoreVertex
<1>8. Filled(rlVertex3f(s1, 1), room, 1)
  BY <1>0, <1>4, <1>7
<1>9. /\ SameContext(room, s) /\ room.color = s.color /\ room.normal = s.normal
      /\ room.currentTextureId = s.currentTextureId
  BY <1>1, <1>3 DEF SameContext, SamePen
<1> QED
  BY <1>2, <1>3, <1>8, <1>9 DEF s1

LEMMA NextVertex ==
    ASSUME NEW s, Good(s, DrawCalls - 1), vertexCounter(s) <= Elements * 4 - 4,
           NEW j \in 1..3, j < PerPrimitive(DrawNow(s).mode), NEW x, Filled(x, s, j)
    PROVE  Filled(rlVertex3f(rlTexCoord2f(x, j + 1), j + 1), s, j + 1)
<1> DEFINE y == rlTexCoord2f(x, j + 1)
           c == s.batch.drawCounter
           k == PerPrimitive(DrawNow(s).mode)
<1>0. /\ x \in GLType /\ j + 1 \in Nat /\ j \in 0..3 /\ s \in GLType /\ k \in {2, 3, 4}
      /\ s.batch.draws[c].count \in Nat
  BY SMTT(30), PerPrimitiveType, BatchType DEF Filled, Good
<1>1. /\ y \in GLType /\ SameContext(y, x) /\ y.batch = x.batch /\ y.drawn = x.drawn
      /\ y.overrun = x.overrun /\ y.color = x.color /\ y.normal = x.normal
      /\ y.currentTextureId = x.currentTextureId /\ y.texcoord = j + 1
  BY <1>0, TexCoordIs
<1> HIDE DEF y
<1>2. SameContext(y, s)
  BY <1>1 DEF Filled, SameContext
<1>3. Filled(y, s, j)
  BY <1>1, <1>2, Zenon DEF Filled
<1>4. DrawNow(y).mode = DrawNow(s).mode /\ DrawNow(y).count = DrawNow(s).count + j
  BY <1>3 DEF Filled, DrawNow
<1>5. DrawNow(y).count % PerPrimitive(DrawNow(y).mode) # 0
  <2>1. DrawNow(s).count \in Nat /\ DrawNow(s).count % k = 0
    BY <1>0 DEF Good, DrawNow
  <2>2. PerPrimitive(DrawNow(y).mode) = k
    BY <1>4
  <2> HIDE DEF k
  <2>3. j < k
    BY DEF k
  <2>4. CASE k = 2
    BY <1>4, <2>1, <2>2, <2>3, <2>4
  <2>5. CASE k = 3
    BY <1>4, <2>1, <2>2, <2>3, <2>5
  <2>6. CASE k = 4
    BY <1>4, <2>1, <2>2, <2>3, <2>6
  <2> QED
    BY <1>0, <2>4, <2>5, <2>6
<1>6. rlVertex3f(y, j + 1) = Written(y, j + 1)
  BY <1>5 DEF rlVertex3f, Written, Corner
<1>7. Filled(Written(y, j + 1), s, j + 1)
  BY <1>0, <1>1, <1>3, OneMoreVertex
<1> QED
  BY <1>6, <1>7 DEF y

LEMMA AppendIs ==
    ASSUME NEW D, NEW a \in Seq(D), NEW b \in Seq(D), NEW e, Len(b) = Len(a) + 1,
           \A i \in 1..Len(a) : b[i] = a[i], b[Len(a) + 1] = e
    PROVE  b = Append(a, e) /\ e \in D
<1>1. e \in D
  BY ElementOfSeq, LenProperties
<1>2. /\ Append(a, e) \in Seq(D) /\ Len(Append(a, e)) = Len(a) + 1 /\ Len(a) \in Nat
      /\ \A i \in 1..Len(a) : Append(a, e)[i] = a[i]
      /\ Append(a, e)[Len(a) + 1] = e
  BY <1>1, AppendProperties, LenProperties
<1>3. ASSUME NEW i \in 1..Len(b)  PROVE b[i] = Append(a, e)[i]
  <2>1. i \in 1..Len(a) \/ i = Len(a) + 1
    BY <1>2
  <2> QED
    BY <1>2, <2>1
<1>4. Len(b) = Len(Append(a, e))
  BY <1>2
<1> QED
  BY <1>1, <1>2, <1>3, <1>4, SeqEqual

LEMMA ConcatAppend ==
    ASSUME NEW D, NEW a \in Seq(D), NEW b \in Seq(D), NEW e \in D
    PROVE  a \o Append(b, e) = Append(a \o b, e)
<1>1. Append(b, e) = b \o <<e>> /\ <<e>> \in Seq(D)
  BY AppendIsConcat
<1>2. a \o b \in Seq(D)
  BY ConcatProperties
<1>3. Append(a \o b, e) = (a \o b) \o <<e>>
  BY <1>2, AppendIsConcat
<1>4. (a \o b) \o <<e>> = a \o (b \o <<e>>)
  BY <1>1, ConcatAssociative
<1> QED
  BY <1>1, <1>3, <1>4, Zenon

\* With all its vertices, the primitive is one more of its draw.
LEMMA FilledIsDrawn ==
    ASSUME NEW s, Good(s, DrawCalls - 1), vertexCounter(s) <= Elements * 4 - 4,
           NEW x, Filled(x, s, PerPrimitive(DrawNow(s).mode))
    PROVE  /\ Good(x, DrawCalls - 1)
           /\ Total(x) = Append(Total(s),
                Primitive(DrawNow(s).mode, DrawNow(s).texture,
                          [v \in 1..PerPrimitive(DrawNow(s).mode) |-> Corner(s, v, v)], Setting(s)))
           /\ DrawNow(x).mode = DrawNow(s).mode /\ DrawNow(x).texture = DrawNow(s).texture
<1> DEFINE c == s.batch.drawCounter
           draw == s.batch.draws[c]
           k == PerPrimitive(draw.mode)
           off == vertexOffset(s, c)
           cs == [v \in 1..k |-> Corner(s, v, v)]
           P == Primitive(draw.mode, draw.texture, cs, Setting(s))
           m == draw.count \div k
<1>0. /\ s \in GLType /\ x \in GLType /\ ~x.overrun /\ DrawCalls \in Nat /\ Elements \in Nat
      /\ c \in 1..DrawCalls /\ c <= DrawCalls - 1 /\ c \in Nat /\ c \in 1..c /\ c - 1 \in 0..DrawCalls
      /\ s.batch.drawCounter = c
  BY SMTT(30), BatchType, BatchAssumption DEF Good, Filled
<1>1. /\ draw = DrawNow(s) /\ draw.count \in Nat /\ k \in {2, 3, 4} /\ off \in Nat
      /\ s.batch.vertices \in Seq(Vertex \cup {Gap}) /\ vertexCounter(s) \in Nat
      /\ draw.mode \in Modes /\ s.batch.draws[c] = draw
  BY <1>0, BatchType, OffsetsAre, PerPrimitiveType DEF DrawNow, vertexCounter
<1>2. /\ off % 4 = 0 /\ off + draw.count = vertexCounter(s) /\ draw.count % k = 0
      /\ \A i \in 1..c : /\ vertexOffset(s, i) % 4 = 0
                         /\ vertexOffset(s, i) + s.batch.draws[i].count <= vertexCounter(s)
      /\ \A i \in 1..DrawCalls : i > c => s.batch.draws[i].count = 0
  BY <1>0, <1>1 DEF Good
<1>3. /\ SameContext(x, s) /\ x.drawn = s.drawn /\ x.batch.drawCounter = c
      /\ x.batch.draws[c].mode = draw.mode /\ x.batch.draws[c].texture = draw.texture
      /\ x.batch.draws[c].count = draw.count + k
      /\ \A i \in 1..DrawCalls : i # c => x.batch.draws[i] = s.batch.draws[i]
      /\ x.batch.vertices = s.batch.vertices \o cs
  BY <1>1 DEF Filled
<1>4. Setting(x) = Setting(s)
  BY <1>3, SameSetting
<1> HIDE DEF c, draw, k, off, P, m
<1>5. /\ vertexCounter(x) = vertexCounter(s) + k
      /\ \A p \in Nat : p < vertexCounter(s) => VertexAt(x, p) = VertexAt(s, p)
      /\ \A v \in 1..k : VertexAt(x, vertexCounter(s) + v - 1) = cs[v]
  <2> DEFINE D == Vertex \cup {Gap}
             y == x.batch.vertices
  <2>1. PICK w \in Seq(D) : w = s.batch.vertices
    BY <1>1
  <2>2. cs \in Seq(D) /\ Len(cs) = k /\ k \in Nat
    <3>1. s \in GLType /\ k \in Nat
      BY <1>0, <1>1
    <3> QED
      BY <3>1, AppendToRun
  <2>3. y = w \o cs
    BY <1>3, <2>1
  <2> HIDE DEF D, cs, y
  <2>4. /\ Len(w \o cs) = Len(w) + Len(cs) /\ Len(w) \in Nat
        /\ \A p \in Nat : p < Len(w) => (w \o cs)[p + 1] = w[p + 1]
        /\ \A p \in 1..Len(cs) : (w \o cs)[Len(w) + p] = cs[p]
    <3>1. cs \in Seq(D)
      BY <2>2
    <3>2. w \o cs \in Seq(D) /\ Len(w \o cs) = Len(w) + Len(cs)
      BY <3>1, WrittenStays
    <3>3. \A p \in Nat : p < Len(w) => (w \o cs)[p + 1] = w[p + 1]
      BY <3>1, WrittenStays
    <3>4. \A p \in 1..Len(cs) : (w \o cs)[Len(w) + p] = cs[p]
      BY <3>1, WrittenStays
    <3> QED
      BY <3>2, <3>3, <3>4, LenProperties
  <2>5. /\ Len(y) = Len(w) + k /\ Len(w) \in Nat
        /\ \A p \in Nat : p < Len(w) => y[p + 1] = w[p + 1]
        /\ \A p \in 1..k : y[Len(w) + p] = cs[p]
    BY <2>2, <2>3, <2>4, Zenon
  <2>6. vertexCounter(s) = Len(w) /\ vertexCounter(x) = Len(y)
    BY <2>1 DEF vertexCounter, y
  <2>7. /\ \A p : VertexAt(x, p) = IF p < Len(y) THEN y[p + 1] ELSE Gap
        /\ \A p : VertexAt(s, p) = IF p < Len(w) THEN w[p + 1] ELSE Gap
    BY <2>1 DEF VertexAt, y
  <2>8. ASSUME NEW p \in Nat, p < Len(w)  PROVE VertexAt(x, p) = VertexAt(s, p)
    <3>1. p < Len(y)
      BY <1>1, <2>5, <2>8
    <3> QED
      BY <2>5, <2>7, <2>8, <3>1
  <2>9. ASSUME NEW v \in 1..k  PROVE VertexAt(x, Len(w) + v - 1) = cs[v]
    <3>1. Len(w) + v - 1 < Len(y) /\ (Len(w) + v - 1) + 1 = Len(w) + v
      BY <1>1, <2>5
    <3> QED
      BY <2>5, <2>7, <3>1
  <2> QED
    BY <2>5, <2>6, <2>8, <2>9
<1>13. /\ off \in Nat /\ draw.count \in Nat /\ k \in {2, 3, 4} /\ vertexCounter(s) \in Nat
       /\ off % 4 = 0 /\ off + draw.count = vertexCounter(s) /\ draw.count % k = 0
       /\ vertexCounter(x) = vertexCounter(s) + k /\ k \in Nat
  BY <1>1, <1>2, <1>5
<1>6. \A i \in 1..(c - 1) : i \in 1..DrawCalls /\ i # c /\ i \in 1..c /\ x.batch.draws[i] = s.batch.draws[i]
  BY <1>0, <1>3
<1>7. \A i \in 1..c : vertexOffset(x, i) = vertexOffset(s, i)
  BY <1>0, <1>6, OffsetsFrame
<1>8. DrawnUpTo(x, c - 1) = DrawnUpTo(s, c - 1)
  <2>1. ASSUME NEW i \in 1..(c - 1), NEW p \in Nat, p < vertexOffset(s, i) + s.batch.draws[i].count
        PROVE  VertexAt(x, p) = VertexAt(s, p)
    <3>1. vertexOffset(s, i) \in Nat /\ s.batch.draws[i].count \in Nat
      BY <1>0, <1>6, OffsetsAre, BatchType
    <3>2. p < vertexCounter(s)
      BY SMTT(30), <1>1, <1>2, <1>6, <2>1, <3>1
    <3> QED
      BY <1>5, <3>2
  <2>2. \A i \in 1..((c - 1) - 1) : i \in 1..(c - 1)
    BY <1>0
  <2>3. Agree(x, s, c - 1)
    BY <1>6, <2>1, <2>2 DEF Agree
  <2> QED
    BY <1>0, <1>4, <2>3, DrawnFrame
<1>9. DrawnBy(x, c) = Append(DrawnBy(s, c), P) /\ P \in OnScreen
  <2> DEFINE first == IF draw.mode = "QUADS" THEN (off \div 4) * 4 ELSE off
             V(z, n) == [v \in 1..k |-> VertexAt(z, first + (n - 1) * k + v - 1)]
             Q(z, n) == Primitive(draw.mode, draw.texture, V(z, n), Setting(s))
             n1 == x.batch.draws[c].count \div k
  <2>1. first = off
    <3>1. off \in Nat /\ off % 4 = 0
      BY <1>1, <1>2
    <3>2. (off \div 4) * 4 = off
      BY <3>1
    <3> QED
      BY <3>2
  <2>2. /\ DrawnBy(s, c) = [n \in 1..m |-> Q(s, n)]
        /\ DrawnBy(x, c) = [n \in 1..n1 |-> Q(x, n)]
    BY <1>0, <1>1, <1>3, <1>4, <1>7 DEF DrawnBy, k, off, m
  <2>0. x.batch.draws[c].count = draw.count + k
    BY <1>3
  <2>3. m \in Nat /\ n1 = m + 1 /\ m * k = draw.count
    <3>1. CASE k = 2
      BY <1>13, <2>0, <3>1 DEF m
    <3>2. CASE k = 3
      BY <1>13, <2>0, <3>2 DEF m
    <3>3. CASE k = 4
      BY <1>13, <2>0, <3>3 DEF m
    <3> QED
      BY <1>1, <3>1, <3>2, <3>3
  <2>4. /\ DrawnBy(s, c) \in Seq(OnScreen) /\ DrawnBy(x, c) \in Seq(OnScreen)
        /\ Len(DrawnBy(s, c)) = m /\ Len(DrawnBy(x, c)) = m + 1
    BY <1>0, <1>1, <1>3, <2>3, PrimitivesType DEF k, m
  <2> HIDE DEF first, n1
  <2>5. ASSUME NEW n \in 1..m, NEW v \in 1..k
        PROVE  VertexAt(x, first + (n - 1) * k + v - 1) = VertexAt(s, first + (n - 1) * k + v - 1)
    <3> DEFINE p == first + (n - 1) * k + v - 1
    <3>1. p \in Nat /\ p < off + draw.count
      <4>1. CASE k = 2
        BY <1>1, <2>1, <2>3, <4>1
      <4>2. CASE k = 3
        BY <1>1, <2>1, <2>3, <4>2
      <4>3. CASE k = 4
        BY <1>1, <2>1, <2>3, <4>3
      <4> QED
        BY <1>1, <4>1, <4>2, <4>3
    <3> HIDE DEF p
    <3>2. p < vertexCounter(s)
      BY <1>2, <3>1
    <3>3. VertexAt(x, p) = VertexAt(s, p)
      BY <1>5, <3>1, <3>2
    <3> QED
      BY <3>3 DEF p
  <2>6. \A n \in 1..m : Q(x, n) = Q(s, n)
    BY <2>5
  <2>7. ASSUME NEW v \in 1..k
        PROVE  VertexAt(x, first + ((m + 1) - 1) * k + v - 1) = cs[v]
    <3>1. first + ((m + 1) - 1) * k + v - 1 = vertexCounter(s) + v - 1
      <4>1. ((m + 1) - 1) * k = draw.count
        BY <2>3
      <4> QED
        BY <1>1, <1>2, <2>1, <4>1
    <3> QED
      BY <1>5, <3>1
  <2>8. Q(x, m + 1) = P
    <3>1. V(x, m + 1) = cs
      BY <2>7
    <3> QED
      BY <3>1 DEF P
  <2> HIDE DEF Q, V
  <2>9. \A n \in 1..m : DrawnBy(x, c)[n] = DrawnBy(s, c)[n]
    <3>1. \A n \in 1..m : n \in 1..n1
      BY <2>3
    <3> QED
      BY <2>2, <2>6, <3>1
  <2>10. DrawnBy(x, c)[m + 1] = P
    <3>1. m + 1 \in 1..n1
      BY <2>3
    <3> QED
      BY <2>2, <2>8, <3>1
  <2> DEFINE a == DrawnBy(s, c)
             b == DrawnBy(x, c)
  <2> HIDE DEF a, b
  <2>11. b = Append(a, P) /\ P \in OnScreen
    BY <2>4, <2>9, <2>10, AppendIs DEF a, b
  <2> QED
    BY <2>11 DEF a, b
<1>10. Total(x) = Append(Total(s), P)
  <2> DEFINE u == DrawnUpTo(s, c - 1)
             a == DrawnBy(s, c)
  <2>1. u \in Seq(OnScreen) /\ a \in Seq(OnScreen) /\ s.drawn \in Seq(OnScreen)
    BY <1>0, DrawnAre, PrimitivesType, BatchType
  <2>2. Batched(s) = u \o a
    BY <1>0, DrawnAre DEF Batched
  <2>3. Batched(x) = u \o Append(a, P)
    <3>1. Batched(x) = DrawnUpTo(x, c - 1) \o DrawnBy(x, c)
      BY <1>0, <1>3, DrawnAre DEF Batched
    <3> QED
      BY <1>8, <1>9, <3>1, Zenon
  <2> HIDE DEF u, a
  <2>4. u \o a \in Seq(OnScreen) /\ u \o Append(a, P) = Append(u \o a, P)
    BY <1>9, <2>1, ConcatAppend, ConcatProperties
  <2> DEFINE z == u \o a
             w == s.drawn
  <2>5. w \o Append(z, P) = Append(w \o z, P)
    <3>1. z \in Seq(OnScreen) /\ w \in Seq(OnScreen)
      BY <2>1, <2>4
    <3> HIDE DEF z, w
    <3> QED
      BY <1>9, <3>1, ConcatAppend
  <2> QED
    BY <1>3, <2>2, <2>3, <2>4, <2>5, Zenon DEF Total
<1>11. Good(x, DrawCalls - 1)
  <2>1. DrawNow(x).count = draw.count + k /\ DrawNow(x).mode = draw.mode
    BY <1>3 DEF DrawNow
  <2>2. DrawNow(x).count % PerPrimitive(DrawNow(x).mode) = 0
    <3>1. (draw.count + k) % k = 0
      <4>1. CASE k = 2
        BY <1>13, <4>1
      <4>2. CASE k = 3
        BY <1>13, <4>2
      <4>3. CASE k = 4
        BY <1>13, <4>3
      <4> QED
        BY <1>1, <4>1, <4>2, <4>3
    <3>2. PerPrimitive(DrawNow(x).mode) = k
      BY <2>1 DEF k
    <3> QED
      BY <2>1, <3>1, <3>2
  <2>3. vertexCounter(x) <= Elements * 4
    BY SMTT(30), <1>0, <1>1, <1>5
  <2>4. vertexOffset(x, c) + DrawNow(x).count = vertexCounter(x)
    <3>1. vertexOffset(x, c) = off
      BY <1>0, <1>7 DEF off
    <3> QED
      BY <1>13, <2>1, <3>1
  <2>5. \A i \in 1..DrawCalls : i > c => x.batch.draws[i].count = 0
    <3> TAKE i \in 1..DrawCalls
    <3> HAVE i > c
    <3>1. i # c
      BY <1>0
    <3> QED
      BY <1>2, <1>3, <3>1
  <2>6. ASSUME NEW i \in 1..c
        PROVE  /\ vertexOffset(x, i) % 4 = 0
               /\ vertexOffset(x, i) + x.batch.draws[i].count <= vertexCounter(x)
    <3>1. CASE i = c
      <4>1. vertexOffset(x, i) = off
        BY <1>7, <3>1 DEF off
      <4>2. x.batch.draws[i].count = draw.count + k
        BY <1>3, <3>1
      <4> QED
        BY <1>13, <4>1, <4>2
    <3>2. CASE i # c
      <4>1. x.batch.draws[i].count = s.batch.draws[i].count /\ i \in 1..DrawCalls
        BY <1>0, <1>3, <3>2
      <4>2. vertexOffset(s, i) \in Nat /\ s.batch.draws[i].count \in Nat
        BY <1>0, <4>1, OffsetsAre, BatchType
      <4> QED
        <5>1. /\ vertexOffset(x, i) = vertexOffset(s, i) /\ vertexOffset(s, i) % 4 = 0
              /\ vertexOffset(s, i) + s.batch.draws[i].count <= vertexCounter(s)
          BY <1>2, <1>7
        <5> QED
          BY <1>13, <4>1, <4>2, <5>1
    <3> QED
      BY <3>1, <3>2
  <2> QED
    BY <1>0, <1>3, <2>2, <2>3, <2>4, <2>5, <2>6 DEF Good
<1>12. DrawNow(x).mode = draw.mode /\ DrawNow(x).texture = draw.texture
  BY <1>3 DEF DrawNow
<1> QED
  BY <1>1, <1>10, <1>11, <1>12 DEF P, k

\* What the vertices of a primitive look like, and the mode and texture it is drawn with.
SameInk(r, s) ==
    /\ r.color = s.color /\ r.normal = s.normal /\ r.currentTextureId = s.currentTextureId
    /\ DrawNow(r).mode = DrawNow(s).mode /\ DrawNow(r).texture = DrawNow(s).texture

\* The primitive that is drawn next, when its vertices are given one after the other.
NextPrimitive(s) ==
    Primitive(DrawNow(s).mode, DrawNow(s).texture,
              [v \in 1..PerPrimitive(DrawNow(s).mode) |-> Corner(s, v, v)], Setting(s))

LEMMA SameNextPrimitive ==
    ASSUME NEW r, NEW s, SameContext(r, s), SameInk(r, s)
    PROVE  NextPrimitive(r) = NextPrimitive(s)
<1>1. \A v : Corner(r, v, v) = Corner(s, v, v)
  BY DEF Corner, SameContext, SameInk
<1>2. Setting(r) = Setting(s)
  BY SameSetting
<1> QED
  BY <1>1, <1>2 DEF NextPrimitive, SameInk

LEMMA VerticesDrawn ==
    ASSUME NEW s, Good(s, DrawCalls - 1)
    PROVE  LET r == Vertices(s, PerPrimitive(DrawNow(s).mode)) IN
           /\ Good(r, DrawCalls - 1) /\ SameContext(r, s) /\ SameInk(r, s)
           /\ Total(r) = Append(Total(s), NextPrimitive(s))
<1> DEFINE k == PerPrimitive(DrawNow(s).mode)
<1>0. k \in {2, 3, 4} /\ k \in Nat
  BY PerPrimitiveType
<1>1. PICK after : /\ after[0] = s /\ Vertices(s, k) = after[k]
                   /\ \A i \in 1..k : after[i] = rlVertex3f(rlTexCoord2f(after[i - 1], i), i)
  <2> HIDE DEF k
  <2> QED
    BY <1>0, VerticesAre
<1>2. PICK room :
        /\ Good(room, DrawCalls - 1) /\ vertexCounter(room) <= Elements * 4 - 4
        /\ SameContext(room, s) /\ room.color = s.color /\ room.normal = s.normal
        /\ room.currentTextureId = s.currentTextureId /\ Total(room) = Total(s)
        /\ DrawNow(room).mode = DrawNow(s).mode /\ DrawNow(room).texture = DrawNow(s).texture
        /\ Filled(rlVertex3f(rlTexCoord2f(s, 1), 1), room, 1)
  BY FirstVertex
<1>3. PerPrimitive(DrawNow(room).mode) = k
  BY <1>2
<1> HIDE DEF k
<1> DEFINE S == {i \in 0..k : i = 0 \/ Filled(after[i], room, i)}
<1>4. 0 \in S
  BY <1>0
<1>5. ASSUME NEW i \in 0..(k - 1), i \in S  PROVE i + 1 \in S
  <2>1. /\ i + 1 \in 1..k /\ i + 1 \in 0..k /\ (i + 1) - 1 = i
        /\ after[i + 1] = rlVertex3f(rlTexCoord2f(after[i], i + 1), i + 1)
    <3>1. i + 1 \in 1..k /\ i + 1 \in 0..k /\ (i + 1) - 1 = i
      BY <1>0
    <3>2. after[i + 1] = rlVertex3f(rlTexCoord2f(after[(i + 1) - 1], i + 1), i + 1)
      BY <1>1, <3>1
    <3> QED
      BY <3>1, <3>2
  <2>2. CASE i = 0
    <3>1. after[1] = rlVertex3f(rlTexCoord2f(s, 1), 1) /\ i + 1 = 1
      BY <1>1, <2>1, <2>2
    <3> QED
      BY <1>2, <2>1, <3>1
  <2>3. CASE i # 0
    <3>1. i \in 1..3 /\ i < k /\ Filled(after[i], room, i)
      BY <1>0, <1>5, <2>3
    <3>2. Filled(rlVertex3f(rlTexCoord2f(after[i], i + 1), i + 1), room, i + 1)
      BY <1>2, <1>3, <3>1, NextVertex
    <3> QED
      BY <2>1, <3>2
  <2> QED
    BY <2>2, <2>3
<1>6. Filled(after[k], room, k)
  <2>1. 0..k \subseteq S
    <3> HIDE DEF S
    <3> QED
      BY <1>0, <1>4, <1>5, UpTo
  <2>2. k \in S /\ k # 0
    BY <1>0, <2>1
  <2> QED
    BY <2>2
<1> DEFINE r == after[k]
<1> HIDE DEF r
<1>7. /\ Good(r, DrawCalls - 1)
      /\ Total(r) = Append(Total(room), NextPrimitive(room))
      /\ DrawNow(r).mode = DrawNow(room).mode /\ DrawNow(r).texture = DrawNow(room).texture
  BY <1>2, <1>3, <1>6, FilledIsDrawn DEF NextPrimitive, r
<1>8. /\ SameContext(r, room) /\ r.color = room.color /\ r.normal = room.normal
      /\ r.currentTextureId = room.currentTextureId
  BY <1>6 DEF Filled, r
<1>9. SameInk(room, s) /\ SameInk(r, s)
  BY <1>2, <1>7, <1>8 DEF SameInk
<1>10. SameContext(r, s)
  BY <1>2, <1>8 DEF SameContext
<1>11. NextPrimitive(room) = NextPrimitive(s)
  BY <1>2, <1>9, SameNextPrimitive
<1>12. Total(r) = Append(Total(s), NextPrimitive(s))
  BY <1>2, <1>7, <1>11, Zenon
<1> QED
  BY <1>1, <1>7, <1>9, <1>10, <1>12 DEF r, k

\* A primitive that is written in the mode of its draw is something the screen can show.
LEMMA NextPrimitiveType ==
    ASSUME NEW s \in GLType
    PROVE  NextPrimitive(s) \in OnScreen
<1> DEFINE k == PerPrimitive(DrawNow(s).mode)
           cs == [v \in 1..k |-> Corner(s, v, v)]
<1>1. k \in Nat
  BY PerPrimitiveType
<1>2. DrawNow(s).mode \in Modes /\ DrawNow(s).texture \in TextureIds /\ Setting(s) \in Settings
  BY BatchType, SettingType DEF DrawNow
<1>3. cs \in Seq(Vertex \cup {Gap} \cup Words)
  <2>1. \A v \in 1..k : Corner(s, v, v) \in Vertex
    BY <1>1, CornerType
  <2> HIDE DEF k, Vertex
  <2> QED
    BY <1>1, <2>1
<1> HIDE DEF cs
<1> QED
  BY <1>2, <1>3 DEF NextPrimitive, Primitive, OnScreen, cs, k

\* So many of the same, as they are appended.
Repeated(e, j) == [i \in 1..j |-> e]

LEMMA AppendSame ==
    ASSUME NEW D, NEW w \in Seq(D), NEW e \in D, NEW j \in Nat
    PROVE  Append(w \o Repeated(e, j), e) = w \o Repeated(e, j + 1)
<1> DEFINE a == [i \in 1..j |-> e]
           b == [i \in 1..(j + 1) |-> e]
<1>1. a \in Seq(D) /\ b \in Seq(D) /\ Len(b) = Len(a) + 1 /\ b[Len(a) + 1] = e
  OBVIOUS
<1>2. \A i \in 1..Len(a) : b[i] = a[i]
  OBVIOUS
<1> HIDE DEF a, b
<1>3. b = Append(a, e)
  BY <1>1, <1>2, AppendIs
<1>4. w \o Append(a, e) = Append(w \o a, e)
  BY <1>1, ConcatAppend
<1> QED
  BY <1>3, <1>4 DEF a, b, Repeated

LEMMA PrimitivesDrawn ==
    ASSUME NEW s, Good(s, DrawCalls - 1), NEW count \in Nat
    PROVE  LET r == Primitives(s, PerPrimitive(DrawNow(s).mode), count) IN
           /\ Good(r, DrawCalls - 1) /\ SameContext(r, s) /\ SameInk(r, s)
           /\ Total(r) = Total(s) \o Repeated(NextPrimitive(s), count)
<1> DEFINE mode == DrawNow(s).mode
           k == PerPrimitive(mode)
           X == {x \in GLType : Good(x, DrawCalls - 1) /\ DrawNow(x).mode = mode}
           F == [i \in 1..count |-> [x \in X |-> Vertices(x, k)]]
           Is(g) == g = [i \in 0..count |-> IF i = 0 THEN s ELSE Vertices(g[i - 1], k)]
           f == CHOOSE g : Is(g)
           P == NextPrimitive(s)
<1>0. s \in GLType
  BY DEF Good
<1>1. s \in X
  BY <1>0
<1>2. ASSUME NEW x \in X  PROVE Vertices(x, k) \in X
  <2>1. Good(Vertices(x, k), DrawCalls - 1) /\ SameInk(Vertices(x, k), x)
    BY VerticesDrawn
  <2> QED
    BY <2>1 DEF Good, SameInk
<1>3. PICK g : Is(g)
  <2>1. F \in [1..count -> [X -> X]]
    BY <1>2
  <2>2. PICK g : Solves(g, count, X, s, F)
    <3> HIDE DEF F, X
    <3> QED
      BY <1>1, <2>1, RecursionExists
  <2>3. g = [i \in 0..count |-> g[i]]
    BY <2>2 DEF Solves
  <2>4. ASSUME NEW i \in 0..count  PROVE g[i] = IF i = 0 THEN s ELSE Vertices(g[i - 1], k)
    <3>1. g[i] = IF i = 0 THEN s ELSE F[i][g[i - 1]]
      <4> HIDE DEF F, X
      <4> QED
        BY <2>2 DEF Solves
    <3>2. CASE i = 0
      BY <3>1, <3>2
    <3>3. CASE i # 0
      <4>1. i \in 1..count /\ i - 1 \in 0..count
        BY <3>3
      <4>2. g[i - 1] \in X
        <5> HIDE DEF F, X
        <5> QED
          BY <2>2, <4>1 DEF Solves
      <4>3. F[i][g[i - 1]] = Vertices(g[i - 1], k)
        <5> DEFINE y == g[i - 1]
        <5>1. F[i] = [x \in X |-> Vertices(x, k)]
          BY <4>1
        <5> HIDE DEF F, X, y
        <5>2. F[i][y] = Vertices(y, k)
          BY <4>2, <5>1 DEF y
        <5> QED
          BY <5>2 DEF y
      <4> QED
        BY <3>1, <3>3, <4>3, Zenon
    <3> QED
      BY <3>2, <3>3
  <2> QED
    BY <2>3, <2>4, Zenon
<1>4. Is(f)
  BY <1>3
<1>5. Primitives(s, k, count) = f[count]
  BY DEF Primitives
<1> HIDE DEF f
<1> DEFINE Drawn(x, i) == /\ Good(x, DrawCalls - 1) /\ SameContext(x, s) /\ SameInk(x, s)
                          /\ Total(x) = Total(s) \o Repeated(P, i)
           S == {i \in 0..count : Drawn(f[i], i)}
<1>6. 0 \in S
  <2>1. f[0] = s
    BY <1>4
  <2>2. SameContext(s, s) /\ SameInk(s, s)
    BY DEF SameContext, SameInk
  <2>3. Total(s) = Total(s) \o Repeated(P, 0)
    <3>1. Repeated(P, 0) = <<>>
      BY DEF Repeated
    <3> QED
      BY <1>0, <3>1, TotalType, ConcatEmptySeq
  <2>4. 0 \in 0..count
    OBVIOUS
  <2> HIDE DEF P
  <2> QED
    BY <2>1, <2>2, <2>3, <2>4
<1>7. ASSUME NEW i \in 0..(count - 1), i \in S  PROVE i + 1 \in S
  <2>1. i + 1 \in 0..count /\ i + 1 # 0 /\ (i + 1) - 1 = i /\ i \in Nat
    OBVIOUS
  <2> DEFINE x == f[i]
             y == f[i + 1]
  <2>2. y = Vertices(x, k)
    BY <1>4, <2>1, Zenon
  <2>3. Drawn(x, i)
    BY <1>7
  <2> HIDE DEF x, y
  <2>4. PerPrimitive(DrawNow(x).mode) = k
    BY <2>3 DEF SameInk
  <2>5. /\ Good(y, DrawCalls - 1) /\ SameContext(y, x) /\ SameInk(y, x)
        /\ Total(y) = Append(Total(x), NextPrimitive(x))
    BY <2>2, <2>3, <2>4, VerticesDrawn
  <2>6. NextPrimitive(x) = P
    BY <2>3, SameNextPrimitive
  <2>7. Append(Total(s) \o Repeated(P, i), P) = Total(s) \o Repeated(P, i + 1)
    <3>1. P \in OnScreen /\ Total(s) \in Seq(OnScreen)
      BY <1>0, NextPrimitiveType, TotalType
    <3> DEFINE D == OnScreen
               w == Total(s)
    <3>2. P \in D /\ w \in Seq(D)
      BY <3>1
    <3> HIDE DEF P, D, w
    <3>3. Append(w \o Repeated(P, i), P) = w \o Repeated(P, i + 1)
      BY <2>1, <3>2, AppendSame
    <3> QED
      BY <3>3 DEF w
  <2>8. Total(y) = Total(s) \o Repeated(P, i + 1)
    BY <2>3, <2>5, <2>6, <2>7, Zenon
  <2>9. SameContext(y, s)
    BY <2>3, <2>5 DEF SameContext
  <2>10. SameInk(y, s)
    BY <2>3, <2>5 DEF SameInk
  <2>11. Drawn(y, i + 1)
    BY <2>5, <2>8, <2>9, <2>10
  <2> QED
    BY <2>1, <2>11 DEF y
<1>8. Drawn(f[count], count)
  <2>1. 0..count \subseteq S
    <3> HIDE DEF S
    <3> QED
      BY <1>6, <1>7, UpTo
  <2>2. count \in S
    BY <2>1
  <2> QED
    BY <2>2
<1> QED
  BY <1>5, <1>8
-----------------------------------------------------------------------------
(* What the drawing functions draw. *)

\* Between two calls of the program.
Rest(s) ==
    /\ Good(s, DrawCalls - 1) /\ s.currentTextureId = Default
    /\ DrawNow(s).mode # "QUADS" => DrawNow(s).texture = Default

LEMMA ColorIs ==
    ASSUME NEW s, NEW n, Good(s, n), NEW color \in Names
    PROVE  LET r == rlColor4ub(s, color) IN
           /\ Good(r, n) /\ SameContext(r, s) /\ Total(r) = Total(s) /\ DrawNow(r) = DrawNow(s)
           /\ r.color = color /\ r.normal = s.normal /\ r.currentTextureId = s.currentTextureId
<1> DEFINE r == rlColor4ub(s, color)
<1>1. s \in GLType /\ r = [s EXCEPT !.color = color]
  BY DEF Good, rlColor4ub
<1> HIDE DEF r
<1>2. /\ r \in GLType /\ r.batch = s.batch /\ r.drawn = s.drawn /\ r.overrun = s.overrun
      /\ r.currentTextureId = s.currentTextureId /\ r.color = color /\ r.normal = s.normal
  BY <1>1 DEF GLType
<1>3. SameContext(r, s)
  BY <1>1 DEF SameContext, GLType
<1>4. Good(r, n) /\ Total(r) = Total(s) /\ DrawNow(r) = DrawNow(s)
  BY <1>2, <1>3, SameSetting, Untouched
<1> QED
  BY <1>2, <1>3, <1>4 DEF r

LEMMA NormalIs ==
    ASSUME NEW s, NEW n, Good(s, n)
    PROVE  LET r == rlNormal3f(s) IN
           /\ Good(r, n) /\ SameContext(r, s) /\ Total(r) = Total(s) /\ DrawNow(r) = DrawNow(s)
           /\ r.color = s.color /\ r.currentTextureId = s.currentTextureId
           /\ r.normal = IF s.transformRequired THEN s.matrix.transform ELSE Identity
<1> DEFINE r == rlNormal3f(s)
           normal == IF s.transformRequired THEN s.matrix.transform ELSE Identity
<1>1. s \in GLType /\ r = [s EXCEPT !.normal = normal]
  BY DEF Good, rlNormal3f
<1>2. normal \in Words
  <2>1. s.matrix \in [projection : Words, modelview : Words, transform : Words]
    BY <1>1 DEF GLType
  <2>2. <<>> \in Words
    BY DEF Words
  <2> QED
    BY <2>1, <2>2 DEF Identity
<1> HIDE DEF r, normal
<1>3. /\ r \in GLType /\ r.batch = s.batch /\ r.drawn = s.drawn /\ r.overrun = s.overrun
      /\ r.currentTextureId = s.currentTextureId /\ r.normal = normal /\ r.color = s.color
  BY <1>1, <1>2 DEF GLType
<1>4. SameContext(r, s)
  BY <1>1 DEF SameContext, GLType
<1>5. Good(r, n) /\ Total(r) = Total(s) /\ DrawNow(r) = DrawNow(s)
  BY <1>3, <1>4, SameSetting, Untouched
<1> QED
  BY <1>3, <1>4, <1>5 DEF r, normal

LEMMA TextureDefaultIs ==
    ASSUME NEW s, Good(s, DrawCalls - 1)
    PROVE  LET r == rlSetTextureDefault(s) IN
           /\ Good(r, DrawCalls - 1) /\ SameContext(r, s) /\ Total(r) = Total(s)
           /\ r.currentTextureId = Default
           /\ DrawNow(r).mode \in {DrawNow(s).mode, "QUADS"}
<1> DEFINE x == rlDrawRenderBatch(s)
           y == IF Full(s, 0) THEN x ELSE s
           r == [y EXCEPT !.currentTextureId = Default]
<1>0. s \in GLType /\ ~s.overrun /\ DrawCalls \in Nat /\ 1 <= DrawCalls - 1 /\ Default \in TextureIds
  BY BatchAssumption DEF Good, TextureIds
<1>1. /\ Good(x, 1) /\ x.batch.drawCounter = 1 /\ SameContext(x, s) /\ Total(x) = Total(s)
      /\ DrawNow(x).mode = "QUADS"
  BY <1>0, Rendered, RenderedIsGood
<1>2. SameContext(s, s)
  BY DEF SameContext
<1> HIDE DEF x
<1>3. Good(x, DrawCalls - 1)
  BY <1>0, <1>1 DEF Good
<1>4. /\ Good(y, DrawCalls - 1) /\ SameContext(y, s) /\ Total(y) = Total(s)
      /\ DrawNow(y).mode \in {DrawNow(s).mode, "QUADS"}
  BY <1>1, <1>2, <1>3
<1>5. rlSetTextureDefault(s) = r
  BY DEF rlSetTextureDefault, x
<1> HIDE DEF y
<1>6. /\ Good(r, DrawCalls - 1) /\ SameContext(r, y) /\ Total(r) = Total(y)
      /\ r.currentTextureId = Default /\ DrawNow(r) = DrawNow(y)
  BY <1>0, <1>4, TextureNamed
<1> HIDE DEF r
<1>7. SameContext(r, s)
  BY <1>4, <1>6 DEF SameContext
<1> QED
  BY <1>4, <1>5, <1>6, <1>7

\* A shape is drawn with its texture, its colour and no transform.
LEMMA QuadsDrawn ==
    ASSUME NEW s, Rest(s), s.matrix.transform = Identity, NEW texture \in TextureIds,
           NEW quads \in Nat
    PROVE  LET r == DrawQuads(s, texture, quads) IN
           /\ Rest(r) /\ SameContext(r, s)
           /\ Total(r) = Total(s) \o Repeated(Primitive("QUADS", texture,
                                                Asked(s, 4, Identity, Identity), Setting(s)), quads)
<1> DEFINE a == rlSetTexture(s, texture)
           b == rlBegin(a, "QUADS")
           n == rlNormal3f(b)
           p == Primitives(n, 4, quads)
           r == rlSetTextureDefault(p)
           P == Primitive("QUADS", texture, Asked(s, 4, Identity, Identity), Setting(s))
<1>0. Good(s, DrawCalls - 1) /\ "QUADS" \in Modes
  BY DEF Rest, Modes
<1>1. /\ Good(a, DrawCalls - 1) /\ SameContext(a, s) /\ a.color = s.color /\ Total(a) = Total(s)
      /\ a.currentTextureId = texture /\ DrawNow(a).texture = texture
  BY <1>0, SetTextureIs DEF SameStyle
<1> HIDE DEF a
<1>2. /\ Good(b, DrawCalls - 1) /\ SameContext(b, a) /\ b.color = a.color /\ Total(b) = Total(a)
      /\ DrawNow(b).mode = "QUADS" /\ DrawNow(b).texture = texture
  BY <1>0, <1>1, BeginIs DEF SameStyle
<1> HIDE DEF b
<1>3. /\ Good(n, DrawCalls - 1) /\ SameContext(n, b) /\ Total(n) = Total(b)
      /\ DrawNow(n) = DrawNow(b) /\ n.color = b.color
      /\ n.normal = IF b.transformRequired THEN b.matrix.transform ELSE Identity
  BY <1>2, NormalIs
<1> HIDE DEF n
<1>4. SameContext(n, s)
  BY <1>1, <1>2, <1>3 DEF SameContext
<1>5. PerPrimitive(DrawNow(n).mode) = 4
  BY <1>2, <1>3 DEF PerPrimitive
<1>6. NextPrimitive(n) = P
  <2>1. n.normal = Identity /\ n.color = s.color
    BY <1>1, <1>2, <1>3, <1>4 DEF SameContext
  <2>2. n.matrix.transform = Identity
    BY <1>4 DEF SameContext
  <2>3. \A v \in 1..4 : Corner(n, v, v) = [at |-> v, transform |-> Identity, color |-> s.color,
                                           texcoord |-> v, normal |-> Identity]
    BY <2>1, <2>2 DEF Corner
  <2>4. [v \in 1..4 |-> Corner(n, v, v)] = Asked(s, 4, Identity, Identity)
    BY <2>3 DEF Asked
  <2>5. Setting(n) = Setting(s)
    BY <1>4, SameSetting
  <2> QED
    BY <1>2, <1>3, <1>5, <2>4, <2>5 DEF NextPrimitive
<1> HIDE DEF P
<1>7. /\ Good(p, DrawCalls - 1) /\ SameContext(p, n) /\ SameInk(p, n)
      /\ Total(p) = Total(n) \o Repeated(P, quads)
  BY <1>3, <1>5, <1>6, PrimitivesDrawn
<1> HIDE DEF p
<1>8. /\ Good(r, DrawCalls - 1) /\ SameContext(r, p) /\ Total(r) = Total(p)
      /\ r.currentTextureId = Default /\ DrawNow(r).mode \in {DrawNow(p).mode, "QUADS"}
  BY <1>7, TextureDefaultIs
<1> HIDE DEF r
<1>9. DrawNow(r).mode = "QUADS"
  BY <1>2, <1>3, <1>7, <1>8 DEF SameInk
<1>10. SameContext(r, s)
  BY <1>4, <1>7, <1>8 DEF SameContext
<1>11. Total(r) = Total(s) \o Repeated(P, quads)
  BY <1>1, <1>2, <1>3, <1>7, <1>8, Zenon
<1>12. Rest(r)
  BY <1>8, <1>9 DEF Rest
<1> QED
  BY <1>10, <1>11, <1>12 DEF DrawQuads, r, p, n, b, a, P

\* A line is drawn without a texture, after whatever was drawn before.
LEMMA LineDrawn ==
    ASSUME NEW s, Rest(s), s.matrix.transform = Identity
    PROVE  LET r == DrawLine3D(s)
               given == [i \in 1..2 |-> [at |-> i, transform |-> Identity, color |-> s.color,
                                         texcoord |-> i, normal |-> s.normal]]
           IN  /\ Rest(r) /\ SameContext(r, s)
               /\ Total(r) = Append(Total(s), Primitive("LINES", Default, given, Setting(s)))
<1> DEFINE b == rlBegin(s, "LINES")
           r == Vertices(b, 2)
           given == [i \in 1..2 |-> [at |-> i, transform |-> Identity, color |-> s.color,
                                     texcoord |-> i, normal |-> s.normal]]
           P == Primitive("LINES", Default, given, Setting(s))
<1>0. /\ Good(s, DrawCalls - 1) /\ "LINES" \in Modes /\ s.currentTextureId = Default
      /\ DrawNow(s).mode # "QUADS" => DrawNow(s).texture = Default
  BY DEF Rest, Modes
<1>1. /\ Good(b, DrawCalls - 1) /\ SameContext(b, s) /\ SameStyle(b, s) /\ Total(b) = Total(s)
      /\ DrawNow(b).mode = "LINES" /\ DrawNow(b).texture = Default /\ b.currentTextureId = Default
  BY <1>0, BeginIs
<1> HIDE DEF b
<1>2. PerPrimitive(DrawNow(b).mode) = 2
  BY <1>1 DEF PerPrimitive
<1>3. /\ Good(r, DrawCalls - 1) /\ SameContext(r, b) /\ SameInk(r, b)
      /\ Total(r) = Append(Total(b), NextPrimitive(b))
  BY <1>1, <1>2, VerticesDrawn
<1> HIDE DEF r
<1>4. NextPrimitive(b) = P
  <2>1. b.normal = s.normal /\ b.color = s.color /\ b.matrix.transform = Identity
    BY <1>1 DEF SameContext, SameStyle
  <2>2. \A v \in 1..2 : Corner(b, v, v) = [at |-> v, transform |-> Identity, color |-> s.color,
                                           texcoord |-> v, normal |-> s.normal]
    BY <2>1 DEF Corner
  <2>3. [v \in 1..2 |-> Corner(b, v, v)] = given
    BY <2>2
  <2>4. Setting(b) = Setting(s)
    BY <1>1, SameSetting
  <2> QED
    BY <1>1, <1>2, <2>3, <2>4 DEF NextPrimitive
<1>5. Total(r) = Append(Total(s), P)
  BY <1>1, <1>3, <1>4, Zenon
<1>6. SameContext(r, s)
  BY <1>1, <1>3 DEF SameContext
<1>7. Rest(r)
  BY <1>1, <1>3 DEF Rest, SameInk
<1> QED
  BY <1>5, <1>6, <1>7 DEF DrawLine3D, r, b

\* After the batch is drawn the device may be used at once, or set differently.
LEMMA Turned ==
    ASSUME NEW s, Good(s, DrawCalls - 1), s.currentTextureId = Default,
           NEW r \in GLType, r.batch = rlDrawRenderBatch(s).batch,
           r.currentTextureId = rlDrawRenderBatch(s).currentTextureId,
           r.overrun = rlDrawRenderBatch(s).overrun
    PROVE  Rest(r) /\ Total(r) = r.drawn
<1> DEFINE x == rlDrawRenderBatch(s)
<1>0. s \in GLType /\ ~s.overrun /\ DrawCalls \in Nat /\ 1 <= DrawCalls - 1 /\ 1 \in 1..DrawCalls
  BY BatchAssumption DEF Good
<1>1. /\ x.overrun = s.overrun /\ x.batch.drawCounter = 1 /\ x.batch.vertices = <<>>
      /\ x.currentTextureId = s.currentTextureId
      /\ \A i \in 1..DrawCalls : x.batch.draws[i].count = 0 /\ x.batch.draws[i].mode = "QUADS"
  BY <1>0, Rendered DEF SamePen
<1> HIDE DEF x
<1>2. /\ ~r.overrun /\ r.batch.drawCounter = 1 /\ r.batch.vertices = <<>>
      /\ \A i \in 1..DrawCalls : r.batch.draws[i].count = 0 /\ r.batch.draws[i].mode = "QUADS"
      /\ r.currentTextureId = Default
  BY <1>0, <1>1 DEF x
<1>3. Good(r, 1) /\ Total(r) = r.drawn
  BY <1>2, BlankIsGood
<1>4. Good(r, DrawCalls - 1)
  BY <1>0, <1>2, <1>3 DEF Good
<1>5. DrawNow(r).mode = "QUADS"
  BY <1>0, <1>2 DEF DrawNow
<1> QED
  BY <1>2, <1>3, <1>4, <1>5 DEF Rest

LEMMA OneOf ==
    ASSUME NEW D, NEW e \in D
    PROVE  <<e>> \in Seq(D)
<1>1. <<>> \in Seq(D) /\ Append(<<>>, e) = <<e>>
  OBVIOUS
<1>2. Append(<<>>, e) \in Seq(D)
  BY <1>1, AppendProperties
<1> QED
  BY <1>1, <1>2

\* What a mesh is drawn with.
OfMaterial(c, culling) == [[c EXCEPT !.shader = "material"] EXCEPT !.culling = culling]

LEMMA OfMaterialIs ==
    ASSUME NEW c \in Settings, NEW culling \in BOOLEAN
    PROVE  /\ OfMaterial(c, culling) \in Settings
           /\ OfMaterial(c, culling) = [[c EXCEPT !.culling = culling] EXCEPT !.shader = "material"]
<1> DEFINE a == [c EXCEPT !.shader = "material"]
           b == [c EXCEPT !.culling = culling]
<1>1. a \in Settings
  <2>1. \A m \in Names : [c EXCEPT !.shader = m] \in Settings
    BY DEF Settings
  <2>2. "material" \in Names
    BY DEF Names
  <2> QED
    BY <2>1, <2>2
<1>2. b \in Settings
  BY DEF Settings
<1>3. /\ a.shader = "material" /\ a.projection = c.projection /\ a.modelview = c.modelview
      /\ a.blend = c.blend /\ a.framebuffer = c.framebuffer /\ a.viewport = c.viewport
      /\ a.scissor = c.scissor /\ a.depthTest = c.depthTest /\ a.culling = c.culling
  BY DEF Settings
<1>4. /\ b.shader = c.shader /\ b.projection = c.projection /\ b.modelview = c.modelview
      /\ b.blend = c.blend /\ b.framebuffer = c.framebuffer /\ b.viewport = c.viewport
      /\ b.scissor = c.scissor /\ b.depthTest = c.depthTest /\ b.culling = culling
  BY DEF Settings
<1> DEFINE r == [shader |-> "material", projection |-> c.projection, modelview |-> c.modelview,
                 blend |-> c.blend, framebuffer |-> c.framebuffer, viewport |-> c.viewport,
                 scissor |-> c.scissor, depthTest |-> c.depthTest, culling |-> culling]
<1> HIDE DEF a, b
<1>5. [a EXCEPT !.culling = culling] \in Settings /\ [a EXCEPT !.culling = culling] = r
  BY <1>1, <1>3 DEF Settings
<1>6. [b EXCEPT !.shader = "material"] = r
  BY <1>2, <1>4 DEF Settings
<1> QED
  BY <1>5, <1>6 DEF OfMaterial, a, b

\* Meshes and the clearing of the screen come after what was drawn before them.
LEMMA MeshDrawn ==
    ASSUME NEW s, Rest(s), s.culling = TRUE, s.matrix.transform = Identity, NEW culling \in BOOLEAN
    PROVE  LET r == DrawMeshes(s, culling)
               P == Primitive("MESH", "material", << <<"mesh">> >>,
                              [Setting(s) EXCEPT !.shader = "material", !.culling = culling])
           IN  Rest(r) /\ SameContext(r, s) /\ Total(r) = Append(Total(s), P) /\ P \in OnScreen
<1> DEFINE x == rlDrawRenderBatch(s)
           y == [x EXCEPT !.culling = culling]
           z == DrawMesh(y)
           r == [z EXCEPT !.culling = TRUE]
           P == Primitive("MESH", "material", << <<"mesh">> >>,
                          [Setting(s) EXCEPT !.shader = "material", !.culling = culling])
<1>0. /\ Good(s, DrawCalls - 1) /\ s.currentTextureId = Default /\ s \in GLType /\ ~s.overrun
      /\ Total(s) \in Seq(OnScreen)
  BY TotalType DEF Rest, Good
<1>1. /\ x \in GLType /\ SameContext(x, s) /\ x.drawn = Total(s)
  BY <1>0, Rendered
<1> HIDE DEF x
<1>2. P \in OnScreen
  <2>1. Setting(s) \in Settings
    BY <1>0, SettingType
  <2>2. [Setting(s) EXCEPT !.shader = "material", !.culling = culling] \in Settings
    BY <2>1, OfMaterialIs DEF OfMaterial
  <2>3. << <<"mesh">> >> \in Seq(Vertex \cup {Gap} \cup Words)
    <3>1. <<"mesh">> \in Words
      <4>1. \A m \in Names : <<m>> \in Seq(Names)
        BY OneOf
      <4>2. "mesh" \in Names
        BY DEF Names
      <4> QED
        BY <4>1, <4>2 DEF Words
    <3>2. <<"mesh">> \in Vertex \cup {Gap} \cup Words
      BY <3>1
    <3> HIDE DEF Words, Vertex
    <3> QED
      BY <3>2, OneOf
  <2> QED
    BY <2>2, <2>3 DEF OnScreen, Primitive
<1>3. z = [y EXCEPT !.drawn = Append(x.drawn, P)]
  <2>1. /\ y.matrix = s.matrix /\ y.shader = s.shader /\ y.blend = s.blend
        /\ y.usedFactors = s.usedFactors /\ y.framebuffer = s.framebuffer
        /\ y.viewport = s.viewport /\ y.scissor = s.scissor /\ y.depthTest = s.depthTest
        /\ y.culling = culling /\ y.drawn = x.drawn
    BY <1>1 DEF SameContext, GLType
  <2>2. <<"mesh">> \o y.matrix.transform = <<"mesh">>
    <3>1. y.matrix.transform = <<>>
      BY <2>1 DEF Identity
    <3>2. <<"mesh">> \in Seq(Names)
      <4>1. \A m \in Names : <<m>> \in Seq(Names)
        BY OneOf
      <4>2. "mesh" \in Names
        BY DEF Names
      <4> QED
        BY <4>1, <4>2
    <3>3. <<"mesh">> \o <<>> = <<"mesh">>
      BY <3>2, ConcatEmptySeq
    <3> QED
      BY <3>1, <3>3
  <2>3. [Setting(y) EXCEPT !.shader = "material"]
          = [Setting(s) EXCEPT !.shader = "material", !.culling = culling]
    <3>1. Setting(s) \in Settings
      BY <1>0, SettingType
    <3>2. Setting(y) = [Setting(s) EXCEPT !.culling = culling]
      <4> HIDE DEF y
      <4> QED
        BY <2>1 DEF Setting
    <3>3. OfMaterial(Setting(s), culling)
            = [[Setting(s) EXCEPT !.culling = culling] EXCEPT !.shader = "material"]
      BY <3>1, OfMaterialIs
    <3> QED
      BY <3>2, <3>3, Zenon DEF OfMaterial
  <2> HIDE DEF y
  <2>4. Primitive("MESH", "material", << <<"mesh">> \o y.matrix.transform >>,
                  [Setting(y) EXCEPT !.shader = "material"]) = P
    BY <2>2, <2>3, Zenon
  <2> HIDE DEF P
  <2> QED
    BY <2>1, <2>4 DEF DrawMesh
<1> HIDE DEF P
<1>4. Append(x.drawn, P) \in Seq(OnScreen)
  BY <1>0, <1>1, <1>2, AppendProperties
<1>5. r = [x EXCEPT !.drawn = Append(x.drawn, P), !.culling = TRUE]
  BY <1>1, <1>3 DEF GLType
<1> HIDE DEF r, z, y
<1>6. /\ r \in GLType /\ r.batch = x.batch /\ r.currentTextureId = x.currentTextureId
      /\ r.overrun = x.overrun /\ r.drawn = Append(x.drawn, P)
  BY <1>1, <1>4, <1>5 DEF GLType
<1>7. SameContext(r, s)
  <2>1. /\ r.shader = x.shader /\ r.matrixMode = x.matrixMode /\ r.current = x.current
        /\ r.transformRequired = x.transformRequired /\ r.matrix = x.matrix /\ r.stack = x.stack
        /\ r.blend = x.blend /\ r.factors = x.factors /\ r.factorsModified = x.factorsModified
        /\ r.usedFactors = x.usedFactors /\ r.framebuffer = x.framebuffer /\ r.viewport = x.viewport
        /\ r.scissor = x.scissor /\ r.depthTest = x.depthTest /\ r.culling = TRUE
    BY <1>1, <1>5 DEF GLType
  <2> QED
    BY <1>1, <2>1 DEF SameContext
<1>8. Rest(r) /\ Total(r) = r.drawn
  BY <1>0, <1>6, Turned DEF x
<1> QED
  BY <1>1, <1>2, <1>6, <1>7, <1>8 DEF DrawMeshes, r, z, y, x, P

LEMMA ClearDrawn ==
    ASSUME NEW s, Rest(s)
    PROVE  LET r == ClearBackground(s)
               P == [clear |-> s.framebuffer, scissor |-> s.scissor]
           IN  Rest(r) /\ SameContext(r, s) /\ Total(r) = Append(Total(s), P) /\ P \in OnScreen
<1> DEFINE x == rlDrawRenderBatch(s)
           P == [clear |-> s.framebuffer, scissor |-> s.scissor]
           r == [x EXCEPT !.drawn = Append(x.drawn, P)]
<1>0. /\ Good(s, DrawCalls - 1) /\ s.currentTextureId = Default /\ s \in GLType
      /\ Total(s) \in Seq(OnScreen)
  BY TotalType DEF Rest, Good
<1>1. x \in GLType /\ SameContext(x, s) /\ x.drawn = Total(s)
  BY <1>0, Rendered
<1>2. P \in OnScreen
  BY <1>0 DEF GLType, OnScreen
<1>3. ClearBackground(s) = r
  BY DEF ClearBackground
<1> HIDE DEF x, P
<1>4. Append(x.drawn, P) \in Seq(OnScreen)
  BY <1>0, <1>1, <1>2, AppendProperties
<1>5. /\ r \in GLType /\ r.batch = x.batch /\ r.currentTextureId = x.currentTextureId
      /\ r.overrun = x.overrun /\ r.drawn = Append(x.drawn, P)
  BY <1>1, <1>4 DEF GLType
<1>6. SameContext(r, s)
  BY <1>1 DEF SameContext, GLType
<1> HIDE DEF r
<1>7. Rest(r) /\ Total(r) = r.drawn
  BY <1>0, <1>5, Turned DEF x
<1> QED
  BY <1>1, <1>2, <1>3, <1>5, <1>6, <1>7 DEF P
-----------------------------------------------------------------------------
(* What was sent and what is shown. *)

\* A sequence goes on as it began, and what is compared first is all of the shorter one.
LEMMA PrefixIs ==
    ASSUME NEW D, NEW a \in Seq(D), NEW b \in Seq(D)
    PROVE  /\ SubSeq(a \o b, 1, Len(a)) = a
           /\ SubSeq(a \o b, Len(a) + 1, Len(a \o b)) = b
           /\ Len(a) <= Len(a \o b) /\ \A i \in 1..Len(a) : (a \o b)[i] = a[i]
<1>1. /\ a \o b \in Seq(D) /\ Len(a \o b) = Len(a) + Len(b) /\ Len(a) \in Nat /\ Len(b) \in Nat
      /\ \A i \in 1..(Len(a) + Len(b)) : (a \o b)[i] = IF i <= Len(a) THEN a[i] ELSE b[i - Len(a)]
  BY ConcatProperties, LenProperties
<1> DEFINE u == a \o b
           n == Len(a)
           l == Len(b)
<1>2. u \in Seq(D) /\ Len(u) = n + l /\ n \in Nat /\ l \in Nat
  BY <1>1
<1>3. \A i \in 1..n : u[i] = a[i]
  BY <1>1
<1>4. \A i \in 1..l : u[n + i] = b[i]
  <2> TAKE i \in 1..l
  <2>1. n + i \in 1..(n + l) /\ ~(n + i <= n) /\ (n + i) - n = i
    BY <1>2
  <2> QED
    BY <1>1, <2>1
<1>5. Len(a) = n /\ Len(b) = l
  OBVIOUS
<1> HIDE DEF u, n, l
<1>6. SubSeq(u, 1, n) = a
  <2>1. \A i \in 1..n : u[i] \in D
    BY <1>2, ElementOfSeq
  <2>2. /\ SubSeq(u, 1, n) \in Seq(D) /\ Len(SubSeq(u, 1, n)) = n
        /\ \A i \in 1..n : SubSeq(u, 1, n)[i] = u[i]
    BY <1>2, <2>1, SubSeqProperties
  <2> DEFINE v == SubSeq(u, 1, n)
  <2>3. v \in Seq(D) /\ Len(v) = Len(a) /\ \A i \in 1..Len(v) : v[i] = a[i]
    BY <1>3, <1>5, <2>2
  <2> HIDE DEF v
  <2>4. v = a
    BY <2>3, SeqEqual
  <2> QED
    BY <2>4 DEF v
<1>7. SubSeq(u, n + 1, n + l) = b
  <2>1. \A i \in (n + 1)..(n + l) : u[i] \in D
    BY <1>2, ElementOfSeq
  <2>2. /\ SubSeq(u, n + 1, n + l) \in Seq(D) /\ Len(SubSeq(u, n + 1, n + l)) = l
        /\ \A i \in 1..l : SubSeq(u, n + 1, n + l)[i] = u[n + i]
    <3>1. /\ SubSeq(u, n + 1, n + l) \in Seq(D)
          /\ Len(SubSeq(u, n + 1, n + l)) = IF n + 1 <= n + l THEN (n + l) - (n + 1) + 1 ELSE 0
          /\ \A i \in 1..((n + l) - (n + 1) + 1) : SubSeq(u, n + 1, n + l)[i] = u[(n + 1) + i - 1]
      <4> DEFINE p == n + 1
                 q == n + l
      <4>1. p \in Int /\ q \in Int /\ \A i \in p..q : u[i] \in D
        BY <1>2, <2>1
      <4> HIDE DEF p, q
      <4>2. /\ SubSeq(u, p, q) \in Seq(D)
            /\ Len(SubSeq(u, p, q)) = IF p <= q THEN q - p + 1 ELSE 0
            /\ \A i \in 1..(q - p + 1) : SubSeq(u, p, q)[i] = u[p + i - 1]
        BY <4>1, SubSeqProperties
      <4> QED
        BY <4>2 DEF p, q
    <3>2. \A i \in 1..l : i \in 1..((n + l) - (n + 1) + 1) /\ (n + 1) + i - 1 = n + i
      BY <1>2
    <3> QED
      BY <1>2, <3>1, <3>2
  <2> DEFINE v == SubSeq(u, n + 1, n + l)
  <2>3. v \in Seq(D) /\ Len(v) = Len(b) /\ \A i \in 1..Len(v) : v[i] = b[i]
    BY <1>4, <1>5, <2>2
  <2> HIDE DEF v
  <2>4. v = b
    BY <2>3, SeqEqual
  <2> QED
    BY <2>4 DEF v
<1>8. n <= Len(u)
  BY <1>2
<1> QED
  BY <1>2, <1>3, <1>6, <1>7, <1>8 DEF u, n, l

\* When the total is what was asked for, all that was drawn is matched and the rest still waits.
LEMMA MatchedIs ==
    ASSUME NEW s, NEW n, Good(s, n), NEW primitives \in Seq(OnScreen), sent \in Seq(OnScreen),
           screen = <<>>, Total(s) = sent \o primitives, Matched(s, primitives)
    PROVE  /\ gl' = [s EXCEPT !.drawn = <<>>]
           /\ sent' = Batched(s) /\ screen' = <<>>
<1> DEFINE asked == sent \o primitives
           drawn == screen \o s.drawn
           shorter == IF Len(asked) < Len(drawn) THEN Len(asked) ELSE Len(drawn)
           Same(m) == /\ SubSeq(asked, 1, m) = SubSeq(drawn, 1, m)
                      /\ m = shorter \/ asked[m + 1] # drawn[m + 1]
           same == CHOOSE m \in 0..shorter : Same(m)
<1>0. s \in GLType
  BY DEF Good
<1>1. s.drawn \in Seq(OnScreen) /\ Batched(s) \in Seq(OnScreen)
  BY <1>0, TotalType
<1>2. drawn = s.drawn
  BY <1>1, ConcatEmptySeq
<1>3. asked = s.drawn \o Batched(s)
  BY DEF Total
<1> DEFINE a == s.drawn
           b == Batched(s)
<1>4. /\ SubSeq(a \o b, 1, Len(a)) = a
      /\ SubSeq(a \o b, Len(a) + 1, Len(a \o b)) = b
      /\ Len(a) <= Len(a \o b) /\ \A i \in 1..Len(a) : (a \o b)[i] = a[i]
      /\ Len(a) \in Nat /\ Len(a \o b) \in Nat
  <2>1. a \in Seq(OnScreen) /\ b \in Seq(OnScreen) /\ a \o b \in Seq(OnScreen)
    BY <1>1, ConcatProperties
  <2> HIDE DEF a, b
  <2>2. /\ SubSeq(a \o b, 1, Len(a)) = a
        /\ SubSeq(a \o b, Len(a) + 1, Len(a \o b)) = b
        /\ Len(a) <= Len(a \o b) /\ \A i \in 1..Len(a) : (a \o b)[i] = a[i]
    BY <2>1, PrefixIs
  <2> QED
    BY <2>1, <2>2, LenProperties
<1>5. /\ SubSeq(asked, 1, Len(drawn)) = drawn
      /\ SubSeq(asked, Len(drawn) + 1, Len(asked)) = b
      /\ Len(drawn) <= Len(asked) /\ \A i \in 1..Len(drawn) : asked[i] = drawn[i]
      /\ Len(drawn) \in Nat /\ Len(asked) \in Nat /\ drawn \in Seq(OnScreen)
  <2> HIDE DEF a, b, asked, drawn
  <2>1. drawn = a /\ asked = a \o b /\ a \in Seq(OnScreen)
    BY <1>1, <1>2, <1>3 DEF a, b
  <2> QED
    BY <1>4, <2>1, Zenon
<1>6. gl' = [s EXCEPT !.drawn = <<>>]
  BY DEF Matched
<1>7. sent' = SubSeq(asked, same + 1, Len(asked)) /\ screen' = SubSeq(drawn, same + 1, Len(drawn))
  BY DEF Matched
<1> HIDE DEF asked, drawn, b
<1>8. shorter = Len(drawn)
  BY <1>5
<1> HIDE DEF shorter
<1>9. Same(Len(drawn)) /\ Len(drawn) \in 0..shorter
  <2>1. SubSeq(drawn, 1, Len(drawn)) = drawn
    BY <1>5, SubSeqFull
  <2> QED
    BY <1>5, <1>8, <2>1
<1>10. same \in 0..shorter /\ Same(same)
  <2> HIDE DEF Same
  <2> QED
    BY <1>9
<1> HIDE DEF same
<1>11. same = Len(drawn)
  <2> SUFFICES ASSUME same # Len(drawn)  PROVE FALSE
    OBVIOUS
  <2>1. same + 1 \in 1..Len(drawn)
    <3>1. same \in 0..Len(drawn) /\ Len(drawn) \in Nat
      BY <1>5, <1>8, <1>10
    <3> HIDE DEF Same
    <3> QED
      BY <3>1
  <2>2. asked[same + 1] = drawn[same + 1]
    BY <1>5, <2>1
  <2> QED
    BY <1>8, <1>10, <2>2
<1>12. screen' = <<>>
  <2>1. screen' = SubSeq(drawn, Len(drawn) + 1, Len(drawn))
    BY <1>7, <1>11
  <2> DEFINE p == Len(drawn) + 1
             q == Len(drawn)
  <2>2. p \in Int /\ q \in Int /\ q < p
    BY <1>5
  <2> HIDE DEF p, q
  <2>3. SubSeq(drawn, p, q) = <<>>
    BY <2>2, SubSeqEmpty
  <2> QED
    BY <2>1, <2>3 DEF p, q
<1> QED
  BY <1>5, <1>6, <1>7, <1>11, <1>12 DEF b
-----------------------------------------------------------------------------
(* Matrices. *)

Matrix3 == [projection : Words, modelview : Words, transform : Words]
M(p, v, t) == [projection |-> p, modelview |-> v, transform |-> t]
With(m, c, w) == [m EXCEPT ![c] = w]

LEMMA WithIs ==
    ASSUME NEW m \in Matrix3, NEW c \in Matrices, NEW w \in Words
    PROVE  /\ With(m, c, w) \in Matrix3 /\ m[c] \in Words
           /\ With(m, c, w) = M(IF c = "projection" THEN w ELSE m.projection,
                                IF c = "modelview" THEN w ELSE m.modelview,
                                IF c = "transform" THEN w ELSE m.transform)
<1>1. CASE c = "projection"
  <2> SUFFICES /\ [m EXCEPT !["projection"] = w] \in Matrix3 /\ m["projection"] \in Words
               /\ [m EXCEPT !["projection"] = w] = M(w, m.modelview, m.transform)
    BY <1>1 DEF With
  <2>1. m["projection"] \in Words
    BY DEF Matrix3
  <2>2. [m EXCEPT !["projection"] = w] = [m EXCEPT !.projection = w]
    OBVIOUS
  <2>3. [m EXCEPT !.projection = w] \in Matrix3
    BY DEF Matrix3
  <2>4. [m EXCEPT !.projection = w] = M(w, m.modelview, m.transform)
    BY DEF M, Matrix3
  <2> QED
    BY <2>1, <2>2, <2>3, <2>4, Zenon
<1>2. CASE c = "modelview"
  <2> SUFFICES /\ [m EXCEPT !["modelview"] = w] \in Matrix3 /\ m["modelview"] \in Words
               /\ [m EXCEPT !["modelview"] = w] = M(m.projection, w, m.transform)
    BY <1>2 DEF With
  <2>1. m["modelview"] \in Words
    BY DEF Matrix3
  <2>2. [m EXCEPT !["modelview"] = w] = [m EXCEPT !.modelview = w]
    OBVIOUS
  <2>3. [m EXCEPT !.modelview = w] \in Matrix3
    BY DEF Matrix3
  <2>4. [m EXCEPT !.modelview = w] = M(m.projection, w, m.transform)
    BY DEF M, Matrix3
  <2> QED
    BY <2>1, <2>2, <2>3, <2>4, Zenon
<1>3. CASE c = "transform"
  <2> SUFFICES /\ [m EXCEPT !["transform"] = w] \in Matrix3 /\ m["transform"] \in Words
               /\ [m EXCEPT !["transform"] = w] = M(m.projection, m.modelview, w)
    BY <1>3 DEF With
  <2>1. m["transform"] \in Words
    BY DEF Matrix3
  <2>2. [m EXCEPT !["transform"] = w] = [m EXCEPT !.transform = w]
    OBVIOUS
  <2>3. [m EXCEPT !.transform = w] \in Matrix3
    BY DEF Matrix3
  <2>4. [m EXCEPT !.transform = w] = M(m.projection, m.modelview, w)
    BY DEF M, Matrix3
  <2> QED
    BY <2>1, <2>2, <2>3, <2>4, Zenon
<1> QED
  BY <1>1, <1>2, <1>3 DEF Matrices

\* All but the matrices is as it was.
MatrixOnly(r, s) ==
    /\ r \in GLType /\ r.batch = s.batch /\ r.currentTextureId = s.currentTextureId
    /\ r.shader = s.shader /\ r.color = s.color /\ r.normal = s.normal /\ r.texcoord = s.texcoord
    /\ r.blend = s.blend /\ r.factors = s.factors /\ r.factorsModified = s.factorsModified
    /\ r.usedFactors = s.usedFactors /\ r.framebuffer = s.framebuffer /\ r.viewport = s.viewport
    /\ r.scissor = s.scissor /\ r.depthTest = s.depthTest /\ r.culling = s.culling
    /\ r.overrun = s.overrun /\ r.drawn = s.drawn

\* Where the matrix functions left the state.
At(r, s, mode, current, m, stack) ==
    /\ MatrixOnly(r, s) /\ r.matrixMode = mode /\ r.current = current
    /\ r.matrix = m /\ r.stack = stack

LEMMA AtFirst ==
    ASSUME NEW s \in GLType
    PROVE  At(s, s, s.matrixMode, s.current, s.matrix, s.stack)
BY DEF At, MatrixOnly

LEMMA AtType ==
    ASSUME NEW r, NEW s, NEW mode, NEW c, NEW m, NEW stack, At(r, s, mode, c, m, stack)
    PROVE  r \in GLType /\ mode \in Matrices /\ c \in Matrices /\ m \in Matrix3 /\ stack \in Seq(Words)
BY DEF At, MatrixOnly, GLType, Matrix3

LEMMA AtMode ==
    ASSUME NEW r, NEW s, NEW mode, NEW c, NEW m, NEW stack, At(r, s, mode, c, m, stack),
           NEW to \in Matrices
    PROVE  At(rlMatrixMode(r, to), s, to, to, m, stack)
<1>1. r \in GLType
  BY AtType
<1> DEFINE q == [r EXCEPT !.current = to, !.matrixMode = to]
<1>2. q \in GLType /\ q.matrixMode = to /\ q.current = to /\ q.matrix = r.matrix /\ q.stack = r.stack
  BY <1>1 DEF GLType
<1>3. MatrixOnly(q, r)
  BY <1>1, <1>2 DEF MatrixOnly, GLType
<1> HIDE DEF q
<1>4. MatrixOnly(q, s)
  BY <1>3 DEF MatrixOnly, At
<1>5. rlMatrixMode(r, to) = q
  BY DEF rlMatrixMode, q
<1> QED
  BY <1>2, <1>4, <1>5 DEF At

\* The current matrix becomes another.
LEMMA AtWith ==
    ASSUME NEW r, NEW s, NEW mode, NEW c, NEW m, NEW stack, At(r, s, mode, c, m, stack),
           NEW w \in Words
    PROVE  At([r EXCEPT !.matrix = With(m, c, w)], s, mode, c, With(m, c, w), stack)
<1>1. r \in GLType /\ With(m, c, w) \in Matrix3
  BY AtType, WithIs
<1>2. PICK x \in Matrix3 : x = With(m, c, w)
  BY <1>1
<1> DEFINE q == [r EXCEPT !.matrix = x]
<1>3. q \in GLType /\ q.matrixMode = r.matrixMode /\ q.current = r.current /\ q.matrix = x
      /\ q.stack = r.stack
  BY <1>1 DEF GLType, Matrix3
<1>4. MatrixOnly(q, r)
  BY <1>1, <1>3 DEF MatrixOnly, GLType
<1> HIDE DEF q
<1>5. MatrixOnly(q, s)
  BY <1>4 DEF MatrixOnly, At
<1> QED
  BY <1>2, <1>3, <1>5 DEF At, q

LEMMA AtIdentity ==
    ASSUME NEW r, NEW s, NEW mode, NEW c, NEW m, NEW stack, At(r, s, mode, c, m, stack)
    PROVE  At(rlLoadIdentity(r), s, mode, c, With(m, c, <<>>), stack)
<1>1. r.current = c /\ r.matrix = m /\ r \in GLType
  BY AtType DEF At
<1>2. rlLoadIdentity(r) = [r EXCEPT !.matrix = With(m, c, <<>>)]
  BY <1>1 DEF rlLoadIdentity, With, Identity, GLType
<1>3. <<>> \in Words
  BY DEF Words
<1> QED
  BY <1>2, <1>3, AtWith

LEMMA AtMult ==
    ASSUME NEW r, NEW s, NEW mode, NEW c, NEW m, NEW stack, At(r, s, mode, c, m, stack),
           NEW w \in Names
    PROVE  At(rlMultMatrixf(r, w), s, mode, c, With(m, c, <<w>> \o m[c]), stack)
<1>1. r.current = c /\ r.matrix = m /\ r \in GLType /\ m \in Matrix3 /\ c \in Matrices
  BY AtType DEF At
<1>2. rlMultMatrixf(r, w) = [r EXCEPT !.matrix = With(m, c, <<w>> \o m[c])]
  BY <1>1 DEF rlMultMatrixf, With, GLType
<1>3. <<w>> \o m[c] \in Words
  <2>1. m[c] \in Words
    BY <1>1, WithIs, OneOf DEF Words
  <2> QED
    BY <2>1, OneOf, ConcatProperties DEF Words
<1> QED
  BY <1>2, <1>3, AtWith

LEMMA AtFrustum ==
    ASSUME NEW r, NEW s, NEW mode, NEW c, NEW m, NEW stack, At(r, s, mode, c, m, stack),
           NEW w \in Names
    PROVE  At(rlFrustum(r, w), s, mode, c, With(m, c, Append(m[c], w)), stack)
<1>1. r.current = c /\ r.matrix = m /\ r \in GLType /\ m \in Matrix3 /\ c \in Matrices
  BY AtType DEF At
<1>2. rlFrustum(r, w) = [r EXCEPT !.matrix = With(m, c, Append(m[c], w))]
  BY <1>1 DEF rlFrustum, With, GLType
<1>3. Append(m[c], w) \in Words
  <2>1. m[c] \in Words
    BY <1>1, WithIs, OneOf DEF Words
  <2> QED
    BY <2>1, AppendProperties DEF Words
<1> QED
  BY <1>2, <1>3, AtWith

\* A push keeps the current matrix, or the transform; a pop brings it back.
LEMMA PushedAndPopped ==
    ASSUME NEW stack \in Seq(Words), NEW w \in Words
    PROVE  /\ Append(stack, w) \in Seq(Words) /\ Append(stack, w) # <<>>
           /\ Top(Append(stack, w)) = w /\ Below(Append(stack, w)) = stack
<1>1. /\ Append(stack, w) \in Seq(Words) /\ Len(Append(stack, w)) = Len(stack) + 1
      /\ Append(stack, w)[Len(stack) + 1] = w /\ Len(stack) \in Nat
  BY AppendProperties, LenProperties
<1>2. Len(Append(stack, w)) - 1 = Len(stack) /\ Append(stack, w) # <<>>
  BY <1>1
<1>3. SubSeq(Append(stack, w), 1, Len(stack)) = stack
  <2>1. Len(<<w>>) = 1 /\ <<w>> \in Seq(Words) /\ Append(stack, w) = stack \o <<w>>
    BY OneOf, AppendIsConcat
  <2>2. SubSeq(stack \o <<w>>, 1, Len(stack)) = stack
    BY <2>1, PrefixIs
  <2> QED
    BY <2>1, <2>2
<1> QED
  BY <1>1, <1>2, <1>3 DEF Top, Below

LEMMA AtPush ==
    ASSUME NEW r, NEW s, NEW mode, NEW c, NEW m, NEW stack, At(r, s, mode, c, m, stack),
           mode # "modelview"
    PROVE  At(rlPushMatrix(r), s, mode, c, m, Append(stack, m[c]))
<1>1. r \in GLType /\ m \in Matrix3 /\ c \in Matrices /\ stack \in Seq(Words)
      /\ r.matrixMode = mode /\ r.current = c /\ r.matrix = m /\ r.stack = stack
  BY AtType DEF At
<1>2. m[c] \in Words
  <2>1. <<>> \in Words
    BY DEF Words
  <2> QED
    BY <1>1, <2>1, WithIs
<1>3. PICK pushed \in Seq(Words) : pushed = Append(stack, m[c])
  BY <1>1, <1>2, PushedAndPopped
<1> DEFINE q == [r EXCEPT !.stack = pushed]
<1>4. q \in GLType /\ q.matrixMode = mode /\ q.current = c /\ q.matrix = m /\ q.stack = pushed
  BY <1>1 DEF GLType
<1>5. MatrixOnly(q, r)
  BY <1>1, <1>4 DEF MatrixOnly, GLType
<1>6. rlPushMatrix(r) = q
  <2>1. rlPushMatrix(r) = [r EXCEPT !.current = c, !.transformRequired = r.transformRequired \/ FALSE,
                                    !.stack = Append(r.stack, r.matrix[c])]
    BY <1>1 DEF rlPushMatrix, GLType
  <2>2. (r.transformRequired \/ FALSE) = r.transformRequired
    BY <1>1 DEF GLType
  <2>3. Append(r.stack, r.matrix[c]) = pushed
    BY <1>1, <1>3
  <2>4. rlPushMatrix(r) = [r EXCEPT !.current = r.current, !.transformRequired = r.transformRequired,
                                    !.stack = pushed]
    BY <1>1, <2>1, <2>2, <2>3, Zenon
  <2> QED
    BY <1>1, <2>4 DEF GLType
<1> HIDE DEF q
<1>7. MatrixOnly(q, s)
  BY <1>5 DEF MatrixOnly, At
<1> QED
  BY <1>3, <1>4, <1>6, <1>7 DEF At

LEMMA AtPushTransform ==
    ASSUME NEW r, NEW s, NEW c, NEW m, NEW stack, At(r, s, "modelview", c, m, stack)
    PROVE  /\ At(rlPushMatrix(r), s, "modelview", "transform", m, Append(stack, m.transform))
           /\ rlPushMatrix(r).transformRequired
<1>1. r \in GLType /\ m \in Matrix3 /\ stack \in Seq(Words)
      /\ r.matrixMode = "modelview" /\ r.matrix = m /\ r.stack = stack
  BY AtType DEF At
<1>2. m["transform"] = m.transform /\ m.transform \in Words /\ "transform" \in Matrices
  BY <1>1 DEF Matrix3, Matrices
<1>3. PICK pushed \in Seq(Words) : pushed = Append(stack, m.transform)
  BY <1>1, <1>2, PushedAndPopped
<1> DEFINE q == [r EXCEPT !.current = "transform", !.transformRequired = TRUE, !.stack = pushed]
<1>4. /\ q \in GLType /\ q.matrixMode = "modelview" /\ q.current = "transform" /\ q.matrix = m
      /\ q.stack = pushed /\ q.transformRequired = TRUE
  BY <1>1, <1>2 DEF GLType
<1>5. MatrixOnly(q, r)
  BY <1>1, <1>4 DEF MatrixOnly, GLType
<1>6. rlPushMatrix(r) = q
  <2>1. rlPushMatrix(r) = [r EXCEPT !.current = "transform", !.transformRequired = r.transformRequired \/ TRUE,
                                    !.stack = Append(r.stack, r.matrix["transform"])]
    BY <1>1 DEF rlPushMatrix, GLType
  <2>2. (r.transformRequired \/ TRUE) = TRUE
    OBVIOUS
  <2>3. Append(r.stack, r.matrix["transform"]) = pushed
    BY <1>1, <1>2, <1>3
  <2> QED
    BY <2>1, <2>2, <2>3, Zenon
<1> HIDE DEF q
<1>7. MatrixOnly(q, s)
  BY <1>5 DEF MatrixOnly, At
<1> QED
  BY <1>3, <1>4, <1>6, <1>7 DEF At

LEMMA AtPop ==
    ASSUME NEW r, NEW s, NEW mode, NEW c, NEW m, NEW below \in Seq(Words), NEW w \in Words,
           At(r, s, mode, c, m, Append(below, w)), mode # "modelview" \/ below # <<>>
    PROVE  At(rlPopMatrix(r), s, mode, c, With(m, c, w), below)
<1>1. r \in GLType /\ m \in Matrix3 /\ c \in Matrices
      /\ r.matrixMode = mode /\ r.current = c /\ r.matrix = m /\ r.stack = Append(below, w)
  BY AtType DEF At
<1>2. r.stack # <<>> /\ Top(r.stack) = w /\ Below(r.stack) = below
  BY <1>1, PushedAndPopped
<1>3. PICK x \in Matrix3 : x = With(m, c, w)
  BY <1>1, WithIs
<1> DEFINE q == [r EXCEPT !.matrix = x, !.stack = below]
<1>4. q \in GLType /\ q.matrixMode = mode /\ q.current = c /\ q.matrix = x /\ q.stack = below
  BY <1>1 DEF GLType, Matrix3
<1>5. MatrixOnly(q, r)
  BY <1>1, <1>4 DEF MatrixOnly, GLType
<1> DEFINE popped == [r EXCEPT !.matrix[r.current] = Top(r.stack), !.stack = Below(r.stack)]
<1>6. popped = q
  <2>1. popped = [r EXCEPT !.matrix = [r.matrix EXCEPT ![r.current] = Top(r.stack)], !.stack = Below(r.stack)]
    BY <1>1 DEF GLType
  <2>2. [r.matrix EXCEPT ![r.current] = Top(r.stack)] = x
    BY <1>1, <1>2, <1>3, Zenon DEF With
  <2> QED
    BY <1>2, <2>1, <2>2, Zenon
<1>7. rlPopMatrix(r) = q
  <2> HIDE DEF q
  <2>1. rlPopMatrix(r) = IF popped.stack = <<>> /\ r.matrixMode = "modelview"
                         THEN [popped EXCEPT !.current = "modelview", !.transformRequired = FALSE]
                         ELSE popped
    BY <1>2 DEF rlPopMatrix
  <2> HIDE DEF popped
  <2>2. ~(popped.stack = <<>> /\ r.matrixMode = "modelview")
    BY <1>1, <1>4, <1>6
  <2> QED
    BY <1>6, <2>1, <2>2
<1> HIDE DEF q
<1>8. MatrixOnly(q, s)
  BY <1>5 DEF MatrixOnly, At
<1> QED
  BY <1>3, <1>4, <1>7, <1>8 DEF At

\* All but the pen, the batch and which matrix the next one would change is as it was.
SameView(r, s) ==
    /\ r.shader = s.shader /\ r.matrixMode = s.matrixMode /\ r.matrix = s.matrix /\ r.stack = s.stack
    /\ r.blend = s.blend /\ r.factors = s.factors /\ r.factorsModified = s.factorsModified
    /\ r.usedFactors = s.usedFactors /\ r.framebuffer = s.framebuffer /\ r.viewport = s.viewport
    /\ r.scissor = s.scissor /\ r.depthTest = s.depthTest /\ r.culling = s.culling

\* A cube is drawn moved, without a texture, and leaves the matrices as they were.
LEMMA CubeDrawn ==
    ASSUME NEW s, Rest(s), s.matrix.transform = Identity, s.matrixMode = "modelview",
           s.stack # <<>>, NEW triangles \in Nat
    PROVE  LET r == DrawCube(s, triangles)
               moved == <<"translation">>
           IN  /\ Rest(r) /\ SameView(r, s) /\ r.current = "transform"
               /\ Total(r) = Total(s) \o Repeated(Primitive("TRIANGLES", Default,
                                                    Asked(s, 3, moved, moved), Setting(s)), triangles)
<1> DEFINE a == rlPushMatrix(s)
           b == rlMultMatrixf(a, "translation")
           c == rlBegin(b, "TRIANGLES")
           n == rlNormal3f(c)
           p == Primitives(n, 3, triangles)
           r == rlPopMatrix(p)
           moved == <<"translation">>
           P == Primitive("TRIANGLES", Default, Asked(s, 3, moved, moved), Setting(s))
           m == With(s.matrix, "transform", moved)
<1>0. /\ Good(s, DrawCalls - 1) /\ s \in GLType /\ s.currentTextureId = Default
      /\ DrawNow(s).mode # "QUADS" => DrawNow(s).texture = Default
      /\ s.matrix \in Matrix3 /\ s.stack \in Seq(Words) /\ ~s.overrun
      /\ "TRIANGLES" \in Modes /\ "transform" \in Matrices
  BY DEF Rest, Good, GLType, Matrix3, Modes, Matrices
<1>1. moved \in Words /\ <<>> \in Words
  <2>1. "translation" \in Names
    BY DEF Names
  <2> QED
    BY <2>1, OneOf DEF Words
<1>2. At(s, s, "modelview", s.current, s.matrix, s.stack)
  BY <1>0, AtFirst
<1>3. At(a, s, "modelview", "transform", s.matrix, Append(s.stack, Identity)) /\ a.transformRequired
  BY <1>2, AtPushTransform
<1>4. At(b, s, "modelview", "transform", m, Append(s.stack, Identity))
  <2>1. "translation" \in Names
    BY DEF Names
  <2>2. At(b, s, "modelview", "transform",
           With(s.matrix, "transform", moved \o s.matrix["transform"]), Append(s.stack, Identity))
    <3> HIDE DEF a
    <3> QED
      BY <1>3, <2>1, AtMult
  <2>3. s.matrix["transform"] = <<>>
    BY <1>0 DEF Matrix3, Identity
  <2>4. moved \o <<>> = moved
    BY <1>1, ConcatEmptySeq DEF Words
  <2> QED
    BY <2>2, <2>3, <2>4
<1>5. b.transformRequired
  BY <1>3 DEF rlMultMatrixf
<1>6. m = M(s.matrix.projection, s.matrix.modelview, moved) /\ m \in Matrix3
  BY <1>0, <1>1, WithIs
<1> HIDE DEF m, b, a
<1>7. /\ b \in GLType /\ b.batch = s.batch /\ Setting(b) = Setting(s) /\ b.drawn = s.drawn
      /\ b.overrun = s.overrun /\ b.currentTextureId = s.currentTextureId /\ b.color = s.color
  <2>1. b.matrix.projection = s.matrix.projection /\ b.matrix.modelview = s.matrix.modelview
    BY <1>4, <1>6 DEF At, M
  <2>2. Setting(b) = Setting(s)
    BY <1>4, <2>1 DEF Setting, At, MatrixOnly
  <2> QED
    BY <1>4, <2>2 DEF At, MatrixOnly
<1>8. Good(b, DrawCalls - 1) /\ Total(b) = Total(s) /\ DrawNow(b) = DrawNow(s)
  BY <1>0, <1>7, Untouched
<1>9. /\ Good(c, DrawCalls - 1) /\ SameContext(c, b) /\ c.color = b.color /\ Total(c) = Total(b)
      /\ DrawNow(c).mode = "TRIANGLES" /\ DrawNow(c).texture = Default
      /\ c.currentTextureId = Default
  BY <1>0, <1>7, <1>8, BeginIs DEF SameStyle
<1> HIDE DEF c
<1>10. /\ Good(n, DrawCalls - 1) /\ SameContext(n, c) /\ Total(n) = Total(c)
       /\ DrawNow(n) = DrawNow(c) /\ n.color = c.color /\ n.currentTextureId = c.currentTextureId
       /\ n.normal = IF c.transformRequired THEN c.matrix.transform ELSE Identity
  BY <1>9, NormalIs
<1> HIDE DEF n
<1>11. SameContext(n, b)
  BY <1>9, <1>10 DEF SameContext
<1>12. PerPrimitive(DrawNow(n).mode) = 3
  BY <1>9, <1>10 DEF PerPrimitive
<1>13. NextPrimitive(n) = P
  <2>1. b.matrix.transform = moved
    BY <1>4, <1>6 DEF At, M
  <2>2. n.normal = moved /\ n.color = s.color /\ n.matrix.transform = moved /\ n.transformRequired
    BY <1>5, <1>7, <1>9, <1>10, <1>11, <2>1 DEF SameContext
  <2> HIDE DEF moved
  <2>3. \A v \in 1..3 : Corner(n, v, v) = [at |-> v, transform |-> moved, color |-> s.color,
                                           texcoord |-> v, normal |-> moved]
    BY <2>2 DEF Corner
  <2>4. [v \in 1..3 |-> Corner(n, v, v)] = Asked(s, 3, moved, moved)
    BY <2>3 DEF Asked
  <2>5. Setting(n) = Setting(s)
    BY <1>7, <1>11, SameSetting
  <2> QED
    BY <1>9, <1>10, <1>12, <2>4, <2>5 DEF NextPrimitive
<1> HIDE DEF P
<1>14. /\ Good(p, DrawCalls - 1) /\ SameContext(p, n) /\ SameInk(p, n)
       /\ Total(p) = Total(n) \o Repeated(P, triangles)
  BY <1>10, <1>12, <1>13, PrimitivesDrawn
<1> HIDE DEF p
<1>15. At(p, p, "modelview", "transform", m, Append(s.stack, Identity))
  <2>1. p \in GLType
    BY <1>14 DEF Good
  <2>2. At(p, p, p.matrixMode, p.current, p.matrix, p.stack)
    BY <2>1, AtFirst
  <2> QED
    BY <1>4, <1>11, <1>14, <2>2 DEF At, SameContext
<1>16. At(r, p, "modelview", "transform", With(m, "transform", <<>>), s.stack)
  BY <1>0, <1>1, <1>15, AtPop DEF Identity
<1>17. With(m, "transform", <<>>) = s.matrix
  <2>1. With(m, "transform", <<>>) = M(m.projection, m.modelview, <<>>)
    BY <1>0, <1>1, <1>6, WithIs
  <2>2. m.projection = s.matrix.projection /\ m.modelview = s.matrix.modelview
    BY <1>6 DEF M
  <2>3. s.matrix = M(s.matrix.projection, s.matrix.modelview, <<>>)
    BY <1>0 DEF M, Matrix3, Identity
  <2> QED
    BY <2>1, <2>2, <2>3
<1> HIDE DEF r
<1>18. /\ r \in GLType /\ r.batch = p.batch /\ Setting(r) = Setting(p) /\ r.drawn = p.drawn
       /\ r.overrun = p.overrun /\ r.currentTextureId = p.currentTextureId
  <2>1. r.matrix.projection = p.matrix.projection /\ r.matrix.modelview = p.matrix.modelview
    BY <1>6, <1>15, <1>16, <1>17 DEF At, M
  <2>2. Setting(r) = Setting(p)
    BY <1>16, <2>1 DEF Setting, At, MatrixOnly
  <2> QED
    BY <1>16, <2>2 DEF At, MatrixOnly
<1>19. Good(r, DrawCalls - 1) /\ Total(r) = Total(p) /\ DrawNow(r) = DrawNow(p)
  BY <1>14, <1>18, Untouched
<1>20. Rest(r)
  <2>1. r.currentTextureId = Default /\ DrawNow(r).texture = Default
    BY <1>9, <1>10, <1>14, <1>18, <1>19 DEF SameInk
  <2> QED
    BY <1>19, <2>1 DEF Rest
<1>21. Total(r) = Total(s) \o Repeated(P, triangles)
  BY <1>8, <1>9, <1>10, <1>14, <1>19, Zenon
<1>22. SameView(r, s) /\ r.current = "transform"
  <2>1. r.matrix = s.matrix /\ r.stack = s.stack /\ r.matrixMode = s.matrixMode
        /\ r.current = "transform"
    BY <1>16, <1>17 DEF At
  <2>2. MatrixOnly(r, p) /\ MatrixOnly(b, s) /\ SameContext(p, b)
    BY <1>4, <1>11, <1>14, <1>16 DEF At, SameContext
  <2> QED
    BY <2>1, <2>2 DEF MatrixOnly, SameContext, SameView
<1> QED
  BY <1>20, <1>21, <1>22 DEF DrawCube, r, p, n, c, b, a, P
-----------------------------------------------------------------------------
(* Modes. *)

Base(W) == IF "target" \in W THEN <<"target ortho">> ELSE <<"window ortho">>
Target(W) == IF "target" \in W THEN "target" ELSE "window"

\* The matrices in the modes of W.  In a 3D mode the projection of before lies on the stack.
MatricesOf(s, W) ==
    /\ s.matrixMode = "modelview"
    /\ s.matrix = M(IF "3D" \in W THEN <<"perspective">> ELSE Base(W),
                    IF "3D" \in W THEN <<"view">>
                    ELSE IF "2D" \in W THEN <<"camera">>
                    ELSE IF "target" \in W THEN <<>> ELSE <<"screenScale">>,
                    <<>>)
    /\ s.stack = IF "3D" \in W THEN <<Base(W)>> ELSE <<>>
    /\ s.current = "modelview" \/ (s.current = "transform" /\ "3D" \in W)

\* The device in the modes of W.
DeviceOf(s, W) ==
    /\ s.culling = TRUE /\ s.depthTest = ("3D" \in W)
    /\ s.framebuffer = Target(W) /\ s.viewport = Target(W)
    /\ s.scissor = IF "scissor" \in W THEN "part" ELSE "all"
    /\ s.shader = IF "shader" \in W THEN "shader" ELSE Default
    /\ "blend" \notin W => s.blend = "ALPHA"
    /\ s.blend = "ALPHA" => s.usedFactors = 0

Context(s, W) == MatricesOf(s, W) /\ DeviceOf(s, W)

LEMMA ContextFrame ==
    ASSUME NEW r, NEW s, NEW W, Context(s, W), SameView(r, s),
           r.current = s.current \/ (r.current = "transform" /\ "3D" \in W)
    PROVE  Context(r, W)
<1>1. MatricesOf(r, W)
  BY DEF Context, MatricesOf, SameView
<1>2. DeviceOf(r, W)
  BY DEF Context, DeviceOf, SameView
<1> QED
  BY <1>1, <1>2 DEF Context

LEMMA NamesAre ==
    /\ "camera" \in Names /\ "view" \in Names /\ "screenScale" \in Names /\ "perspective" \in Names
    /\ "window" \in Names /\ "target" \in Names /\ "all" \in Names /\ "part" \in Names /\ "shader" \in Names
    /\ "ALPHA" \in Names /\ "ADDITIVE" \in Names /\ "CUSTOM" \in Names /\ Default \in Names
    /\ "white" \in Names /\ "tint" \in Names /\ "none" \in Names
BY DEF Names

LEMMA OrthosAre == "window ortho" \in Names /\ "target ortho" \in Names
BY DEF Names

LEMMA WordsAre ==
    /\ <<>> \in Words /\ \A w \in Names : <<w>> \in Words /\ <<w>> \o <<>> = <<w>>
    /\ \A w \in Names : Append(<<>>, w) = <<w>>
<1>1. <<>> \in Words /\ \A w \in Names : <<w>> \in Words
  BY OneOf DEF Words
<1>2. \A w \in Names : <<w>> \o <<>> = <<w>>
  BY <1>1, ConcatEmptySeq DEF Words
<1>3. \A w \in Names : Append(<<>>, w) = <<w>>
  OBVIOUS
<1> QED
  BY <1>1, <1>2, <1>3

LEMMA MIs ==
    ASSUME NEW p, NEW v, NEW t, M(p, v, t) \in Matrix3
    PROVE  /\ p \in Words /\ v \in Words /\ t \in Words
           /\ M(p, v, t).projection = p /\ M(p, v, t).modelview = v /\ M(p, v, t).transform = t
           /\ M(p, v, t)["projection"] = p /\ M(p, v, t)["modelview"] = v
           /\ \A w \in Words : /\ With(M(p, v, t), "projection", w) = M(w, v, t)
                               /\ With(M(p, v, t), "modelview", w) = M(p, w, t)
<1> DEFINE m == M(p, v, t)
<1>1. m.projection = p /\ m.modelview = v /\ m.transform = t /\ m["projection"] = p /\ m["modelview"] = v
  BY DEF M
<1> HIDE DEF m
<1>2. m \in Matrix3
  BY DEF m
<1>3. p \in Words /\ v \in Words /\ t \in Words
  BY <1>1, <1>2 DEF Matrix3
<1>4. ASSUME NEW w \in Words
      PROVE  With(m, "projection", w) = M(w, v, t) /\ With(m, "modelview", w) = M(p, w, t)
  <2>1. "projection" \in Matrices /\ "modelview" \in Matrices
    BY DEF Matrices
  <2>2. With(m, "projection", w) = M(w, v, t)
    BY <1>1, <1>2, <2>1, WithIs
  <2>3. With(m, "modelview", w) = M(p, w, t)
    BY <1>1, <1>2, <2>1, WithIs
  <2> QED
    BY <2>2, <2>3
<1> QED
  BY <1>1, <1>3, <1>4 DEF m

LEMMA AtCleared ==
    ASSUME NEW r, NEW s, NEW mode, NEW p, NEW v, NEW t, NEW stack,
           At(r, s, mode, "modelview", M(p, v, t), stack)
    PROVE  At(rlLoadIdentity(r), s, mode, "modelview", M(p, <<>>, t), stack)
<1>1. M(p, v, t) \in Matrix3
  BY AtType
<1>2. With(M(p, v, t), "modelview", <<>>) = M(p, <<>>, t)
  BY <1>1, WordsAre, MIs
<1> QED
  BY <1>2, AtIdentity

LEMMA AtView ==
    ASSUME NEW r, NEW s, NEW mode, NEW p, NEW v, NEW t, NEW stack,
           At(r, s, mode, "modelview", M(p, v, t), stack), NEW w \in Names
    PROVE  At(rlMultMatrixf(rlLoadIdentity(r), w), s, mode, "modelview", M(p, <<w>>, t), stack)
<1>1. At(rlLoadIdentity(r), s, mode, "modelview", M(p, <<>>, t), stack)
  BY AtCleared
<1>2. M(p, <<>>, t) \in Matrix3
  BY <1>1, AtType
<1>3. M(p, <<>>, t)["modelview"] = <<>> /\ <<w>> \o <<>> = <<w>>
  BY <1>2, MIs, WordsAre
<1>4. With(M(p, <<>>, t), "modelview", <<w>>) = M(p, <<w>>, t)
  BY <1>2, WordsAre, MIs
<1>5. At(rlMultMatrixf(rlLoadIdentity(r), w), s, mode, "modelview",
         With(M(p, <<>>, t), "modelview", <<w>> \o M(p, <<>>, t)["modelview"]), stack)
  BY <1>1, AtMult
<1> QED
  BY <1>3, <1>4, <1>5

LEMMA AtProjection ==
    ASSUME NEW r, NEW s, NEW mode, NEW p, NEW v, NEW t, NEW stack,
           At(r, s, mode, "projection", M(p, v, t), stack), NEW w \in Names
    PROVE  At(rlFrustum(rlLoadIdentity(r), w), s, mode, "projection", M(<<w>>, v, t), stack)
<1>1. M(p, v, t) \in Matrix3
  BY AtType
<1>2. With(M(p, v, t), "projection", <<>>) = M(<<>>, v, t)
  BY <1>1, WordsAre, MIs
<1>3. At(rlLoadIdentity(r), s, mode, "projection", M(<<>>, v, t), stack)
  BY <1>2, AtIdentity
<1>4. M(<<>>, v, t) \in Matrix3
  BY <1>3, AtType
<1>5. M(<<>>, v, t)["projection"] = <<>> /\ Append(<<>>, w) = <<w>>
  BY <1>4, MIs, WordsAre
<1>6. With(M(<<>>, v, t), "projection", <<w>>) = M(<<w>>, v, t)
  BY <1>4, WordsAre, MIs
<1>7. At(rlFrustum(rlLoadIdentity(r), w), s, mode, "projection",
         With(M(<<>>, v, t), "projection", Append(M(<<>>, v, t)["projection"], w)), stack)
  BY <1>3, AtFrustum
<1> QED
  BY <1>5, <1>6, <1>7

\* The batch is drawn before a mode changes: where the matrices and the device are then.
LEMMA ReadyIs ==
    ASSUME NEW s, NEW W, Rest(s), Context(s, W)
    PROVE  LET x == rlDrawRenderBatch(s) IN
           /\ x \in GLType /\ SameContext(x, s) /\ SameView(x, s) /\ x.drawn = Total(s)
           /\ At(x, x, "modelview", s.current, s.matrix, s.stack)
           /\ Context(x, W)
<1> DEFINE x == rlDrawRenderBatch(s)
<1>1. x \in GLType /\ SameContext(x, s) /\ x.drawn = Total(s)
  BY Rendered DEF Rest, Good
<1> HIDE DEF x
<1>2. SameView(x, s) /\ x.current = s.current
  BY <1>1 DEF SameContext, SameView
<1>3. Context(x, W)
  BY <1>2, ContextFrame
<1>4. At(x, x, "modelview", s.current, s.matrix, s.stack)
  <2>1. At(x, x, x.matrixMode, x.current, x.matrix, x.stack)
    BY <1>1, AtFirst
  <2> QED
    BY <1>2, <2>1 DEF SameView, Context, MatricesOf
<1> QED
  BY <1>1, <1>2, <1>3, <1>4 DEF x

\* A state that only the matrices tell from the drawn batch.
LEMMA MovedIs ==
    ASSUME NEW s, Rest(s), NEW r, MatrixOnly(r, rlDrawRenderBatch(s))
    PROVE  Rest(r) /\ Total(r) = Total(s)
<1> DEFINE x == rlDrawRenderBatch(s)
<1>1. x.drawn = Total(s)
  BY Rendered DEF Rest, Good
<1>2. /\ r \in GLType /\ r.batch = x.batch /\ r.currentTextureId = x.currentTextureId
      /\ r.overrun = x.overrun /\ r.drawn = x.drawn
  BY DEF MatrixOnly
<1> HIDE DEF x
<1>3. Rest(r) /\ Total(r) = r.drawn
  BY <1>2, Turned DEF Rest, x
<1> QED
  BY <1>1, <1>2, <1>3

LEMMA DeviceFrame ==
    ASSUME NEW r, NEW s, NEW W, NEW V, DeviceOf(s, W), MatrixOnly(r, s),
           \A k \in {"3D", "target", "scissor", "shader", "blend"} : k \in V <=> k \in W
    PROVE  DeviceOf(r, V)
<1>1. /\ ("3D" \in V) = ("3D" \in W) /\ ("target" \in V) = ("target" \in W)
      /\ ("scissor" \in V) = ("scissor" \in W) /\ ("shader" \in V) = ("shader" \in W)
      /\ ("blend" \in V) = ("blend" \in W)
  OBVIOUS
<1> QED
  BY <1>1 DEF DeviceOf, MatrixOnly, Target

LEMMA Mode2DBegun ==
    ASSUME NEW s, NEW W, Rest(s), Context(s, W), "2D" \notin W, "3D" \notin W
    PROVE  LET r == BeginMode2D(s) IN
           Rest(r) /\ Total(r) = Total(s) /\ Context(r, W \cup {"2D"})
<1> DEFINE x == rlDrawRenderBatch(s)
           r == rlMultMatrixf(rlLoadIdentity(x), "camera")
           m == s.matrix
<1>1. /\ At(x, x, "modelview", s.current, s.matrix, s.stack) /\ Context(x, W)
  BY ReadyIs
<1>2. /\ s.current = "modelview" /\ s.stack = <<>>
      /\ s.matrix = M(Base(W), IF "target" \in W THEN <<>> ELSE <<"screenScale">>, <<>>)
  BY DEF Context, MatricesOf
<1> HIDE DEF x
<1>3. At(r, x, "modelview", "modelview", M(Base(W), <<"camera">>, <<>>), <<>>)
  BY <1>1, <1>2, NamesAre, AtView
<1> HIDE DEF r
<1>4. Rest(r) /\ Total(r) = Total(s)
  BY <1>3, MovedIs DEF At, x
<1>5. DeviceOf(r, W \cup {"2D"})
  BY <1>1, <1>3, DeviceFrame DEF Context, At
<1>6. MatricesOf(r, W \cup {"2D"})
  <2>1. Base(W \cup {"2D"}) = Base(W)
    BY DEF Base
  <2> QED
    BY <1>3, <2>1 DEF MatricesOf, At
<1> QED
  BY <1>4, <1>5, <1>6 DEF BeginMode2D, r, x, Context

LEMMA Mode2DEnded ==
    ASSUME NEW s, NEW W, Rest(s), Context(s, W), "2D" \in W, "3D" \notin W
    PROVE  LET r == EndMode2D(s) IN
           Rest(r) /\ Total(r) = Total(s) /\ Context(r, W \ {"2D"})
<1> DEFINE x == rlDrawRenderBatch(s)
           y == rlLoadIdentity(x)
           r == IF s.framebuffer = "window" THEN rlMultMatrixf(y, "screenScale") ELSE y
           V == W \ {"2D"}
           v == IF "target" \in W THEN <<>> ELSE <<"screenScale">>
<1>1. /\ At(x, x, "modelview", s.current, s.matrix, s.stack) /\ Context(x, W)
  BY ReadyIs
<1>2. /\ s.current = "modelview" /\ s.stack = <<>> /\ s.matrix = M(Base(W), <<"camera">>, <<>>)
      /\ s.framebuffer = "window" <=> "target" \notin W
  BY DEF Context, MatricesOf, DeviceOf, Target
<1> HIDE DEF x
<1>3. At(r, x, "modelview", "modelview", M(Base(W), v, <<>>), <<>>)
  <2>1. At(x, x, "modelview", "modelview", M(Base(W), <<"camera">>, <<>>), <<>>)
    BY <1>1, <1>2
  <2>2. At(y, x, "modelview", "modelview", M(Base(W), <<>>, <<>>), <<>>)
    BY <2>1, AtCleared
  <2>3. At(rlMultMatrixf(y, "screenScale"), x, "modelview", "modelview",
           M(Base(W), <<"screenScale">>, <<>>), <<>>)
    BY <2>1, NamesAre, AtView
  <2> HIDE DEF y
  <2> QED
    BY <1>2, <2>2, <2>3
<1>4. EndMode2D(s) = r
  BY DEF EndMode2D, x
<1> HIDE DEF r
<1>5. Rest(r) /\ Total(r) = Total(s)
  BY <1>3, MovedIs DEF At, x
<1>6. DeviceOf(r, V)
  BY <1>1, <1>3, DeviceFrame DEF Context, At
<1>7. MatricesOf(r, V)
  <2>1. Base(V) = Base(W) /\ "3D" \notin V /\ "2D" \notin V /\ ("target" \in V <=> "target" \in W)
    BY DEF Base
  <2> QED
    BY <1>3, <2>1 DEF MatricesOf, At
<1> QED
  BY <1>4, <1>5, <1>6, <1>7 DEF Context

\* The depth test is no part of the batch.
LEMMA DepthIs ==
    ASSUME NEW r, NEW x, MatrixOnly(r, x), NEW depth \in BOOLEAN
    PROVE  LET q == [r EXCEPT !.depthTest = depth] IN
           /\ q \in GLType /\ q.batch = x.batch /\ q.currentTextureId = x.currentTextureId
           /\ q.overrun = x.overrun /\ q.drawn = x.drawn /\ q.depthTest = depth
           /\ q.matrixMode = r.matrixMode /\ q.matrix = r.matrix /\ q.stack = r.stack
           /\ q.current = r.current /\ q.culling = x.culling /\ q.framebuffer = x.framebuffer
           /\ q.viewport = x.viewport /\ q.scissor = x.scissor /\ q.shader = x.shader
           /\ q.blend = x.blend /\ q.usedFactors = x.usedFactors
<1> DEFINE q == [r EXCEPT !.depthTest = depth]
<1>1. r \in GLType
  BY DEF MatrixOnly
<1>2. /\ q \in GLType /\ q.batch = r.batch /\ q.currentTextureId = r.currentTextureId
      /\ q.overrun = r.overrun /\ q.drawn = r.drawn /\ q.depthTest = depth
      /\ q.matrixMode = r.matrixMode /\ q.matrix = r.matrix /\ q.stack = r.stack
      /\ q.current = r.current /\ q.culling = r.culling /\ q.framebuffer = r.framebuffer
      /\ q.viewport = r.viewport /\ q.scissor = r.scissor /\ q.shader = r.shader
      /\ q.blend = r.blend /\ q.usedFactors = r.usedFactors
  BY <1>1 DEF GLType
<1> HIDE DEF q
<1>3. /\ r.batch = x.batch /\ r.currentTextureId = x.currentTextureId /\ r.overrun = x.overrun
      /\ r.drawn = x.drawn /\ r.culling = x.culling /\ r.framebuffer = x.framebuffer
      /\ r.viewport = x.viewport /\ r.scissor = x.scissor /\ r.shader = x.shader
      /\ r.blend = x.blend /\ r.usedFactors = x.usedFactors
  BY DEF MatrixOnly
<1> QED
  BY <1>2, <1>3 DEF q

LEMMA Mode3DBegun ==
    ASSUME NEW s, NEW W, Rest(s), Context(s, W), "2D" \notin W, "3D" \notin W
    PROVE  LET r == BeginMode3D(s) IN
           Rest(r) /\ Total(r) = Total(s) /\ Context(r, W \cup {"3D"})
<1> DEFINE x == rlDrawRenderBatch(s)
           a == rlMatrixMode(x, "projection")
           b == rlPushMatrix(a)
           c == rlFrustum(rlLoadIdentity(b), "perspective")
           d == rlMatrixMode(c, "modelview")
           e == rlMultMatrixf(rlLoadIdentity(d), "view")
           r == [e EXCEPT !.depthTest = TRUE]
           V == W \cup {"3D"}
           v == IF "target" \in W THEN <<>> ELSE <<"screenScale">>
           base == Base(W)
<1>1. /\ x \in GLType /\ At(x, x, "modelview", s.current, s.matrix, s.stack) /\ Context(x, W)
      /\ x.drawn = Total(s)
  BY ReadyIs
<1>2. /\ s.stack = <<>> /\ s.matrix = M(base, v, <<>>)
  BY DEF Context, MatricesOf
<1> HIDE DEF v, base, x
<1>3. At(x, x, "modelview", s.current, M(base, v, <<>>), <<>>)
  BY <1>1, <1>2
<1>4. "projection" \in Matrices /\ "modelview" \in Matrices
  BY DEF Matrices
<1>5. At(a, x, "projection", "projection", M(base, v, <<>>), <<>>)
  BY <1>3, <1>4, AtMode
<1>6. M(base, v, <<>>)["projection"] = base
  BY <1>5, AtType, MIs
<1> HIDE DEF a
<1>7. At(b, x, "projection", "projection", M(base, v, <<>>), <<base>>)
  <2>1. At(b, x, "projection", "projection", M(base, v, <<>>),
           Append(<<>>, M(base, v, <<>>)["projection"]))
    BY <1>5, AtPush
  <2>2. Append(<<>>, base) = <<base>>
    OBVIOUS
  <2> QED
    BY <1>6, <2>1, <2>2
<1> HIDE DEF b
<1>8. At(c, x, "projection", "projection", M(<<"perspective">>, v, <<>>), <<base>>)
  BY <1>7, NamesAre, AtProjection
<1> HIDE DEF c
<1>9. At(d, x, "modelview", "modelview", M(<<"perspective">>, v, <<>>), <<base>>)
  BY <1>4, <1>8, AtMode
<1> HIDE DEF d
<1>10. At(e, x, "modelview", "modelview", M(<<"perspective">>, <<"view">>, <<>>), <<base>>)
  BY <1>9, NamesAre, AtView
<1> HIDE DEF e
<1>11. /\ r \in GLType /\ r.batch = x.batch /\ r.currentTextureId = x.currentTextureId
       /\ r.overrun = x.overrun /\ r.drawn = x.drawn /\ r.depthTest = TRUE
       /\ r.matrixMode = e.matrixMode /\ r.matrix = e.matrix /\ r.stack = e.stack
       /\ r.current = e.current /\ r.culling = x.culling /\ r.framebuffer = x.framebuffer
       /\ r.viewport = x.viewport /\ r.scissor = x.scissor /\ r.shader = x.shader
       /\ r.blend = x.blend /\ r.usedFactors = x.usedFactors
  BY <1>10, DepthIs DEF At
<1>12. BeginMode3D(s) = r
  BY DEF BeginMode3D, r, e, d, c, b, a, x
<1> HIDE DEF r
<1>13. Rest(r) /\ Total(r) = Total(s)
  BY <1>1, <1>11, Turned DEF Rest, x
<1>14. MatricesOf(r, V)
  <2>1. Base(V) = base
    BY DEF Base, base
  <2> QED
    BY <1>10, <1>11, <2>1 DEF MatricesOf, At
<1>15. DeviceOf(r, V)
  <2>1. Target(V) = Target(W) /\ ("3D" \in V) = TRUE
    BY DEF Target
  <2>2. ("blend" \in V <=> "blend" \in W) /\ ("scissor" \in V <=> "scissor" \in W)
        /\ ("shader" \in V <=> "shader" \in W)
    OBVIOUS
  <2> HIDE DEF V
  <2> QED
    BY <1>1, <1>11, <2>1, <2>2 DEF Context, DeviceOf
<1> QED
  BY <1>12, <1>13, <1>14, <1>15 DEF Context

LEMMA Mode3DEnded ==
    ASSUME NEW s, NEW W, Rest(s), Context(s, W), "2D" \notin W, "3D" \in W
    PROVE  LET r == EndMode3D(s) IN
           Rest(r) /\ Total(r) = Total(s) /\ Context(r, W \ {"3D"})
<1> DEFINE x == rlDrawRenderBatch(s)
           a == rlMatrixMode(x, "projection")
           b == rlPopMatrix(a)
           c == rlMatrixMode(b, "modelview")
           d == rlLoadIdentity(c)
           e == IF s.framebuffer = "window" THEN rlMultMatrixf(d, "screenScale") ELSE d
           r == [e EXCEPT !.depthTest = FALSE]
           V == W \ {"3D"}
           v == IF "target" \in W THEN <<>> ELSE <<"screenScale">>
           base == Base(W)
<1>1. /\ x \in GLType /\ At(x, x, "modelview", s.current, s.matrix, s.stack) /\ Context(x, W)
      /\ x.drawn = Total(s)
  BY ReadyIs
<1>2. /\ s.stack = <<base>> /\ s.matrix = M(<<"perspective">>, <<"view">>, <<>>)
      /\ s.framebuffer = "window" <=> "target" \notin W
  BY DEF Context, MatricesOf, DeviceOf, Target
<1>3. base \in Words /\ <<base>> = Append(<<>>, base) /\ <<>> \in Seq(Words)
  <2>1. base \in Words
    BY OrthosAre, WordsAre DEF Base
  <2> QED
    BY <2>1
<1> HIDE DEF base, x
<1>4. At(x, x, "modelview", s.current, M(<<"perspective">>, <<"view">>, <<>>), Append(<<>>, base))
  BY <1>1, <1>2, <1>3
<1>5. "projection" \in Matrices /\ "modelview" \in Matrices
  BY DEF Matrices
<1>6. At(a, x, "projection", "projection", M(<<"perspective">>, <<"view">>, <<>>), Append(<<>>, base))
  BY <1>4, <1>5, AtMode
<1> HIDE DEF a
<1>7. At(b, x, "projection", "projection", M(base, <<"view">>, <<>>), <<>>)
  <2>1. At(b, x, "projection", "projection",
           With(M(<<"perspective">>, <<"view">>, <<>>), "projection", base), <<>>)
    BY <1>3, <1>6, AtPop
  <2>2. With(M(<<"perspective">>, <<"view">>, <<>>), "projection", base) = M(base, <<"view">>, <<>>)
    BY <1>3, <1>6, AtType, MIs
  <2> QED
    BY <2>1, <2>2
<1> HIDE DEF b
<1>8. At(c, x, "modelview", "modelview", M(base, <<"view">>, <<>>), <<>>)
  BY <1>5, <1>7, AtMode
<1> HIDE DEF c
<1>9. At(e, x, "modelview", "modelview", M(base, v, <<>>), <<>>)
  <2>1. At(d, x, "modelview", "modelview", M(base, <<>>, <<>>), <<>>)
    BY <1>8, AtCleared
  <2>2. At(rlMultMatrixf(d, "screenScale"), x, "modelview", "modelview",
           M(base, <<"screenScale">>, <<>>), <<>>)
    BY <1>8, NamesAre, AtView
  <2> HIDE DEF d
  <2> QED
    BY <1>2, <2>1, <2>2
<1> HIDE DEF e
<1>10. /\ r \in GLType /\ r.batch = x.batch /\ r.currentTextureId = x.currentTextureId
       /\ r.overrun = x.overrun /\ r.drawn = x.drawn /\ r.depthTest = FALSE
       /\ r.matrixMode = e.matrixMode /\ r.matrix = e.matrix /\ r.stack = e.stack
       /\ r.current = e.current /\ r.culling = x.culling /\ r.framebuffer = x.framebuffer
       /\ r.viewport = x.viewport /\ r.scissor = x.scissor /\ r.shader = x.shader
       /\ r.blend = x.blend /\ r.usedFactors = x.usedFactors
  BY <1>9, DepthIs DEF At
<1>11. EndMode3D(s) = r
  BY DEF EndMode3D, r, e, d, c, b, a, x
<1> HIDE DEF r
<1>12. Rest(r) /\ Total(r) = Total(s)
  BY <1>1, <1>10, Turned DEF Rest, x
<1>13. MatricesOf(r, V)
  <2>1. Base(V) = base /\ "3D" \notin V /\ "2D" \notin V /\ ("target" \in V <=> "target" \in W)
    BY DEF Base, base
  <2> QED
    BY <1>9, <1>10, <2>1 DEF MatricesOf, At
<1>14. DeviceOf(r, V)
  <2>1. Target(V) = Target(W) /\ ("3D" \in V) = FALSE
    BY DEF Target
  <2>2. ("blend" \in V <=> "blend" \in W) /\ ("scissor" \in V <=> "scissor" \in W)
        /\ ("shader" \in V <=> "shader" \in W)
    OBVIOUS
  <2> HIDE DEF V
  <2> QED
    BY <1>1, <1>10, <2>1, <2>2 DEF Context, DeviceOf
<1> QED
  BY <1>11, <1>12, <1>13, <1>14 DEF Context

\* The device is set differently after the batch was drawn, and then the matrices.
LEMMA SetAndMoved ==
    ASSUME NEW s, NEW W, Rest(s), Context(s, W), NEW y \in GLType,
           y.batch = rlDrawRenderBatch(s).batch,
           y.currentTextureId = rlDrawRenderBatch(s).currentTextureId,
           y.overrun = rlDrawRenderBatch(s).overrun, y.drawn = rlDrawRenderBatch(s).drawn,
           NEW r, MatrixOnly(r, y)
    PROVE  Rest(r) /\ Total(r) = Total(s)
<1> DEFINE x == rlDrawRenderBatch(s)
<1>1. x.drawn = Total(s)
  BY ReadyIs
<1>2. /\ r \in GLType /\ r.batch = x.batch /\ r.currentTextureId = x.currentTextureId
      /\ r.overrun = x.overrun /\ r.drawn = x.drawn
  BY DEF MatrixOnly
<1> HIDE DEF x
<1>3. Rest(r) /\ Total(r) = r.drawn
  BY <1>2, Turned DEF Rest, x
<1> QED
  BY <1>1, <1>2, <1>3

LEMMA TargetBegun ==
    ASSUME NEW s, NEW W, Rest(s), Context(s, W), "2D" \notin W, "3D" \notin W
    PROVE  LET r == BeginTextureMode(s) IN
           Rest(r) /\ Total(r) = Total(s) /\ Context(r, W \cup {"target"})
<1> DEFINE x == rlDrawRenderBatch(s)
           y == [x EXCEPT !.framebuffer = "target", !.viewport = "target"]
           a == rlMatrixMode(y, "projection")
           b == rlFrustum(rlLoadIdentity(a), "target ortho")
           c == rlMatrixMode(b, "modelview")
           r == rlLoadIdentity(c)
           V == W \cup {"target"}
           p == Base(W)
           v == IF "target" \in W THEN <<>> ELSE <<"screenScale">>
<1>1. x \in GLType /\ Context(x, W)
  BY ReadyIs
<1>2. x.stack = <<>> /\ x.matrix = M(p, v, <<>>)
  BY <1>1 DEF Context, MatricesOf
<1> HIDE DEF p, v, x
<1>3. /\ y \in GLType /\ y.batch = x.batch /\ y.currentTextureId = x.currentTextureId
      /\ y.overrun = x.overrun /\ y.drawn = x.drawn /\ y.matrix = x.matrix /\ y.stack = x.stack
      /\ y.framebuffer = "target" /\ y.viewport = "target" /\ y.culling = x.culling
      /\ y.depthTest = x.depthTest /\ y.scissor = x.scissor /\ y.shader = x.shader
      /\ y.blend = x.blend /\ y.usedFactors = x.usedFactors
  BY <1>1, NamesAre DEF GLType
<1> HIDE DEF y
<1>4. "projection" \in Matrices /\ "modelview" \in Matrices
  BY DEF Matrices
<1>5. At(y, y, y.matrixMode, y.current, M(p, v, <<>>), <<>>)
  BY <1>2, <1>3, AtFirst
<1>6. At(a, y, "projection", "projection", M(p, v, <<>>), <<>>)
  BY <1>4, <1>5, AtMode
<1> HIDE DEF a
<1>7. At(b, y, "projection", "projection", M(<<"target ortho">>, v, <<>>), <<>>)
  BY <1>6, OrthosAre, AtProjection
<1> HIDE DEF b
<1>8. At(c, y, "modelview", "modelview", M(<<"target ortho">>, v, <<>>), <<>>)
  BY <1>4, <1>7, AtMode
<1> HIDE DEF c
<1>9. At(r, y, "modelview", "modelview", M(<<"target ortho">>, <<>>, <<>>), <<>>)
  BY <1>8, AtCleared
<1>10. BeginTextureMode(s) = r
  BY DEF BeginTextureMode, r, c, b, a, y, x
<1> HIDE DEF r
<1>11. Rest(r) /\ Total(r) = Total(s)
  BY <1>3, <1>9, SetAndMoved DEF At, x
<1>12. "target" \in V /\ "2D" \notin V /\ "3D" \notin V /\ ("blend" \in V <=> "blend" \in W)
       /\ ("scissor" \in V <=> "scissor" \in W) /\ ("shader" \in V <=> "shader" \in W)
  OBVIOUS
<1> HIDE DEF V
<1>13. MatricesOf(r, V)
  BY <1>9, <1>12 DEF MatricesOf, At, Base
<1>14. DeviceOf(r, V)
  <2>1. DeviceOf(y, V)
    BY <1>1, <1>3, <1>12 DEF Context, DeviceOf, Target
  <2> QED
    BY <1>9, <2>1, DeviceFrame DEF At
<1> QED
  BY <1>10, <1>11, <1>13, <1>14 DEF Context, V

LEMMA TargetEnded ==
    ASSUME NEW s, NEW W, Rest(s), Context(s, W), "2D" \notin W, "3D" \notin W
    PROVE  LET r == EndTextureMode(s) IN
           Rest(r) /\ Total(r) = Total(s) /\ Context(r, W \ {"target"})
<1> DEFINE x == rlDrawRenderBatch(s)
           z == [x EXCEPT !.framebuffer = "window"]
           y == [z EXCEPT !.viewport = "window"]
           a == rlMatrixMode(y, "projection")
           b == rlFrustum(rlLoadIdentity(a), "window ortho")
           c == rlMatrixMode(b, "modelview")
           d == rlLoadIdentity(c)
           e == rlMatrixMode(d, "modelview")
           r == rlMultMatrixf(rlLoadIdentity(e), "screenScale")
           V == W \ {"target"}
           p == Base(W)
           v == IF "target" \in W THEN <<>> ELSE <<"screenScale">>
<1>1. x \in GLType /\ Context(x, W)
  BY ReadyIs
<1>2. x.stack = <<>> /\ x.matrix = M(p, v, <<>>)
  BY <1>1 DEF Context, MatricesOf
<1> HIDE DEF p, v, x
<1>3. /\ y \in GLType /\ y.batch = x.batch /\ y.currentTextureId = x.currentTextureId
      /\ y.overrun = x.overrun /\ y.drawn = x.drawn /\ y.matrix = x.matrix /\ y.stack = x.stack
      /\ y.framebuffer = "window" /\ y.viewport = "window" /\ y.culling = x.culling
      /\ y.depthTest = x.depthTest /\ y.scissor = x.scissor /\ y.shader = x.shader
      /\ y.blend = x.blend /\ y.usedFactors = x.usedFactors
  BY <1>1, NamesAre DEF GLType
<1>4. EndTextureMode(s) = r
  BY DEF EndTextureMode, SetupViewport, ScreenScaled, x
<1> HIDE DEF y
<1>5. "projection" \in Matrices /\ "modelview" \in Matrices
  BY DEF Matrices
<1>6. At(y, y, y.matrixMode, y.current, M(p, v, <<>>), <<>>)
  BY <1>2, <1>3, AtFirst
<1>7. At(a, y, "projection", "projection", M(p, v, <<>>), <<>>)
  BY <1>5, <1>6, AtMode
<1> HIDE DEF a
<1>8. At(b, y, "projection", "projection", M(<<"window ortho">>, v, <<>>), <<>>)
  BY <1>7, OrthosAre, AtProjection
<1> HIDE DEF b
<1>9. At(c, y, "modelview", "modelview", M(<<"window ortho">>, v, <<>>), <<>>)
  BY <1>5, <1>8, AtMode
<1> HIDE DEF c
<1>10. At(d, y, "modelview", "modelview", M(<<"window ortho">>, <<>>, <<>>), <<>>)
  BY <1>9, AtCleared
<1> HIDE DEF d
<1>11. At(e, y, "modelview", "modelview", M(<<"window ortho">>, <<>>, <<>>), <<>>)
  BY <1>5, <1>10, AtMode
<1> HIDE DEF e
<1>12. At(r, y, "modelview", "modelview", M(<<"window ortho">>, <<"screenScale">>, <<>>), <<>>)
  BY <1>11, NamesAre, AtView
<1> HIDE DEF r
<1>13. Rest(r) /\ Total(r) = Total(s)
  BY <1>3, <1>12, SetAndMoved DEF At, x
<1>14. "target" \notin V /\ "2D" \notin V /\ "3D" \notin V /\ ("blend" \in V <=> "blend" \in W)
       /\ ("scissor" \in V <=> "scissor" \in W) /\ ("shader" \in V <=> "shader" \in W)
  OBVIOUS
<1> HIDE DEF V
<1>15. MatricesOf(r, V)
  BY <1>12, <1>14 DEF MatricesOf, At, Base
<1>16. DeviceOf(r, V)
  <2>1. DeviceOf(y, V)
    BY <1>1, <1>3, <1>14 DEF Context, DeviceOf, Target
  <2> QED
    BY <1>12, <2>1, DeviceFrame DEF At
<1> QED
  BY <1>4, <1>13, <1>15, <1>16 DEF Context, V

\* The frame ends and the next one begins.
LEMMA FrameBegun ==
    ASSUME NEW s, NEW W, Rest(s), Context(s, W), "2D" \notin W, "3D" \notin W, "target" \notin W
    PROVE  LET r == BeginDrawing(EndDrawing(s)) IN
           Rest(r) /\ Total(r) = Total(s) /\ Context(r, W)
<1> DEFINE x == rlDrawRenderBatch(s)
           r == rlMultMatrixf(rlLoadIdentity(x), "screenScale")
<1>1. /\ At(x, x, "modelview", s.current, s.matrix, s.stack) /\ Context(x, W)
  BY ReadyIs
<1>2. /\ s.current = "modelview" /\ s.stack = <<>>
      /\ s.matrix = M(Base(W), <<"screenScale">>, <<>>)
  BY DEF Context, MatricesOf
<1> HIDE DEF x
<1>3. At(r, x, "modelview", "modelview", M(Base(W), <<"screenScale">>, <<>>), <<>>)
  BY <1>1, <1>2, NamesAre, AtView
<1> HIDE DEF r
<1>4. Rest(r) /\ Total(r) = Total(s)
  BY <1>3, MovedIs DEF At, x
<1>5. DeviceOf(r, W)
  BY <1>1, <1>3, DeviceFrame DEF Context, At
<1>6. MatricesOf(r, W)
  BY <1>3 DEF MatricesOf, At
<1> QED
  BY <1>4, <1>5, <1>6 DEF BeginDrawing, EndDrawing, ScreenScaled, r, x, Context

\* Only the device is set differently.
LEMMA SetIs ==
    ASSUME NEW s, NEW W, Rest(s), Context(s, W), NEW r \in GLType, NEW V,
           r.batch = rlDrawRenderBatch(s).batch,
           r.currentTextureId = rlDrawRenderBatch(s).currentTextureId,
           r.overrun = rlDrawRenderBatch(s).overrun, r.drawn = rlDrawRenderBatch(s).drawn,
           r.matrixMode = rlDrawRenderBatch(s).matrixMode, r.matrix = rlDrawRenderBatch(s).matrix,
           r.stack = rlDrawRenderBatch(s).stack, r.current = rlDrawRenderBatch(s).current,
           DeviceOf(r, V), \A k \in {"2D", "3D", "target"} : k \in V <=> k \in W
    PROVE  Rest(r) /\ Total(r) = Total(s) /\ Context(r, V)
<1>1. MatrixOnly(r, r)
  BY DEF MatrixOnly
<1>2. Rest(r) /\ Total(r) = Total(s)
  BY <1>1, SetAndMoved
<1>3. Context(rlDrawRenderBatch(s), W)
  BY ReadyIs
<1>4. ("2D" \in V <=> "2D" \in W) /\ ("3D" \in V <=> "3D" \in W) /\ ("target" \in V <=> "target" \in W)
  OBVIOUS
<1>5. MatricesOf(r, V)
  <2>1. Base(V) = Base(W)
    BY <1>4 DEF Base
  <2> QED
    BY <1>3, <1>4, <2>1 DEF Context, MatricesOf
<1> QED
  BY <1>2, <1>5 DEF Context

LEMMA ShaderBegun ==
    ASSUME NEW s, NEW W, Rest(s), Context(s, W), "shader" \notin W
    PROVE  LET r == rlSetShader(s, "shader") IN
           Rest(r) /\ Total(r) = Total(s) /\ Context(r, W \cup {"shader"})
<1> DEFINE x == rlDrawRenderBatch(s)
           r == [x EXCEPT !.shader = "shader"]
           V == W \cup {"shader"}
<1>1. x \in GLType /\ Context(x, W)
  BY ReadyIs
<1>2. s.shader # "shader"
  BY DEF Context, DeviceOf, Default
<1>3. rlSetShader(s, "shader") = r
  BY <1>2 DEF rlSetShader
<1> HIDE DEF x
<1>4. /\ r \in GLType /\ r.batch = x.batch /\ r.currentTextureId = x.currentTextureId
      /\ r.overrun = x.overrun /\ r.drawn = x.drawn /\ r.matrixMode = x.matrixMode
      /\ r.matrix = x.matrix /\ r.stack = x.stack /\ r.current = x.current
      /\ r.framebuffer = x.framebuffer /\ r.viewport = x.viewport /\ r.culling = x.culling
      /\ r.depthTest = x.depthTest /\ r.scissor = x.scissor /\ r.shader = "shader"
      /\ r.blend = x.blend /\ r.usedFactors = x.usedFactors
  BY <1>1, NamesAre DEF GLType
<1> HIDE DEF r
<1>5. DeviceOf(r, V)
  <2>1. /\ "shader" \in V /\ ("3D" \in V) = ("3D" \in W) /\ ("target" \in V) = ("target" \in W)
        /\ ("scissor" \in V) = ("scissor" \in W) /\ ("blend" \in V) = ("blend" \in W)
    OBVIOUS
  <2> HIDE DEF V
  <2> QED
    BY <1>1, <1>4, <2>1 DEF Context, DeviceOf, Target
<1>6. \A k \in {"2D", "3D", "target"} : k \in V <=> k \in W
  OBVIOUS
<1> HIDE DEF V
<1>7. Rest(r) /\ Total(r) = Total(s) /\ Context(r, V)
  BY <1>4, <1>5, <1>6, SetIs DEF x
<1> QED
  BY <1>3, <1>7 DEF V

LEMMA ShaderEnded ==
    ASSUME NEW s, NEW W, Rest(s), Context(s, W), "shader" \in W
    PROVE  LET r == rlSetShader(s, Default) IN
           Rest(r) /\ Total(r) = Total(s) /\ Context(r, W \ {"shader"})
<1> DEFINE x == rlDrawRenderBatch(s)
           r == [x EXCEPT !.shader = Default]
           V == W \ {"shader"}
<1>1. x \in GLType /\ Context(x, W)
  BY ReadyIs
<1>2. s.shader # Default
  BY DEF Context, DeviceOf, Default
<1>3. rlSetShader(s, Default) = r
  BY <1>2 DEF rlSetShader
<1> HIDE DEF x
<1>4. /\ r \in GLType /\ r.batch = x.batch /\ r.currentTextureId = x.currentTextureId
      /\ r.overrun = x.overrun /\ r.drawn = x.drawn /\ r.matrixMode = x.matrixMode
      /\ r.matrix = x.matrix /\ r.stack = x.stack /\ r.current = x.current
      /\ r.framebuffer = x.framebuffer /\ r.viewport = x.viewport /\ r.culling = x.culling
      /\ r.depthTest = x.depthTest /\ r.scissor = x.scissor /\ r.shader = Default
      /\ r.blend = x.blend /\ r.usedFactors = x.usedFactors
  BY <1>1, NamesAre DEF GLType
<1> HIDE DEF r
<1>5. DeviceOf(r, V)
  <2>1. /\ "shader" \notin V /\ ("3D" \in V) = ("3D" \in W) /\ ("target" \in V) = ("target" \in W)
        /\ ("scissor" \in V) = ("scissor" \in W) /\ ("blend" \in V) = ("blend" \in W)
    OBVIOUS
  <2> HIDE DEF V
  <2> QED
    BY <1>1, <1>4, <2>1 DEF Context, DeviceOf, Target
<1>6. \A k \in {"2D", "3D", "target"} : k \in V <=> k \in W
  OBVIOUS
<1> HIDE DEF V
<1>7. Rest(r) /\ Total(r) = Total(s) /\ Context(r, V)
  BY <1>4, <1>5, <1>6, SetIs DEF x
<1> QED
  BY <1>3, <1>7 DEF V

\* A blend mode is set after the batch was drawn, or it was the one that is set.
LEMMA BlendSet ==
    ASSUME NEW s, NEW W, Rest(s), Context(s, W), NEW mode \in {"ALPHA", "ADDITIVE", "CUSTOM"}, NEW V,
           mode # "ALPHA" => "blend" \in V,
           \A k \in {"2D", "3D", "target", "scissor", "shader"} : k \in V <=> k \in W
    PROVE  LET r == rlSetBlendMode(s, mode) IN
           Rest(r) /\ Total(r) = Total(s) /\ Context(r, V)
<1> DEFINE x == rlDrawRenderBatch(s)
           u == IF mode = "CUSTOM" THEN s.factors ELSE 0
           r == [x EXCEPT !.blend = mode, !.factorsModified = FALSE, !.usedFactors = u]
<1>0. /\ ("3D" \in V) = ("3D" \in W) /\ ("target" \in V) = ("target" \in W)
      /\ ("scissor" \in V) = ("scissor" \in W) /\ ("shader" \in V) = ("shader" \in W)
      /\ ("2D" \in V) = ("2D" \in W)
  OBVIOUS
<1>1. x \in GLType /\ Context(x, W)
  BY ReadyIs
<1>2. u \in Nat /\ (mode = "ALPHA" => u = 0)
  BY DEF Rest, Good, GLType
<1>3. mode \in Names
  BY NamesAre
<1>4. CASE s.blend # mode \/ (mode = "CUSTOM" /\ s.factorsModified)
  <2>1. rlSetBlendMode(s, mode) = r
    BY <1>4 DEF rlSetBlendMode
  <2> HIDE DEF x, u
  <2>2. /\ r \in GLType /\ r.batch = x.batch /\ r.currentTextureId = x.currentTextureId
        /\ r.overrun = x.overrun /\ r.drawn = x.drawn /\ r.matrixMode = x.matrixMode
        /\ r.matrix = x.matrix /\ r.stack = x.stack /\ r.current = x.current
        /\ r.framebuffer = x.framebuffer /\ r.viewport = x.viewport /\ r.culling = x.culling
        /\ r.depthTest = x.depthTest /\ r.scissor = x.scissor /\ r.shader = x.shader
        /\ r.blend = mode /\ r.usedFactors = u
    BY <1>1, <1>2, <1>3 DEF GLType
  <2> HIDE DEF r
  <2>3. DeviceOf(r, V)
    BY <1>0, <1>1, <1>2, <2>2 DEF Context, DeviceOf, Target
  <2>4. \A k \in {"2D", "3D", "target"} : k \in V <=> k \in W
    OBVIOUS
  <2>5. Rest(r) /\ Total(r) = Total(s) /\ Context(r, V)
    BY <2>2, <2>3, <2>4, SetIs DEF x
  <2> QED
    BY <2>1, <2>5
<1>5. CASE ~(s.blend # mode \/ (mode = "CUSTOM" /\ s.factorsModified))
  <2>1. rlSetBlendMode(s, mode) = s
    BY <1>5 DEF rlSetBlendMode
  <2>2. DeviceOf(s, V)
    BY <1>0, <1>5 DEF Context, DeviceOf, Target
  <2>3. MatricesOf(s, V)
    <3>1. Base(V) = Base(W)
      BY <1>0 DEF Base
    <3> QED
      BY <1>0, <3>1 DEF Context, MatricesOf
  <2> QED
    BY <2>1, <2>2, <2>3 DEF Context
<1> QED
  BY <1>4, <1>5

LEMMA ScissorSet ==
    ASSUME NEW s, NEW W, Rest(s), Context(s, W), NEW V, NEW scissor \in {"part", "all"},
           (scissor = "part") = ("scissor" \in V),
           \A k \in {"2D", "3D", "target", "shader", "blend"} : k \in V <=> k \in W
    PROVE  LET r == [rlDrawRenderBatch(s) EXCEPT !.scissor = scissor] IN
           Rest(r) /\ Total(r) = Total(s) /\ Context(r, V)
<1> DEFINE x == rlDrawRenderBatch(s)
           r == [x EXCEPT !.scissor = scissor]
<1>0. /\ ("3D" \in V) = ("3D" \in W) /\ ("target" \in V) = ("target" \in W)
      /\ ("blend" \in V) = ("blend" \in W) /\ ("shader" \in V) = ("shader" \in W)
  OBVIOUS
<1>1. x \in GLType /\ Context(x, W) /\ scissor \in Names
  BY ReadyIs, NamesAre
<1> HIDE DEF x
<1>2. /\ r \in GLType /\ r.batch = x.batch /\ r.currentTextureId = x.currentTextureId
      /\ r.overrun = x.overrun /\ r.drawn = x.drawn /\ r.matrixMode = x.matrixMode
      /\ r.matrix = x.matrix /\ r.stack = x.stack /\ r.current = x.current
      /\ r.framebuffer = x.framebuffer /\ r.viewport = x.viewport /\ r.culling = x.culling
      /\ r.depthTest = x.depthTest /\ r.scissor = scissor /\ r.shader = x.shader
      /\ r.blend = x.blend /\ r.usedFactors = x.usedFactors
  BY <1>1 DEF GLType
<1> HIDE DEF r
<1>3. DeviceOf(r, V)
  BY <1>0, <1>1, <1>2 DEF Context, DeviceOf, Target
<1>4. \A k \in {"2D", "3D", "target"} : k \in V <=> k \in W
  OBVIOUS
<1>5. Rest(r) /\ Total(r) = Total(s) /\ Context(r, V)
  BY <1>2, <1>3, <1>4, SetIs DEF x
<1> QED
  BY <1>5 DEF r, x

\* The factors are noted; nothing is drawn with them before the mode is set.
LEMMA FactorsSet ==
    ASSUME NEW s, NEW W, Rest(s), Context(s, W), NEW factors \in Nat
    PROVE  LET r == rlSetBlendFactors(s, factors) IN
           /\ Rest(r) /\ Batched(r) = Batched(s) /\ r.drawn = s.drawn /\ Context(r, W)
<1> DEFINE r == [s EXCEPT !.factors = factors, !.factorsModified = TRUE]
<1>1. CASE s.factors = factors
  BY <1>1 DEF rlSetBlendFactors
<1>2. CASE s.factors # factors
  <2>1. rlSetBlendFactors(s, factors) = r
    BY <1>2 DEF rlSetBlendFactors
  <2>2. s \in GLType /\ Good(s, DrawCalls - 1)
    BY DEF Rest, Good
  <2>3. /\ r \in GLType /\ r.batch = s.batch /\ r.currentTextureId = s.currentTextureId
        /\ r.overrun = s.overrun /\ r.drawn = s.drawn /\ r.matrixMode = s.matrixMode
        /\ r.matrix = s.matrix /\ r.stack = s.stack /\ r.current = s.current
        /\ r.framebuffer = s.framebuffer /\ r.viewport = s.viewport /\ r.culling = s.culling
        /\ r.depthTest = s.depthTest /\ r.scissor = s.scissor /\ r.shader = s.shader
        /\ r.blend = s.blend /\ r.usedFactors = s.usedFactors
    BY <2>2 DEF GLType
  <2> HIDE DEF r
  <2>4. Setting(r) = Setting(s)
    BY <2>3 DEF Setting
  <2>5. Good(r, DrawCalls - 1) /\ Batched(r) = Batched(s) /\ DrawNow(r) = DrawNow(s)
    BY <2>2, <2>3, <2>4, Untouched
  <2>6. Rest(r)
    BY <2>3, <2>5 DEF Rest
  <2>7. DeviceOf(r, W)
    BY <2>3 DEF Context, DeviceOf
  <2>8. MatricesOf(r, W)
    BY <2>3 DEF Context, MatricesOf
  <2> QED
    BY <2>1, <2>3, <2>5, <2>6, <2>7, <2>8 DEF Context
<1> QED
  BY <1>1, <1>2
-----------------------------------------------------------------------------
(* The invariant. *)

\* How the modes lie in each other.
Nested(seq) ==
    /\ seq \in Seq({"2D", "3D", "target", "shader", "blend", "scissor"})
    /\ \A i, j \in 1..Len(seq) : seq[i] = seq[j] => i = j
    /\ ~("2D" \in Within(seq) /\ "3D" \in Within(seq))
    /\ \A i, j \in 1..Len(seq) : seq[j] = "target" /\ i < j => seq[i] \notin {"2D", "3D", "scissor"}

\* The state without what the device drew, when all of it was asked for.
Forgotten(s) == [s EXCEPT !.drawn = <<>>]

IInv ==
    /\ Rest(gl) /\ gl.drawn = <<>> /\ Batched(gl) = sent /\ screen = <<>>
    /\ Context(gl, Within(open)) /\ Nested(open)

LEMMA WithinAppend ==
    ASSUME NEW D, NEW seq \in Seq(D), NEW e \in D
    PROVE  Within(Append(seq, e)) = Within(seq) \cup {e}
<1> DEFINE a == Append(seq, e)
           n == Len(seq)
<1>1. /\ a \in Seq(D) /\ Len(a) = n + 1 /\ a[n + 1] = e /\ n \in Nat
      /\ \A i \in 1..n : a[i] = seq[i]
  BY AppendProperties, LenProperties
<1>2. DOMAIN a = 1..(n + 1) /\ DOMAIN seq = 1..n
  BY <1>1, LenProperties
<1>3. 1..(n + 1) = 1..n \cup {n + 1}
  BY <1>1
<1> HIDE DEF a, n
<1> QED
  BY <1>1, <1>2, <1>3 DEF Within, a

LEMMA BelowIs ==
    ASSUME NEW seq, Nested(seq), seq # <<>>
    PROVE  /\ Nested(Below(seq)) /\ Top(seq) \in Within(seq)
           /\ Within(Below(seq)) = Within(seq) \ {Top(seq)}
           /\ Top(seq) = "target" => "2D" \notin Within(seq) /\ "3D" \notin Within(seq)
<1> DEFINE D == {"2D", "3D", "target", "shader", "blend", "scissor"}
           n == Len(seq)
           b == SubSeq(seq, 1, n - 1)
<1>1. /\ seq \in Seq(D) /\ n \in Nat /\ n >= 1 /\ DOMAIN seq = 1..n
      /\ \A i, j \in 1..n : seq[i] = seq[j] => i = j
      /\ \A i, j \in 1..n : seq[j] = "target" /\ i < j => seq[i] \notin {"2D", "3D", "scissor"}
  <2>1. seq \in Seq(D)
    BY DEF Nested
  <2>2. n \in Nat /\ DOMAIN seq = 1..n
    BY <2>1, LenProperties
  <2>3. n >= 1
    <3> HIDE DEF D
    <3>1. Len(seq) # 0
      BY <2>1, EmptySeq
    <3> QED
      BY <2>2, <3>1
  <2> QED
    BY <2>1, <2>2, <2>3 DEF Nested
<1>2. n \in Nat /\ n - 1 \in Nat /\ n - 1 <= n /\ n \in 1..n /\ 1..(n - 1) = 1..n \ {n}
  BY <1>1
<1>3. b \in Seq(D) /\ Len(b) = n - 1 /\ DOMAIN b = 1..(n - 1) /\ \A i \in 1..(n - 1) : b[i] = seq[i]
  <2> DEFINE k == n - 1
  <2>1. \A i \in 1..k : seq[i] \in D
    <3>1. \A i \in 1..n : seq[i] \in D
      BY <1>1, ElementOfSeq
    <3> QED
      BY <1>2, <3>1
  <2>2. k \in Nat
    BY <1>2
  <2> HIDE DEF k, D
  <2>3. SubSeq(seq, 1, k) \in Seq(D) /\ Len(SubSeq(seq, 1, k)) = k
        /\ \A i \in 1..k : SubSeq(seq, 1, k)[i] = seq[i]
    BY <2>1, <2>2, SubSeqProperties
  <2>4. DOMAIN SubSeq(seq, 1, k) = 1..k
    BY <2>3, LenProperties
  <2> QED
    BY <2>3, <2>4 DEF k
<1>4. Below(seq) = b /\ Top(seq) = seq[n]
  BY DEF Below, Top
<1> HIDE DEF b, n
<1>5. Within(b) = Within(seq) \ {seq[n]}
  <2>1. Within(b) = {seq[i] : i \in 1..(n - 1)}
    BY <1>3 DEF Within
  <2>2. Within(seq) = {seq[i] : i \in 1..n}
    BY <1>1 DEF Within
  <2> QED
    BY <1>1, <1>2, <2>1, <2>2
<1>6. seq[n] \in Within(seq)
  BY <1>1, <1>2 DEF Within
<1>7. Nested(b)
  <2>1. \A i \in 1..(n - 1) : i \in 1..n
    BY <1>2
  <2>2. \A i, j \in 1..(n - 1) : b[i] = b[j] => i = j
    BY <1>1, <1>3, <2>1
  <2>3. \A i, j \in 1..(n - 1) : b[j] = "target" /\ i < j => b[i] \notin {"2D", "3D", "scissor"}
    BY <1>1, <1>3, <2>1
  <2>4. ~("2D" \in Within(b) /\ "3D" \in Within(b))
    BY <1>5 DEF Nested
  <2> QED
    BY <1>3, <2>2, <2>3, <2>4 DEF Nested
<1>8. ASSUME seq[n] = "target"
      PROVE  "2D" \notin Within(seq) /\ "3D" \notin Within(seq)
  <2>1. \A i \in 1..(n - 1) : i \in 1..n /\ i < n
    BY <1>2
  <2>2. \A i \in 1..(n - 1) : seq[i] \notin {"2D", "3D", "scissor"}
    BY <1>1, <1>2, <1>8, <2>1
  <2>3. \A i \in 1..n : seq[i] \notin {"2D", "3D"}
    BY <1>2, <1>8, <2>2
  <2> QED
    BY <1>1, <2>3 DEF Within
<1> QED
  BY <1>4, <1>5, <1>6, <1>7, <1>8

LEMMA NestedAppend ==
    ASSUME Nested(open), NEW mode \in {"2D", "3D", "target", "shader", "blend", "scissor"}, May(mode)
    PROVE  Nested(Append(open, mode)) /\ Within(Append(open, mode)) = Within(open) \cup {mode}
<1> DEFINE D == {"2D", "3D", "target", "shader", "blend", "scissor"}
           n == Len(open)
           a == Append(open, mode)
<1>1. /\ open \in Seq(D) /\ n \in Nat /\ DOMAIN open = 1..n
      /\ \A i, j \in 1..n : open[i] = open[j] => i = j
      /\ \A i, j \in 1..n : open[j] = "target" /\ i < j => open[i] \notin {"2D", "3D", "scissor"}
  BY LenProperties DEF Nested
<1>2. /\ mode \notin Within(open) /\ (mode \in {"2D", "3D"} => {"2D", "3D"} \cap Within(open) = {})
      /\ (mode = "target" => {"2D", "3D", "target", "scissor"} \cap Within(open) = {})
  BY DEF May
<1>3. a \in Seq(D) /\ Len(a) = n + 1 /\ a[n + 1] = mode /\ \A i \in 1..n : a[i] = open[i]
  <2> HIDE DEF D
  <2> QED
    BY <1>1, AppendProperties DEF D
<1>4. Within(a) = Within(open) \cup {mode}
  BY <1>1, WithinAppend
<1>5. \A i \in 1..n : open[i] \in Within(open)
  BY <1>1 DEF Within
<1>6. 1..(n + 1) = 1..n \cup {n + 1} /\ \A i \in 1..n : ~(n + 1 < i) /\ i # n + 1
  BY <1>1
<1> HIDE DEF a, n
<1>7. \A i, j \in 1..(n + 1) : a[i] = a[j] => i = j
  <2> TAKE i, j \in 1..(n + 1)
  <2>1. CASE i \in 1..n /\ j \in 1..n
    BY <1>1, <1>3, <2>1
  <2>2. CASE i \in 1..n /\ j = n + 1
    BY <1>2, <1>3, <1>5, <2>2
  <2>3. CASE i = n + 1 /\ j \in 1..n
    BY <1>2, <1>3, <1>5, <2>3
  <2> QED
    BY <1>6, <2>1, <2>2, <2>3
<1>8. \A i, j \in 1..(n + 1) : a[j] = "target" /\ i < j => a[i] \notin {"2D", "3D", "scissor"}
  <2> SUFFICES ASSUME NEW i \in 1..(n + 1), NEW j \in 1..(n + 1), a[j] = "target", i < j
               PROVE  a[i] \notin {"2D", "3D", "scissor"}
    OBVIOUS
  <2>1. i \in 1..n
    BY <1>1
  <2>2. CASE j \in 1..n
    BY <1>1, <1>3, <2>1, <2>2
  <2>3. CASE j = n + 1
    <3>1. mode = "target" /\ open[i] \in Within(open) /\ a[i] = open[i]
      BY <1>3, <1>5, <2>1, <2>3
    <3> QED
      BY <1>2, <3>1
  <2> QED
    BY <1>6, <2>2, <2>3
<1>9. ~("2D" \in Within(a) /\ "3D" \in Within(a))
  BY <1>2, <1>4 DEF Nested
<1> QED
  BY <1>3, <1>4, <1>7, <1>8, <1>9 DEF Nested, a

LEMMA ForgottenIs ==
    ASSUME NEW s, NEW W, Rest(s), Context(s, W)
    PROVE  LET r == Forgotten(s) IN
           Rest(r) /\ r.drawn = <<>> /\ Batched(r) = Batched(s) /\ Context(r, W)
<1> DEFINE r == Forgotten(s)
<1>1. s \in GLType /\ Good(s, DrawCalls - 1)
  BY DEF Rest, Good
<1>2. /\ r \in GLType /\ r.batch = s.batch /\ r.currentTextureId = s.currentTextureId
      /\ r.overrun = s.overrun /\ r.drawn = <<>> /\ SameContext(r, s)
  <2>1. r \in GLType /\ r.drawn = <<>>
    <3> DEFINE none == <<>>
    <3>1. none \in Seq(OnScreen) /\ r = [s EXCEPT !.drawn = none]
      BY DEF Forgotten
    <3> HIDE DEF none, r
    <3>2. r \in GLType /\ r.drawn = none
      BY <1>1, <3>1 DEF GLType
    <3> QED
      BY <3>2 DEF none
  <2>2. SameContext(r, s)
    BY <1>1 DEF Forgotten, GLType, SameContext
  <2>3. /\ r.batch = s.batch /\ r.currentTextureId = s.currentTextureId
        /\ r.overrun = s.overrun
    BY <1>1 DEF Forgotten, GLType
  <2> QED
    BY <2>1, <2>2, <2>3
<1> HIDE DEF r
<1>3. Setting(r) = Setting(s) /\ SameView(r, s) /\ r.current = s.current
  BY <1>2, SameSetting DEF SameContext, SameView
<1>4. Good(r, DrawCalls - 1) /\ Batched(r) = Batched(s) /\ DrawNow(r) = DrawNow(s)
  BY <1>1, <1>2, <1>3, SameBatch
<1>5. Rest(r)
  BY <1>2, <1>4 DEF Rest
<1>6. Context(r, W)
  BY <1>3, ContextFrame
<1> QED
  BY <1>2, <1>4, <1>5, <1>6 DEF r

\* What was sent is what there was and what is drawn now: nothing else is noted.
LEMMA Kept ==
    ASSUME IInv, NEW r, Rest(r), NEW primitives \in Seq(OnScreen), Total(r) = Total(gl) \o primitives,
           Matched(r, primitives), Context(r, Within(open')), Nested(open')
    PROVE  IInv'
<1>1. Total(gl) = sent /\ sent \in Seq(OnScreen)
  <2>1. gl \in GLType
    BY DEF IInv, Rest, Good
  <2>2. sent \in Seq(OnScreen)
    BY <2>1, TotalType DEF IInv
  <2>3. <<>> \o sent = sent
    BY <2>2, ConcatEmptySeq
  <2> QED
    BY <2>2, <2>3 DEF IInv, Total
<1>2. Total(r) = sent \o primitives /\ screen = <<>> /\ Good(r, DrawCalls - 1)
  BY <1>1 DEF IInv, Rest
<1>3. gl' = Forgotten(r) /\ sent' = Batched(r) /\ screen' = <<>>
  <2> DEFINE n == DrawCalls - 1
  <2>1. Good(r, n)
    BY <1>2
  <2> HIDE DEF n
  <2> QED
    BY <1>1, <1>2, <2>1, MatchedIs DEF Forgotten
<1>4. PICK f : f = Forgotten(r)
  OBVIOUS
<1>5. Rest(f) /\ f.drawn = <<>> /\ Batched(f) = Batched(r) /\ Context(f, Within(open'))
  <2>1. PICK W : W = Within(open')
    OBVIOUS
  <2> QED
    BY <1>4, <2>1, ForgottenIs
<1>6. gl' = f /\ sent' = Batched(f)
  BY <1>3, <1>4, <1>5
<1>7. Rest(gl)' /\ (gl.drawn = <<>>)' /\ (Batched(gl) = sent)'
  <2>1. Rest(gl') /\ gl'.drawn = <<>> /\ Batched(gl') = sent'
    BY <1>5, <1>6
  <2> QED
    BY <2>1
<1>8. Context(gl, Within(open))'
  <2>1. Context(gl', Within(open'))
    BY <1>5, <1>6
  <2> QED
    BY <2>1
<1>9. Nested(open)'
  OBVIOUS
<1> QED
  BY <1>3, <1>7, <1>8, <1>9 DEF IInv

\* The modes stay; nothing is drawn.
LEMMA NothingSent ==
    ASSUME NEW s, s \in GLType
    PROVE  Total(s) \o <<>> = Total(s) /\ <<>> \in Seq(OnScreen)
BY TotalType, ConcatEmptySeq

LEMMA InitIsBlank ==
    ASSUME Init
    PROVE  IInv
<1> DEFINE g == rlglInit
           x == rlMultMatrixf(rlLoadIdentity(g), "screenScale")
<1>1. rlLoadRenderBatch \in Batches
  <2>1. EmptyDraw \in Draw
    BY DEF EmptyDraw, Draw, Modes, TextureIds
  <2>2. <<>> \in Seq(Vertex \cup {Gap}) /\ 1 \in 1..DrawCalls
    BY BatchAssumption
  <2> QED
    BY <2>1, <2>2 DEF rlLoadRenderBatch, Batches
<1>2. rlLoadRenderBatch.drawCounter = 1 /\ rlLoadRenderBatch.vertices = <<>>
      /\ \A i \in 1..DrawCalls : rlLoadRenderBatch.draws[i] = EmptyDraw
  BY DEF rlLoadRenderBatch
<1>3. /\ g.batch = rlLoadRenderBatch /\ g.currentTextureId = Default /\ g.shader = Default
      /\ g.matrixMode = "modelview" /\ g.current = "modelview"
      /\ g.matrix = M(<<"window ortho">>, <<>>, <<>>) /\ g.stack = <<>>
      /\ g.blend = "ALPHA" /\ g.usedFactors = 0
      /\ g.framebuffer = "window" /\ g.viewport = "window" /\ g.scissor = "all"
      /\ g.depthTest = FALSE /\ g.culling = TRUE /\ g.overrun = FALSE /\ g.drawn = <<>>
  BY DEF rlglInit, M, Identity
<1>4. g \in GLType
  <2>1. g = [batch |-> rlLoadRenderBatch, currentTextureId |-> Default, shader |-> Default,
             matrixMode |-> "modelview", current |-> "modelview", transformRequired |-> FALSE,
             matrix |-> [projection |-> <<"window ortho">>, modelview |-> <<>>, transform |-> <<>>],
             stack |-> <<>>, color |-> "none", normal |-> <<>>, texcoord |-> 0,
             blend |-> "ALPHA", factors |-> 0, factorsModified |-> FALSE,
             usedFactors |-> 0, framebuffer |-> "window", viewport |-> "window", scissor |-> "all",
             depthTest |-> FALSE, culling |-> TRUE, overrun |-> FALSE, drawn |-> <<>>]
    BY DEF rlglInit, Identity
  <2>2. [projection |-> <<"window ortho">>, modelview |-> <<>>, transform |-> <<>>]
          \in [projection : Words, modelview : Words, transform : Words]
    BY OrthosAre, WordsAre
  <2>3. "modelview" \in Matrices /\ Default \in TextureIds /\ <<>> \in Seq(Words)
        /\ <<>> \in Seq(OnScreen) /\ <<>> \in Words
    BY WordsAre DEF Matrices, TextureIds
  <2> HIDE DEF g
  <2> QED
    BY <1>1, <2>1, <2>2, <2>3, NamesAre DEF GLType
<1>5. gl = x
  BY DEF Init, BeginDrawing, ScreenScaled
<1> HIDE DEF g
<1>6. At(g, g, "modelview", "modelview", M(<<"window ortho">>, <<>>, <<>>), <<>>)
  BY <1>3, <1>4, AtFirst
<1>7. At(x, g, "modelview", "modelview", M(<<"window ortho">>, <<"screenScale">>, <<>>), <<>>)
  BY <1>6, NamesAre, AtView
<1> HIDE DEF x
<1>8. /\ gl \in GLType /\ gl.batch = rlLoadRenderBatch /\ gl.overrun = FALSE /\ gl.drawn = <<>>
      /\ gl.currentTextureId = Default
  BY <1>3, <1>5, <1>7 DEF At, MatrixOnly
<1>9. /\ gl.batch.drawCounter = 1 /\ gl.batch.vertices = <<>>
      /\ \A i \in 1..DrawCalls : gl.batch.draws[i].count = 0 /\ gl.batch.draws[i].mode = "QUADS"
  BY <1>2, <1>8 DEF EmptyDraw
<1>10. Good(gl, 1) /\ Batched(gl) = <<>>
  BY <1>8, <1>9, BlankIsGood
<1>11. Rest(gl)
  <2>1. 1 <= DrawCalls - 1 /\ 1 \in 1..DrawCalls /\ DrawCalls \in Nat
    BY BatchAssumption
  <2>2. Good(gl, DrawCalls - 1)
    BY <1>9, <1>10, <2>1 DEF Good
  <2>3. DrawNow(gl).mode = "QUADS"
    BY <1>9, <2>1 DEF DrawNow
  <2> QED
    BY <1>8, <2>2, <2>3 DEF Rest
<1>12. Within(open) = {} /\ Nested(open)
  BY DEF Init, Within, Nested
<1>13. Context(gl, {})
  <2>1. MatricesOf(gl, {})
    BY <1>5, <1>7 DEF MatricesOf, At, Base
  <2>2. DeviceOf(gl, {})
    <3>1. MatrixOnly(gl, g)
      BY <1>5, <1>7 DEF At
    <3>2. /\ g.shader = Default /\ g.blend = "ALPHA" /\ g.usedFactors = 0
          /\ g.framebuffer = "window" /\ g.viewport = "window" /\ g.scissor = "all"
          /\ g.depthTest = FALSE /\ g.culling = TRUE
      BY <1>3
    <3>3. /\ gl.shader = Default /\ gl.blend = "ALPHA" /\ gl.usedFactors = 0
          /\ gl.framebuffer = "window" /\ gl.viewport = "window" /\ gl.scissor = "all"
          /\ gl.depthTest = FALSE /\ gl.culling = TRUE
      BY <3>1, <3>2 DEF MatrixOnly
    <3>4. PICK W : W = {}
      OBVIOUS
    <3>5. /\ ("3D" \in W) = FALSE /\ "target" \notin W /\ "scissor" \notin W
          /\ "shader" \notin W
      BY <3>4
    <3>6. DeviceOf(gl, W)
      BY <3>3, <3>5 DEF DeviceOf, Target
    <3> QED
      BY <3>4, <3>6
  <2> QED
    BY <2>1, <2>2 DEF Context
<1> QED
  BY <1>8, <1>10, <1>11, <1>12, <1>13 DEF Init, IInv
-----------------------------------------------------------------------------
(* The steps. *)

\* The colour of what is drawn next.
LEMMA ColouredIs ==
    ASSUME NEW g, NEW W, Rest(g), Context(g, W), NEW color \in Names,
           NEW s, s = rlColor4ub(g, color)
    PROVE  /\ Rest(s) /\ SameContext(s, g) /\ Setting(s) = Setting(g) /\ Total(s) = Total(g)
           /\ s.color = color /\ s.normal = g.normal /\ s.matrix.transform = Identity
           /\ s.matrixMode = "modelview" /\ ("3D" \in W => s.stack # <<>>)
<1>1. /\ Good(s, DrawCalls - 1) /\ SameContext(s, g) /\ Total(s) = Total(g)
      /\ DrawNow(s) = DrawNow(g) /\ s.color = color /\ s.normal = g.normal
      /\ s.currentTextureId = g.currentTextureId
  BY ColorIs DEF Rest
<1>2. Rest(s)
  BY <1>1 DEF Rest
<1>3. /\ s.matrix = g.matrix /\ s.matrixMode = g.matrixMode /\ s.stack = g.stack
  BY <1>1 DEF SameContext
<1>4. g.matrix.transform = <<>> /\ g.matrixMode = "modelview"
  BY DEF Context, MatricesOf, M
<1>5. "3D" \in W => g.stack # <<>>
  BY DEF Context, MatricesOf
<1> QED
  BY <1>1, <1>2, <1>3, <1>4, <1>5, SameSetting DEF Identity

\* What a program draws is a picture of the screen.
Given(n, color, normal, transform) ==
    [i \in 1..n |-> [at |-> i, transform |-> transform, color |-> color, texcoord |-> i,
                     normal |-> normal]]

LEMMA PrimitiveType ==
    ASSUME NEW s \in GLType, NEW mode \in Modes, NEW texture \in TextureIds, NEW n \in Nat,
           NEW color \in Names, NEW normal \in Words, NEW transform \in Words
    PROVE  Primitive(mode, texture, Given(n, color, normal, transform), Setting(s)) \in OnScreen
<1> DEFINE V(i) == [at |-> i, transform |-> transform, color |-> color, texcoord |-> i,
                    normal |-> normal]
           vs == [i \in 1..n |-> V(i)]
<1>1. \A i \in 1..n : V(i) \in Vertex
  BY DEF Vertex
<1>2. vs \in Seq(Vertex \cup {Gap} \cup Words)
  <2>1. \A i \in 1..n : V(i) \in Vertex \cup {Gap} \cup Words
    BY <1>1
  <2> HIDE DEF V, Vertex, Words
  <2> QED
    BY <2>1
<1>3. Setting(s) \in Settings
  BY SettingType
<1> HIDE DEF vs
<1>4. Primitive(mode, texture, vs, Setting(s)) \in OnScreen
  BY <1>2, <1>3 DEF Primitive, OnScreen
<1> QED
  BY <1>4 DEF Given, vs

LEMMA RepeatedType ==
    ASSUME NEW D, NEW e \in D, NEW n \in Nat
    PROVE  Repeated(e, n) \in Seq(D)
BY DEF Repeated

LEMMA ShapeKept ==
    ASSUME IInv, NEW texture \in TextureIds, NEW quads \in Nat, Shape(texture, quads)
    PROVE  IInv'
<1> DEFINE s == rlColor4ub(gl, "tint")
           r == DrawQuads(s, texture, quads)
           P == Primitive("QUADS", texture, Asked(s, 4, Identity, Identity), Setting(gl))
           W == Within(open)
<1>0. Rest(gl) /\ Context(gl, W) /\ Nested(open) /\ gl \in GLType /\ open' = open
  BY DEF IInv, Rest, Good, Shape
<1>1. Matched(r, [i \in 1..quads |-> P])
  BY DEF Shape
<1>2. Matched(r, Repeated(P, quads))
  BY <1>1 DEF Repeated
<1>3. /\ Rest(s) /\ SameContext(s, gl) /\ Setting(s) = Setting(gl) /\ Total(s) = Total(gl)
      /\ s.color = "tint" /\ s.matrix.transform = Identity
  <2>1. PICK color \in Names : color = "tint"
    BY NamesAre
  <2> HIDE DEF W, s
  <2>2. s = rlColor4ub(gl, color)
    BY <2>1 DEF s
  <2>3. /\ Rest(s) /\ SameContext(s, gl) /\ Setting(s) = Setting(gl) /\ Total(s) = Total(gl)
        /\ s.color = color /\ s.normal = gl.normal /\ s.matrix.transform = Identity
        /\ s.matrixMode = "modelview" /\ ("3D" \in W => s.stack # <<>>)
    BY <1>0, <2>2, ColouredIs
  <2> QED
    BY <1>0, <2>1, <2>3
<1>4. P \in OnScreen
  <2>1. "QUADS" \in Modes /\ "tint" \in Names /\ 4 \in Nat /\ Identity \in Words
    BY NamesAre, WordsAre DEF Modes, Identity
  <2> HIDE DEF s
  <2>2. P = Primitive("QUADS", texture, Given(4, s.color, Identity, Identity), Setting(gl))
    BY DEF Asked, Given
  <2> HIDE DEF P
  <2> QED
    BY <1>0, <1>3, <2>1, <2>2, PrimitiveType
<1> HIDE DEF s, W
<1>5. /\ Rest(r) /\ SameContext(r, s)
      /\ Total(r) = Total(s) \o Repeated(Primitive("QUADS", texture,
                                           Asked(s, 4, Identity, Identity), Setting(s)), quads)
  BY <1>3, QuadsDrawn
<1> HIDE DEF r
<1>6. Total(r) = Total(gl) \o Repeated(P, quads)
  BY <1>3, <1>5, Zenon
<1>7. Context(r, W)
  <2>1. SameView(r, gl) /\ r.current = gl.current
    BY <1>3, <1>5 DEF SameContext, SameView
  <2> QED
    BY <1>0, <2>1, ContextFrame
<1> HIDE DEF P
<1>8. Repeated(P, quads) \in Seq(OnScreen)
  BY <1>4, RepeatedType
<1>9. Context(r, Within(open')) /\ Nested(open')
  BY <1>0, <1>7 DEF W
<1> DEFINE sends == Repeated(P, quads)
<1>10. sends \in Seq(OnScreen) /\ Total(r) = Total(gl) \o sends /\ Matched(r, sends)
  BY <1>2, <1>6, <1>8
<1> HIDE DEF sends
<1> QED
  BY <1>5, <1>9, <1>10, Kept

LEMMA LineKept ==
    ASSUME IInv, Line
    PROVE  IInv'
<1> DEFINE s == rlColor4ub(gl, "white")
           r == DrawLine3D(s)
           given(color, normal) == [i \in 1..2 |-> [at |-> i, transform |-> Identity,
                                      color |-> color, texcoord |-> i, normal |-> normal]]
           P == Primitive("LINES", Default, given("white", gl.normal), Setting(gl))
           W == Within(open)
<1>0. Rest(gl) /\ Context(gl, W) /\ Nested(open) /\ gl \in GLType /\ open' = open
  BY DEF IInv, Rest, Good, Line
<1>1. Matched(r, <<P>>)
  BY DEF Line
<1>2. /\ Rest(s) /\ SameContext(s, gl) /\ Setting(s) = Setting(gl) /\ Total(s) = Total(gl)
      /\ s.color = "white" /\ s.normal = gl.normal /\ s.matrix.transform = Identity
  <2>1. PICK color \in Names : color = "white"
    BY NamesAre
  <2> HIDE DEF W, s
  <2>2. s = rlColor4ub(gl, color)
    BY <2>1 DEF s
  <2>3. /\ Rest(s) /\ SameContext(s, gl) /\ Setting(s) = Setting(gl) /\ Total(s) = Total(gl)
        /\ s.color = color /\ s.normal = gl.normal /\ s.matrix.transform = Identity
        /\ s.matrixMode = "modelview" /\ ("3D" \in W => s.stack # <<>>)
    BY <1>0, <2>2, ColouredIs
  <2> QED
    BY <1>0, <2>1, <2>3
<1>3. P \in OnScreen
  <2>1. "LINES" \in Modes /\ "white" \in Names /\ 2 \in Nat /\ Identity \in Words
        /\ Default \in TextureIds /\ gl.normal \in Words
    BY <1>0, NamesAre, WordsAre DEF Modes, Identity, TextureIds, GLType
  <2>2. P = Primitive("LINES", Default, Given(2, "white", gl.normal, Identity), Setting(gl))
    BY DEF Given
  <2> HIDE DEF P
  <2> QED
    BY <1>0, <2>1, <2>2, PrimitiveType
<1> HIDE DEF s, W
<1>4. /\ Rest(r) /\ SameContext(r, s)
      /\ Total(r) = Append(Total(s), Primitive("LINES", Default, given(s.color, s.normal), Setting(s)))
  BY <1>2, LineDrawn
<1> HIDE DEF r
<1>5. Total(r) = Append(Total(gl), P)
  BY <1>2, <1>4, Zenon
<1> HIDE DEF P
<1>6. Total(r) = Total(gl) \o <<P>> /\ <<P>> \in Seq(OnScreen)
  BY <1>0, <1>3, <1>5, OneOf, TotalType, AppendIsConcat
<1>7. Context(r, W)
  <2>1. SameView(r, gl) /\ r.current = gl.current
    BY <1>2, <1>4 DEF SameContext, SameView
  <2> QED
    BY <1>0, <2>1, ContextFrame
<1>8. Context(r, Within(open')) /\ Nested(open')
  BY <1>0, <1>7 DEF W
<1> DEFINE sends == <<P>>
<1>9. sends \in Seq(OnScreen) /\ Total(r) = Total(gl) \o sends /\ Matched(r, sends)
  BY <1>1, <1>6
<1> HIDE DEF sends
<1> QED
  BY <1>4, <1>8, <1>9, Kept

LEMMA CubeKept ==
    ASSUME IInv, NEW triangles \in Nat, Cube(triangles)
    PROVE  IInv'
<1> DEFINE s == rlColor4ub(gl, "white")
           moved == <<"translation">>
           r == DrawCube(s, triangles)
           P == Primitive("TRIANGLES", Default, Asked(s, 3, moved, moved), Setting(gl))
           W == Within(open)
<1>0. Rest(gl) /\ Context(gl, W) /\ Nested(open) /\ gl \in GLType /\ open' = open /\ "3D" \in W
  BY DEF IInv, Rest, Good, Cube, InMode3D
<1>1. Matched(r, [i \in 1..triangles |-> P])
  BY DEF Cube
<1>2. Matched(r, Repeated(P, triangles))
  BY <1>1 DEF Repeated
<1>3. /\ Rest(s) /\ SameContext(s, gl) /\ Setting(s) = Setting(gl) /\ Total(s) = Total(gl)
      /\ s.color = "white" /\ s.matrix.transform = Identity /\ s.matrixMode = "modelview"
      /\ s.stack # <<>>
  <2>1. PICK color \in Names : color = "white"
    BY NamesAre
  <2> HIDE DEF W, s
  <2>2. s = rlColor4ub(gl, color)
    BY <2>1 DEF s
  <2>3. /\ Rest(s) /\ SameContext(s, gl) /\ Setting(s) = Setting(gl) /\ Total(s) = Total(gl)
        /\ s.color = color /\ s.normal = gl.normal /\ s.matrix.transform = Identity
        /\ s.matrixMode = "modelview" /\ ("3D" \in W => s.stack # <<>>)
    BY <1>0, <2>2, ColouredIs
  <2> QED
    BY <1>0, <2>1, <2>3
<1>4. P \in OnScreen
  <2>1. "TRIANGLES" \in Modes /\ "white" \in Names /\ 3 \in Nat /\ moved \in Words
        /\ Default \in TextureIds
    <3>1. "translation" \in Names
      BY DEF Names
    <3> QED
      BY <3>1, NamesAre, WordsAre DEF Modes, TextureIds
  <2> HIDE DEF s, moved
  <2>2. P = Primitive("TRIANGLES", Default, Given(3, s.color, moved, moved), Setting(gl))
    BY DEF Asked, Given
  <2> HIDE DEF P
  <2> QED
    BY <1>0, <1>3, <2>1, <2>2, PrimitiveType
<1> HIDE DEF s, W
<1>5. /\ Rest(r) /\ SameView(r, s) /\ r.current = "transform"
      /\ Total(r) = Total(s) \o Repeated(Primitive("TRIANGLES", Default,
                                           Asked(s, 3, moved, moved), Setting(s)), triangles)
  BY <1>3, CubeDrawn
<1> HIDE DEF r
<1>6. Total(r) = Total(gl) \o Repeated(P, triangles)
  BY <1>3, <1>5, Zenon
<1>7. Context(r, W)
  <2>1. SameView(r, gl)
    BY <1>3, <1>5 DEF SameContext, SameView
  <2> QED
    BY <1>0, <1>5, <2>1, ContextFrame
<1> HIDE DEF P
<1>8. Repeated(P, triangles) \in Seq(OnScreen)
  BY <1>4, RepeatedType
<1>9. Context(r, Within(open')) /\ Nested(open')
  BY <1>0, <1>7 DEF W
<1> DEFINE sends == Repeated(P, triangles)
<1>10. sends \in Seq(OnScreen) /\ Total(r) = Total(gl) \o sends /\ Matched(r, sends)
  BY <1>2, <1>6, <1>8
<1> HIDE DEF sends
<1> QED
  BY <1>5, <1>9, <1>10, Kept

LEMMA MeshKept ==
    ASSUME IInv, NEW culling \in BOOLEAN, Mesh(culling)
    PROVE  IInv'
<1> DEFINE r == DrawMeshes(gl, culling)
           P == Primitive("MESH", "material", << <<"mesh">> >>,
                          [Setting(gl) EXCEPT !.shader = "material", !.culling = culling])
           W == Within(open)
<1>0. Rest(gl) /\ Context(gl, W) /\ Nested(open) /\ gl \in GLType /\ open' = open
  BY DEF IInv, Rest, Good, Mesh
<1>1. Matched(r, <<P>>)
  BY DEF Mesh
<1>2. gl.culling = TRUE /\ gl.matrix.transform = Identity
  BY <1>0 DEF Context, MatricesOf, DeviceOf, M, Identity
<1>3. Rest(r) /\ SameContext(r, gl) /\ Total(r) = Append(Total(gl), P) /\ P \in OnScreen
  BY <1>0, <1>2, MeshDrawn
<1> HIDE DEF r, P, W
<1>4. Total(r) = Total(gl) \o <<P>> /\ <<P>> \in Seq(OnScreen)
  BY <1>0, <1>3, OneOf, TotalType, AppendIsConcat
<1>5. Context(r, W)
  <2>1. SameView(r, gl) /\ r.current = gl.current
    BY <1>3 DEF SameContext, SameView
  <2> QED
    BY <1>0, <2>1, ContextFrame
<1>6. Context(r, Within(open')) /\ Nested(open')
  BY <1>0, <1>5 DEF W
<1> DEFINE sends == <<P>>
<1>7. sends \in Seq(OnScreen) /\ Total(r) = Total(gl) \o sends /\ Matched(r, sends)
  BY <1>1, <1>4
<1> HIDE DEF sends
<1> QED
  BY <1>3, <1>6, <1>7, Kept

LEMMA ClearKept ==
    ASSUME IInv, Clear
    PROVE  IInv'
<1> DEFINE r == ClearBackground(gl)
           P == [clear |-> gl.framebuffer, scissor |-> gl.scissor]
           W == Within(open)
<1>0. Rest(gl) /\ Context(gl, W) /\ Nested(open) /\ gl \in GLType /\ open' = open
  BY DEF IInv, Rest, Good, Clear
<1>1. Matched(r, <<P>>)
  BY DEF Clear
<1>2. Rest(r) /\ SameContext(r, gl) /\ Total(r) = Append(Total(gl), P) /\ P \in OnScreen
  BY <1>0, ClearDrawn
<1> HIDE DEF r, P, W
<1>3. Total(r) = Total(gl) \o <<P>> /\ <<P>> \in Seq(OnScreen)
  BY <1>0, <1>2, OneOf, TotalType, AppendIsConcat
<1>4. Context(r, W)
  <2>1. SameView(r, gl) /\ r.current = gl.current
    BY <1>2 DEF SameContext, SameView
  <2> QED
    BY <1>0, <2>1, ContextFrame
<1>5. Context(r, Within(open')) /\ Nested(open')
  BY <1>0, <1>4 DEF W
<1> DEFINE sends == <<P>>
<1>6. sends \in Seq(OnScreen) /\ Total(r) = Total(gl) \o sends /\ Matched(r, sends)
  BY <1>1, <1>3
<1> HIDE DEF sends
<1> QED
  BY <1>2, <1>5, <1>6, Kept

\* Nothing is drawn when modes change; what was drawn before is.
LEMMA SentNothing ==
    ASSUME IInv, NEW r, Rest(r), Total(r) = Total(gl), Matched(r, <<>>),
           Context(r, Within(open')), Nested(open')
    PROVE  IInv'
<1>1. gl \in GLType
  BY DEF IInv, Rest, Good
<1>2. Total(r) = Total(gl) \o <<>> /\ <<>> \in Seq(OnScreen)
  BY <1>1, NothingSent
<1> DEFINE sends == <<>>
<1>3. sends \in Seq(OnScreen) /\ Total(r) = Total(gl) \o sends /\ Matched(r, sends)
  BY <1>2
<1> HIDE DEF sends
<1> QED
  BY <1>3, Kept

LEMMA EnterKept ==
    ASSUME IInv, NEW mode \in {"2D", "3D", "target", "shader", "blend", "scissor"}, May(mode),
           NEW r, Rest(r), Total(r) = Total(gl), Context(r, Within(open) \cup {mode}),
           Enter(mode, r)
    PROVE  IInv'
<1>1. Matched(r, <<>>) /\ open' = Append(open, mode)
  BY DEF Enter
<1>2. Nested(Append(open, mode)) /\ Within(Append(open, mode)) = Within(open) \cup {mode}
  BY NestedAppend DEF IInv
<1>3. Context(r, Within(open')) /\ Nested(open')
  BY <1>1, <1>2
<1> QED
  BY <1>1, <1>3, SentNothing

LEMMA LeaveKept ==
    ASSUME IInv, NEW mode, NEW r, Leave(mode, r),
           "2D" \in Within(open) => "3D" \notin Within(open),
           mode \in Within(open) /\ (mode = "target" => "2D" \notin Within(open) /\ "3D" \notin Within(open))
              => Rest(r) /\ Total(r) = Total(gl) /\ Context(r, Within(open) \ {mode})
    PROVE  IInv'
<1>1. open # <<>> /\ Top(open) = mode /\ Matched(r, <<>>) /\ open' = Below(open)
  BY DEF Leave
<1>2. /\ Nested(Below(open)) /\ mode \in Within(open)
      /\ Within(Below(open)) = Within(open) \ {mode}
      /\ mode = "target" => "2D" \notin Within(open) /\ "3D" \notin Within(open)
  BY <1>1, BelowIs DEF IInv
<1>3. Rest(r) /\ Total(r) = Total(gl) /\ Context(r, Within(open) \ {mode})
  BY <1>2
<1>4. Context(r, Within(open')) /\ Nested(open')
  BY <1>1, <1>2, <1>3
<1> QED
  BY <1>1, <1>3, <1>4, SentNothing

LEMMA ModeKept ==
    ASSUME IInv, Mode
    PROVE  IInv'
<1> DEFINE W == Within(open)
<1>0. Rest(gl) /\ Context(gl, W) /\ ("2D" \in W => "3D" \notin W)
  BY DEF IInv, Nested
<1>1. CASE May("2D") /\ Enter("2D", BeginMode2D(gl))
  <2>1. "2D" \notin W /\ "3D" \notin W
    BY <1>1 DEF May
  <2>2. PICK r : r = BeginMode2D(gl)
    OBVIOUS
  <2> HIDE DEF W
  <2>3. Rest(r) /\ Total(r) = Total(gl) /\ Context(r, W \cup {"2D"})
    BY <1>0, <2>1, <2>2, Mode2DBegun
  <2> QED
    BY <1>1, <2>2, <2>3, EnterKept DEF W
<1>2. CASE Leave("2D", EndMode2D(gl))
  <2>1. PICK r : r = EndMode2D(gl)
    OBVIOUS
  <2> HIDE DEF W
  <2>2. "2D" \in W => Rest(r) /\ Total(r) = Total(gl) /\ Context(r, W \ {"2D"})
    BY <1>0, <2>1, Mode2DEnded
  <2> QED
    BY <1>0, <1>2, <2>1, <2>2, LeaveKept DEF W
<1>3. CASE May("3D") /\ Enter("3D", BeginMode3D(gl))
  <2>1. "2D" \notin W /\ "3D" \notin W
    BY <1>3 DEF May
  <2>2. PICK r : r = BeginMode3D(gl)
    OBVIOUS
  <2> HIDE DEF W
  <2>3. Rest(r) /\ Total(r) = Total(gl) /\ Context(r, W \cup {"3D"})
    BY <1>0, <2>1, <2>2, Mode3DBegun
  <2> QED
    BY <1>3, <2>2, <2>3, EnterKept DEF W
<1>4. CASE Leave("3D", EndMode3D(gl))
  <2>1. PICK r : r = EndMode3D(gl)
    OBVIOUS
  <2> HIDE DEF W
  <2>2. "3D" \in W => Rest(r) /\ Total(r) = Total(gl) /\ Context(r, W \ {"3D"})
    BY <1>0, <2>1, Mode3DEnded
  <2> QED
    BY <1>0, <1>4, <2>1, <2>2, LeaveKept DEF W
<1>5. CASE May("target") /\ Enter("target", BeginTextureMode(gl))
  <2>1. "2D" \notin W /\ "3D" \notin W
    BY <1>5 DEF May
  <2>2. PICK r : r = BeginTextureMode(gl)
    OBVIOUS
  <2> HIDE DEF W
  <2>3. Rest(r) /\ Total(r) = Total(gl) /\ Context(r, W \cup {"target"})
    BY <1>0, <2>1, <2>2, TargetBegun
  <2> QED
    BY <1>5, <2>2, <2>3, EnterKept DEF W
<1>6. CASE Leave("target", EndTextureMode(gl))
  <2>1. PICK r : r = EndTextureMode(gl)
    OBVIOUS
  <2> HIDE DEF W
  <2>2. "2D" \notin W /\ "3D" \notin W
          => Rest(r) /\ Total(r) = Total(gl) /\ Context(r, W \ {"target"})
    BY <1>0, <2>1, TargetEnded
  <2> QED
    BY <1>0, <1>6, <2>1, <2>2, LeaveKept DEF W
<1>7. CASE May("shader") /\ Enter("shader", rlSetShader(gl, "shader"))
  <2>1. "shader" \notin W
    BY <1>7 DEF May
  <2>2. PICK r : r = rlSetShader(gl, "shader")
    OBVIOUS
  <2> HIDE DEF W
  <2>3. Rest(r) /\ Total(r) = Total(gl) /\ Context(r, W \cup {"shader"})
    BY <1>0, <2>1, <2>2, ShaderBegun
  <2> QED
    BY <1>7, <2>2, <2>3, EnterKept DEF W
<1>8. CASE Leave("shader", rlSetShader(gl, Default))
  <2>1. PICK r : r = rlSetShader(gl, Default)
    OBVIOUS
  <2> HIDE DEF W
  <2>2. "shader" \in W => Rest(r) /\ Total(r) = Total(gl) /\ Context(r, W \ {"shader"})
    BY <1>0, <2>1, ShaderEnded
  <2> QED
    BY <1>0, <1>8, <2>1, <2>2, LeaveKept DEF W
<1>9. CASE May("blend") /\ \E mode \in {"ADDITIVE", "CUSTOM"} : Enter("blend", rlSetBlendMode(gl, mode))
  <2>1. PICK mode \in {"ADDITIVE", "CUSTOM"} : Enter("blend", rlSetBlendMode(gl, mode))
    BY <1>9
  <2>2. PICK r : r = rlSetBlendMode(gl, mode)
    OBVIOUS
  <2> HIDE DEF W
  <2>3. PICK V : V = W \cup {"blend"}
    OBVIOUS
  <2>4. \A k \in {"2D", "3D", "target", "scissor", "shader"} : k \in V <=> k \in W
    BY <2>3
  <2>5. mode \in {"ALPHA", "ADDITIVE", "CUSTOM"} /\ (mode # "ALPHA" => "blend" \in V)
    BY <2>3
  <2>6. Rest(r) /\ Total(r) = Total(gl) /\ Context(r, V)
    BY <1>0, <2>2, <2>4, <2>5, BlendSet
  <2> QED
    BY <1>9, <2>1, <2>2, <2>3, <2>6, EnterKept DEF W
<1>10. CASE Leave("blend", rlSetBlendMode(gl, "ALPHA"))
  <2>1. PICK mode \in {"ALPHA", "ADDITIVE", "CUSTOM"} : mode = "ALPHA"
    OBVIOUS
  <2>2. PICK r : r = rlSetBlendMode(gl, mode)
    OBVIOUS
  <2> HIDE DEF W
  <2>3. PICK V : V = W \ {"blend"}
    OBVIOUS
  <2>4. \A k \in {"2D", "3D", "target", "scissor", "shader"} : k \in V <=> k \in W
    BY <2>3
  <2>5. Rest(r) /\ Total(r) = Total(gl) /\ Context(r, V)
    BY <1>0, <2>1, <2>2, <2>4, BlendSet
  <2> QED
    BY <1>0, <1>10, <2>1, <2>2, <2>3, <2>5, LeaveKept DEF W
<1>11. CASE May("scissor") /\ Enter("scissor", BeginScissorMode(gl))
  <2>1. PICK scissor \in {"part", "all"} : scissor = "part"
    OBVIOUS
  <2>2. PICK r : r = [rlDrawRenderBatch(gl) EXCEPT !.scissor = scissor]
    OBVIOUS
  <2> HIDE DEF W
  <2>3. PICK V : V = W \cup {"scissor"}
    OBVIOUS
  <2>4. \A k \in {"2D", "3D", "target", "shader", "blend"} : k \in V <=> k \in W
    BY <2>3
  <2>5. (scissor = "part") = ("scissor" \in V)
    BY <2>1, <2>3
  <2>6. Rest(r) /\ Total(r) = Total(gl) /\ Context(r, V)
    BY <1>0, <2>2, <2>4, <2>5, ScissorSet
  <2>7. r = BeginScissorMode(gl)
    BY <2>1, <2>2 DEF BeginScissorMode
  <2> QED
    BY <1>11, <2>3, <2>6, <2>7, EnterKept DEF W
<1>12. CASE Leave("scissor", EndScissorMode(gl))
  <2>1. PICK scissor \in {"part", "all"} : scissor = "all"
    OBVIOUS
  <2>2. PICK r : r = [rlDrawRenderBatch(gl) EXCEPT !.scissor = scissor]
    OBVIOUS
  <2> HIDE DEF W
  <2>3. PICK V : V = W \ {"scissor"}
    OBVIOUS
  <2>4. \A k \in {"2D", "3D", "target", "shader", "blend"} : k \in V <=> k \in W
    BY <2>3
  <2>5. (scissor = "part") = ("scissor" \in V)
    BY <2>1, <2>3
  <2>6. Rest(r) /\ Total(r) = Total(gl) /\ Context(r, V)
    BY <1>0, <2>2, <2>4, <2>5, ScissorSet
  <2>7. r = EndScissorMode(gl)
    BY <2>1, <2>2 DEF EndScissorMode
  <2> QED
    BY <1>0, <1>12, <2>3, <2>6, <2>7, LeaveKept DEF W
<1> QED
  BY <1>1, <1>2, <1>3, <1>4, <1>5, <1>6, <1>7, <1>8, <1>9, <1>10, <1>11, <1>12 DEF Mode

LEMMA FactorsKept ==
    ASSUME IInv, SetBlendFactors
    PROVE  IInv'
<1>1. PICK factors \in 0..1 : gl' = rlSetBlendFactors(gl, factors) /\ UNCHANGED <<open, sent, screen>>
  BY DEF SetBlendFactors
<1>2. PICK r : r = rlSetBlendFactors(gl, factors)
  OBVIOUS
<1>3. PICK W : W = Within(open)
  OBVIOUS
<1>4. Rest(r) /\ Batched(r) = Batched(gl) /\ r.drawn = gl.drawn /\ Context(r, W)
  <2>1. Rest(gl) /\ Context(gl, W) /\ factors \in Nat
    BY <1>3 DEF IInv
  <2> QED
    BY <1>2, <2>1, FactorsSet
<1>5. Rest(gl') /\ Batched(gl') = sent' /\ gl'.drawn = <<>> /\ screen' = <<>>
  BY <1>1, <1>2, <1>4 DEF IInv
<1>6. Context(gl', Within(open')) /\ Nested(open')
  BY <1>1, <1>2, <1>3, <1>4 DEF IInv
<1> QED
  BY <1>5, <1>6 DEF IInv

LEMMA FrameKept ==
    ASSUME IInv, NextFrame
    PROVE  IInv'
<1>1. PICK r : r = BeginDrawing(EndDrawing(gl))
  OBVIOUS
<1>2. open = <<>> /\ open' = open /\ Matched(r, <<>>)
  BY <1>1 DEF NextFrame
<1>3. PICK W : W = Within(open)
  OBVIOUS
<1>4. W = {}
  BY <1>2, <1>3 DEF Within
<1>5. Rest(gl) /\ Context(gl, W) /\ Nested(open)
  BY <1>3 DEF IInv
<1>6. Rest(r) /\ Total(r) = Total(gl) /\ Context(r, W)
  BY <1>1, <1>4, <1>5, FrameBegun
<1>7. Context(r, Within(open')) /\ Nested(open')
  BY <1>2, <1>3, <1>5, <1>6
<1> QED
  BY <1>2, <1>6, <1>7, SentNothing
-----------------------------------------------------------------------------
(* The theorems. *)

\* Every step keeps the invariant.
LEMMA StepsKeep ==
    ASSUME IInv, [Next]_vars
    PROVE  IInv'
<1>1. CASE \E texture \in Textures \cup {Default}, quads \in 1..2 : Shape(texture, quads)
  BY <1>1, ShapeKept DEF TextureIds
<1>2. CASE Line
  BY <1>2, LineKept
<1>3. CASE \E triangles \in 1..2 : Cube(triangles)
  BY <1>3, CubeKept
<1>4. CASE \E culling \in BOOLEAN : Mesh(culling)
  BY <1>4, MeshKept
<1>5. CASE Clear
  BY <1>5, ClearKept
<1>6. CASE Mode
  BY <1>6, ModeKept
<1>7. CASE SetBlendFactors
  BY <1>7, FactorsKept
<1>8. CASE NextFrame
  BY <1>8, FrameKept
<1>9. CASE UNCHANGED vars
  BY <1>9 DEF IInv, vars
<1> QED
  BY <1>1, <1>2, <1>3, <1>4, <1>5, <1>6, <1>7, <1>8, <1>9 DEF Next

\* So it holds in every state.
LEMMA Always == Spec => []IInv
<1>1. Init => IInv
  BY InitIsBlank
<1>2. IInv /\ [Next]_vars => IInv'
  BY StepsKeep
<1> QED
  BY <1>1, <1>2, PTL DEF Spec

\* The screen shows what was drawn, in that order and with the state that was set then; what still
\* waits in the batch would be drawn that way now.
THEOREM AlwaysDrawnAsSent == Spec => []DrawnAsSent
<1>1. IInv => DrawnAsSent
  BY DEF IInv, DrawnAsSent
<1> QED
  BY <1>1, Always, PTL

\* Nothing is written behind the vertex buffer or the list of draws.
THEOREM BufferAlwaysHeld == Spec => []BufferHeld
<1>1. IInv => BufferHeld
  <2> SUFFICES ASSUME IInv  PROVE BufferHeld
    OBVIOUS
  <2>1. Good(gl, DrawCalls - 1) /\ gl \in GLType
    BY DEF IInv, Rest, Good
  <2>2. gl.batch.drawCounter \in 1..DrawCalls /\ DrawCalls \in Nat
    BY <2>1, BatchType, BatchAssumption
  <2>3. gl.batch.drawCounter <= DrawCalls - 1 /\ vertexCounter(gl) <= Elements * 4 /\ ~gl.overrun
    BY <2>1 DEF Good
  <2> QED
    BY <2>2, <2>3 DEF BufferHeld
<1> QED
  BY <1>1, Always, PTL

\* Modes leave nothing behind.
THEOREM ModesAlwaysReturn == Spec => []ModesReturn
<1>1. IInv => ModesReturn
  <2> SUFFICES ASSUME IInv, open = <<>>
               PROVE  /\ gl.matrix = [projection |-> <<"window ortho">>,
                                      modelview |-> <<"screenScale">>, transform |-> Identity]
                      /\ gl.stack = <<>> /\ gl.current = "modelview"
                      /\ Setting(gl) = [Setting(rlglInit) EXCEPT !.modelview = <<"screenScale">>]
    BY DEF ModesReturn
  <2> DEFINE ortho == <<"window ortho">>
             scale == <<"screenScale">>
  <2>1. PICK W : W = Within(open)
    OBVIOUS
  <2>2. W = {}
    BY <2>1 DEF Within
  <2>3. Context(gl, W)
    BY <2>1 DEF IInv
  <2>4. /\ "3D" \notin W /\ "2D" \notin W /\ "target" \notin W /\ "scissor" \notin W
        /\ "shader" \notin W /\ "blend" \notin W
    BY <2>2
  <2>5. Base(W) = ortho
    BY <2>4 DEF Base
  <2> HIDE DEF ortho, scale
  <2>6. gl.matrix = M(ortho, scale, <<>>) /\ gl.stack = <<>> /\ gl.current = "modelview"
    BY <2>3, <2>4, <2>5 DEF Context, MatricesOf, scale
  <2>7. /\ gl.culling = TRUE /\ gl.depthTest = FALSE /\ gl.framebuffer = "window"
        /\ gl.viewport = "window" /\ gl.scissor = "all" /\ gl.shader = Default
        /\ gl.blend = "ALPHA" /\ gl.usedFactors = 0
    <3>1. gl.depthTest = ("3D" \in W)
      BY <2>3 DEF Context, DeviceOf
    <3>2. ("3D" \in W) = FALSE
      BY <2>4
    <3>3. gl.depthTest = FALSE
      BY <3>1, <3>2, Zenon
    <3>4. gl.culling = TRUE
      BY <2>3 DEF Context, DeviceOf
    <3>5. /\ gl.framebuffer = "window" /\ gl.viewport = "window" /\ gl.scissor = "all"
          /\ gl.shader = Default
      BY <2>3, <2>4 DEF Context, DeviceOf, Target
    <3>6. gl.blend = "ALPHA" /\ gl.usedFactors = 0
      BY <2>3, <2>4 DEF Context, DeviceOf
    <3> QED
      BY <3>3, <3>4, <3>5, <3>6, Zenon
  <2>8. Setting(rlglInit)
          = [shader |-> Default, projection |-> ortho, modelview |-> <<>>,
             blend |-> <<"ALPHA", 0>>, framebuffer |-> "window", viewport |-> "window",
             scissor |-> "all", depthTest |-> FALSE, culling |-> TRUE]
    BY DEF Setting, rlglInit, Identity, ortho
  <2>9. Setting(gl)
          = [shader |-> Default, projection |-> ortho, modelview |-> scale,
             blend |-> <<"ALPHA", 0>>, framebuffer |-> "window", viewport |-> "window",
             scissor |-> "all", depthTest |-> FALSE, culling |-> TRUE]
    <3>1. gl.matrix.projection = ortho /\ gl.matrix.modelview = scale
      BY <2>6 DEF M
    <3> QED
      BY <2>7, <3>1 DEF Setting
  <2>10. Setting(gl) = [Setting(rlglInit) EXCEPT !.modelview = scale]
    <3>1. PICK no, yes, blend : no = FALSE /\ yes = TRUE /\ blend = <<"ALPHA", 0>>
      OBVIOUS
    <3> DEFINE with(modelview) == [shader |-> Default, projection |-> ortho, modelview |-> modelview,
                                   blend |-> blend, framebuffer |-> "window", viewport |-> "window",
                                   scissor |-> "all", depthTest |-> no, culling |-> yes]
    <3>2. Setting(rlglInit) = with(<<>>) /\ Setting(gl) = with(scale)
      BY <2>8, <2>9, <3>1, Zenon
    <3>3. [with(<<>>) EXCEPT !.modelview = scale] = with(scale)
      OBVIOUS
    <3> HIDE DEF with
    <3> QED
      BY <3>2, <3>3, Zenon
  <2> QED
    BY <2>6, <2>10 DEF M, Identity, ortho, scale
<1> QED
  BY <1>1, Always, PTL
=============================================================================
