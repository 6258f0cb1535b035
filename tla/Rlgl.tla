-------------------------------- MODULE Rlgl --------------------------------
(***************************************************************************)
(* raylib's drawing layer (rlgl.h with OpenGL 3.3) and the drawing modes   *)
(* of rcore.c.  What a program draws is collected in a vertex buffer, in   *)
(* draws of one mode and texture each, and drawn when the buffer or the    *)
(* list of draws is full, or before the state it is drawn with changes.    *)
(*                                                                         *)
(* `gl` is the global RLGL with the device's state, `open` the modes the   *)
(* program is in, `sent` what it has drawn and the screen does not show    *)
(* yet, `screen` what the device drew and the program did not ask for in   *)
(* that order.  A matrix is the word of its factors, left to right.        *)
(* The depth that 2D vertices get is left out (nothing tests it there).    *)
(***************************************************************************)
EXTENDS Integers, Sequences

CONSTANTS
    Elements,       \* RL_DEFAULT_BATCH_BUFFER_ELEMENTS: quads in the buffer
    DrawCalls,      \* RL_DEFAULT_BATCH_DRAWCALLS
    Textures,       \* of the program
    MaxSent,        \* bound: primitives that wait
    MaxOpen         \* bound: modes in each other

ASSUME BatchAssumption == Elements \in Nat \ {0} /\ DrawCalls \in Nat \ {0, 1}

Default == "default"            \* the white texture, the built-in shader
Gap == "gap"                    \* a place of the buffer that alignment skips
Identity == <<>>

Top(stack)   == stack[Len(stack)]
Below(stack) == SubSeq(stack, 1, Len(stack) - 1)
Within(seq)  == {seq[i] : i \in DOMAIN seq}

VARIABLES gl, open, sent, screen

vars == <<gl, open, sent, screen>>

EmptyDraw == [mode |-> "QUADS", count |-> 0, alignment |-> 0, texture |-> Default]

rlLoadRenderBatch == [draws |-> [i \in 1..DrawCalls |-> EmptyDraw], drawCounter |-> 1, vertices |-> <<>>]

\* With the viewport and the projection of SetupViewport, as InitWindow calls it.
rlglInit ==
    [batch |-> rlLoadRenderBatch, currentTextureId |-> Default, shader |-> Default,
     matrixMode |-> "modelview", current |-> "modelview", transformRequired |-> FALSE,
     matrix |-> [projection |-> <<"window ortho">>, modelview |-> Identity, transform |-> Identity],
     stack |-> <<>>, color |-> "none", normal |-> Identity, texcoord |-> 0,
     blend |-> "ALPHA", factors |-> 0, factorsModified |-> FALSE,
     usedFactors |-> 0, framebuffer |-> "window", viewport |-> "window", scissor |-> "all",
     depthTest |-> FALSE, culling |-> TRUE, overrun |-> FALSE, drawn |-> <<>>]
-----------------------------------------------------------------------------
(* Drawing the batch. *)

\* What the device draws with besides the draw's mode and texture.
Setting(s) ==
    [shader |-> s.shader, projection |-> s.matrix.projection, modelview |-> s.matrix.modelview,
     blend |-> <<s.blend, s.usedFactors>>, framebuffer |-> s.framebuffer, viewport |-> s.viewport,
     scissor |-> s.scissor, depthTest |-> s.depthTest, culling |-> s.culling]

PerPrimitive(mode) == CASE mode = "LINES" -> 2 [] mode = "TRIANGLES" -> 3 [] OTHER -> 4

Primitive(mode, texture, vertices, setting) ==
    [mode |-> mode, texture |-> texture, vertices |-> vertices, setting |-> setting]

\* Places are counted from 0; one past the end of what was written holds a gap.
VertexAt(s, i) == IF i < Len(s.batch.vertices) THEN s.batch.vertices[i + 1] ELSE Gap

\* Where draw i starts: after the draws before it and their alignment.
vertexOffset(s, i) ==
    LET before[k \in 0..DrawCalls] ==
          IF k = 0 THEN 0 ELSE before[k - 1] + (s.batch.draws[k].count + s.batch.draws[k].alignment)
    IN  before[i - 1]

\* glDrawArrays, or glDrawElements with the quads' indices, which start at a multiple of 4.
DrawnBy(s, i) ==
    LET draw == s.batch.draws[i]
        k == PerPrimitive(draw.mode)
        first == IF draw.mode = "QUADS" THEN (vertexOffset(s, i) \div 4) * 4 ELSE vertexOffset(s, i)
    IN  [n \in 1..draw.count \div k |->
            Primitive(draw.mode, draw.texture, [v \in 1..k |-> VertexAt(s, first + (n - 1) * k + v - 1)],
                      Setting(s))]

\* What the draws up to n draw, one after the other, and all the draws of the batch.
DrawnUpTo(s, n) ==
    LET drawnTo[i \in 0..DrawCalls] == IF i = 0 THEN <<>> ELSE drawnTo[i - 1] \o DrawnBy(s, i)
    IN  drawnTo[n]

Batched(s) == DrawnUpTo(s, s.batch.drawCounter)

rlDrawRenderBatch(s) ==
    [s EXCEPT !.drawn = @ \o Batched(s),
              !.batch = [draws |-> [i \in 1..DrawCalls |->
                                      [EmptyDraw EXCEPT !.alignment = s.batch.draws[i].alignment]],
                         drawCounter |-> 1, vertices |-> <<>>]]

vertexCounter(s) == Len(s.batch.vertices)

Full(s, vCount) == vertexCounter(s) + vCount >= Elements * 4

DrawNow(s) == s.batch.draws[s.batch.drawCounter]

\* Seeded fault: the draw goes on without its texture.
LimitForgetsTexture(s, vCount) ==
    IF ~Full(s, vCount) THEN s
    ELSE [rlDrawRenderBatch(s) EXCEPT !.batch.draws[1].mode = DrawNow(s).mode]

rlCheckRenderBatchLimit(s, vCount) ==
    IF ~Full(s, vCount) THEN s
    ELSE [rlDrawRenderBatch(s) EXCEPT !.batch.draws[1].mode = DrawNow(s).mode,
                                      !.batch.draws[1].texture = DrawNow(s).texture]

\* The places to skip so that quads that follow start at a multiple of 4.
vertexAlignment(draw) ==
    CASE draw.mode = "LINES" -> IF draw.count < 4 THEN draw.count ELSE draw.count % 4
      [] draw.mode = "TRIANGLES" -> IF draw.count < 4 THEN 1 ELSE 4 - (draw.count % 4)
      [] OTHER -> 0

\* Ends the draw that is being filled, if anything is in it.
Closed(s) ==
    LET i == s.batch.drawCounter
        skipped == vertexAlignment(DrawNow(s))
        aligned == [s EXCEPT !.batch.draws[i].alignment = skipped]
    IN  IF DrawNow(s).count = 0 THEN s
        ELSE IF Full(s, skipped) THEN rlCheckRenderBatchLimit(aligned, skipped)
        ELSE [aligned EXCEPT !.batch.vertices = @ \o [n \in 1..skipped |-> Gap],
                             !.batch.drawCounter = i + 1]

IfManyDraws(s) == IF s.batch.drawCounter >= DrawCalls THEN rlDrawRenderBatch(s) ELSE s
-----------------------------------------------------------------------------
(* Matrices. *)

rlMatrixMode(s, mode) == [s EXCEPT !.current = mode, !.matrixMode = mode]

rlPushMatrix(s) ==
    LET c == IF s.matrixMode = "modelview" THEN "transform" ELSE s.current
    IN  [s EXCEPT !.current = c, !.transformRequired = @ \/ s.matrixMode = "modelview",
                  !.stack = Append(@, s.matrix[c])]

rlPopMatrix(s) ==
    LET popped == IF s.stack = <<>> THEN s
                  ELSE [s EXCEPT !.matrix[s.current] = Top(s.stack), !.stack = Below(@)]
    IN  IF popped.stack = <<>> /\ s.matrixMode = "modelview"
        THEN [popped EXCEPT !.current = "modelview", !.transformRequired = FALSE] ELSE popped

rlLoadIdentity(s) == [s EXCEPT !.matrix[s.current] = Identity]

\* rlTranslatef, rlRotatef and rlScalef are rlMultMatrixf with the matrix they make.
rlMultMatrixf(s, m) == [s EXCEPT !.matrix[s.current] = <<m>> \o @]

\* Also rlOrtho: both multiply from the right.
rlFrustum(s, m) == [s EXCEPT !.matrix[s.current] = Append(@, m)]
-----------------------------------------------------------------------------
(* Vertices. *)

rlBegin(s, mode) ==
    LET ready == IfManyDraws(Closed(s))
        i == ready.batch.drawCounter
    IN  IF DrawNow(s).mode = mode THEN s
        ELSE [ready EXCEPT !.batch.draws[i].mode = mode,
                           !.batch.draws[i].texture = s.currentTextureId,
                           !.currentTextureId = Default]

rlColor4ub(s, color) == [s EXCEPT !.color = color]
rlTexCoord2f(s, texcoord) == [s EXCEPT !.texcoord = texcoord]

\* The normal is turned by the transform as it is now.
rlNormal3f(s) == [s EXCEPT !.normal = IF s.transformRequired THEN s.matrix.transform ELSE Identity]

\* Seeded fault: room is made when the buffer is full, not before.
VertexAtTheEnd(s, at) ==
    LET room == IF vertexCounter(s) > Elements * 4 THEN rlCheckRenderBatchLimit(s, 1) ELSE s
    IN  [room EXCEPT !.overrun = @ \/ vertexCounter(room) >= Elements * 4,
                     !.batch.draws[room.batch.drawCounter].count = @ + 1,
                     !.batch.vertices = Append(@, [at |-> at, transform |-> Identity,
                                                   color |-> s.color, texcoord |-> s.texcoord,
                                                   normal |-> s.normal])]

\* A batch is only drawn between primitives; `overrun` is a write behind the buffer.
rlVertex3f(s, at) ==
    LET k == PerPrimitive(DrawNow(s).mode)
        room == IF vertexCounter(s) > Elements * 4 - 4 /\ DrawNow(s).count % k = 0
                THEN rlCheckRenderBatchLimit(s, k + 1) ELSE s
    IN  [room EXCEPT !.overrun = @ \/ vertexCounter(room) >= Elements * 4,
                     !.batch.draws[room.batch.drawCounter].count = @ + 1,
                     !.batch.vertices =
                        Append(@, [at |-> at,
                                   transform |-> IF s.transformRequired THEN s.matrix.transform
                                                 ELSE Identity,
                                   color |-> s.color, texcoord |-> s.texcoord, normal |-> s.normal])]

rlSetTextureDefault(s) ==
    [(IF Full(s, 0) THEN rlDrawRenderBatch(s) ELSE s) EXCEPT !.currentTextureId = Default]

rlSetTexture(s, id) ==
    LET closed == Closed([s EXCEPT !.currentTextureId = id])
        named == IF closed.batch.drawCounter = s.batch.drawCounter THEN closed
                 ELSE [closed EXCEPT !.batch.draws[closed.batch.drawCounter].mode = DrawNow(s).mode]
        ready == IfManyDraws(named)
        i == ready.batch.drawCounter
    IN  IF DrawNow(s).texture = id THEN [s EXCEPT !.currentTextureId = id]
        ELSE [ready EXCEPT !.batch.draws[i].texture = id, !.batch.draws[i].count = 0]
-----------------------------------------------------------------------------
(* Drawing functions, one of each mode.  A vertex is its number here. *)

Vertices(s, n) ==
    LET after[i \in 0..n] == IF i = 0 THEN s ELSE rlVertex3f(rlTexCoord2f(after[i - 1], i), i)
    IN  after[n]

\* The vertices as the caller means them.
Asked(s, n, normal, transform) ==
    [i \in 1..n |-> [at |-> i, transform |-> transform, color |-> s.color, texcoord |-> i,
                     normal |-> normal]]

\* So many primitives of n vertices each.
Primitives(s, n, count) ==
    LET after[i \in 0..count] == IF i = 0 THEN s ELSE Vertices(after[i - 1], n)
    IN  after[count]

\* One quad as DrawTexturePro and DrawRectanglePro draw it, or several in one draw as DrawRing.
DrawQuads(s, texture, quads) ==
    rlSetTextureDefault(Primitives(rlNormal3f(rlBegin(rlSetTexture(s, texture), "QUADS")), 4, quads))

DrawLine3D(s) == Vertices(rlBegin(s, "LINES"), 2)

\* The transform is the caller's only; its triangles are drawn where the matrices put them.
DrawCube(s, triangles) ==
    LET moved == rlMultMatrixf(rlPushMatrix(s), "translation")
    IN  rlPopMatrix(Primitives(rlNormal3f(rlBegin(moved, "TRIANGLES")), 3, triangles))

\* At once, not with the batch.  Its shader and texture are the material's.
DrawMesh(s) ==
    LET model == <<"mesh">> \o s.matrix.transform
    IN  [s EXCEPT !.drawn = Append(@, Primitive("MESH", "material", <<model>>,
                                                [Setting(s) EXCEPT !.shader = "material"]))]

\* Kestrel draws the batch before, and turns culling as the mesh needs it.
DrawMeshes(s, culling) ==
    [DrawMesh([rlDrawRenderBatch(s) EXCEPT !.culling = culling]) EXCEPT !.culling = TRUE]

\* At once too; Kestrel draws the batch before.
ClearBackground(s) ==
    [rlDrawRenderBatch(s) EXCEPT
        !.drawn = Append(@, [clear |-> s.framebuffer, scissor |-> s.scissor])]
-----------------------------------------------------------------------------
(* Modes. *)

ScreenScaled(s) == rlMultMatrixf(rlLoadIdentity(s), "screenScale")

SetupViewport(s) ==
    rlLoadIdentity(rlMatrixMode(
        rlFrustum(rlLoadIdentity(rlMatrixMode([s EXCEPT !.viewport = "window"], "projection")),
                  "window ortho"), "modelview"))

BeginDrawing(s) == ScreenScaled(s)

EndDrawing(s) == rlDrawRenderBatch(s)

BeginMode2D(s) == rlMultMatrixf(rlLoadIdentity(rlDrawRenderBatch(s)), "camera")

EndMode2D(s) ==
    LET reset == rlLoadIdentity(rlDrawRenderBatch(s))
    IN  IF s.framebuffer = "window" THEN rlMultMatrixf(reset, "screenScale") ELSE reset

BeginMode3D(s) ==
    LET saved == rlPushMatrix(rlMatrixMode(rlDrawRenderBatch(s), "projection"))
        perspective == rlFrustum(rlLoadIdentity(saved), "perspective")
        viewed == rlMultMatrixf(rlLoadIdentity(rlMatrixMode(perspective, "modelview")), "view")
    IN  [viewed EXCEPT !.depthTest = TRUE]

\* Seeded fault: the projection is put back after the modes are switched.
EndMode3DSwitched(s) ==
    LET restored == rlPopMatrix(rlMatrixMode(rlDrawRenderBatch(s), "modelview"))
        reset == rlLoadIdentity(restored)
        scaled == IF s.framebuffer = "window" THEN rlMultMatrixf(reset, "screenScale") ELSE reset
    IN  [scaled EXCEPT !.depthTest = FALSE]

EndMode3D(s) ==
    LET restored == rlPopMatrix(rlMatrixMode(rlDrawRenderBatch(s), "projection"))
        reset == rlLoadIdentity(rlMatrixMode(restored, "modelview"))
        scaled == IF s.framebuffer = "window" THEN rlMultMatrixf(reset, "screenScale") ELSE reset
    IN  [scaled EXCEPT !.depthTest = FALSE]

BeginTextureMode(s) ==
    LET target == [rlDrawRenderBatch(s) EXCEPT !.framebuffer = "target", !.viewport = "target"]
        ortho == rlFrustum(rlLoadIdentity(rlMatrixMode(target, "projection")), "target ortho")
    IN  rlLoadIdentity(rlMatrixMode(ortho, "modelview"))

EndTextureMode(s) ==
    ScreenScaled(rlMatrixMode(
        SetupViewport([rlDrawRenderBatch(s) EXCEPT !.framebuffer = "window"]), "modelview"))

\* BeginShaderMode, and EndShaderMode with the default shader.
rlSetShader(s, id) == IF s.shader = id THEN s ELSE [rlDrawRenderBatch(s) EXCEPT !.shader = id]

rlSetBlendMode(s, mode) ==
    IF s.blend # mode \/ (mode = "CUSTOM" /\ s.factorsModified)
    THEN [rlDrawRenderBatch(s) EXCEPT
             !.blend = mode, !.factorsModified = FALSE,
             !.usedFactors = IF mode = "CUSTOM" THEN s.factors ELSE 0]
    ELSE s

rlSetBlendFactors(s, factors) ==
    IF s.factors = factors THEN s ELSE [s EXCEPT !.factors = factors, !.factorsModified = TRUE]

BeginScissorMode(s) == [rlDrawRenderBatch(s) EXCEPT !.scissor = "part"]
EndScissorMode(s)   == [rlDrawRenderBatch(s) EXCEPT !.scissor = "all"]
-----------------------------------------------------------------------------
(* The program. *)

Init ==
    /\ gl = BeginDrawing(rlglInit)
    /\ open = <<>>
    /\ sent = <<>>
    /\ screen = <<>>

\* What was sent and drawn in the same order is forgotten.
Matched(s, primitives) ==
    LET asked == sent \o primitives
        drawn == screen \o s.drawn
        shorter == IF Len(asked) < Len(drawn) THEN Len(asked) ELSE Len(drawn)
        same == CHOOSE n \in 0..shorter :
                   /\ SubSeq(asked, 1, n) = SubSeq(drawn, 1, n)
                   /\ n = shorter \/ asked[n + 1] # drawn[n + 1]
    IN  /\ gl' = [s EXCEPT !.drawn = <<>>]
        /\ sent' = SubSeq(asked, same + 1, Len(asked))
        /\ screen' = SubSeq(drawn, same + 1, Len(drawn))

InMode3D == "3D" \in Within(open)

Shape(texture, quads) ==
    LET s == rlColor4ub(gl, "tint")
    IN  /\ Len(sent) + quads <= MaxSent
        /\ Matched(DrawQuads(s, texture, quads),
                   [i \in 1..quads |->
                      Primitive("QUADS", texture, Asked(s, 4, Identity, Identity), Setting(gl))])
        /\ UNCHANGED open

Line ==
    LET s == rlColor4ub(gl, "white")
        given == [i \in 1..2 |-> [at |-> i, transform |-> Identity, color |-> "white",
                                  texcoord |-> i, normal |-> gl.normal]]
    IN  /\ Len(sent) < MaxSent
        /\ Matched(DrawLine3D(s), << Primitive("LINES", Default, given, Setting(gl)) >>)
        /\ UNCHANGED open

Cube(triangles) ==
    LET s == rlColor4ub(gl, "white")
        moved == <<"translation">>
    IN  /\ InMode3D
        /\ Len(sent) + triangles <= MaxSent
        /\ Matched(DrawCube(s, triangles),
                   [i \in 1..triangles |->
                      Primitive("TRIANGLES", Default, Asked(s, 3, moved, moved), Setting(gl))])
        /\ UNCHANGED open

Mesh(culling) ==
    /\ InMode3D
    /\ Matched(DrawMeshes(gl, culling),
               << Primitive("MESH", "material", << <<"mesh">> >>,
                            [Setting(gl) EXCEPT !.shader = "material", !.culling = culling]) >>)
    /\ UNCHANGED open

Clear ==
    /\ Matched(ClearBackground(gl), << [clear |-> gl.framebuffer, scissor |-> gl.scissor] >>)
    /\ UNCHANGED open

Enter(mode, s) == Matched(s, <<>>) /\ open' = Append(open, mode)
Leave(mode, s) == open # <<>> /\ Top(open) = mode /\ Matched(s, <<>>) /\ open' = Below(open)

\* A mode may be in each other one, but for cameras in cameras and a target in any of them.
May(mode) == /\ Len(open) < MaxOpen /\ mode \notin Within(open)
             /\ mode \in {"2D", "3D"} => {"2D", "3D"} \cap Within(open) = {}
             /\ mode = "target" => {"2D", "3D", "target", "scissor"} \cap Within(open) = {}

Mode ==
    \/ May("2D") /\ Enter("2D", BeginMode2D(gl))
    \/ Leave("2D", EndMode2D(gl))
    \/ May("3D") /\ Enter("3D", BeginMode3D(gl))
    \/ Leave("3D", EndMode3D(gl))
    \/ May("target") /\ Enter("target", BeginTextureMode(gl))
    \/ Leave("target", EndTextureMode(gl))
    \/ May("shader") /\ Enter("shader", rlSetShader(gl, "shader"))
    \/ Leave("shader", rlSetShader(gl, Default))
    \/ May("blend") /\ \E mode \in {"ADDITIVE", "CUSTOM"} : Enter("blend", rlSetBlendMode(gl, mode))
    \/ Leave("blend", rlSetBlendMode(gl, "ALPHA"))
    \/ May("scissor") /\ Enter("scissor", BeginScissorMode(gl))
    \/ Leave("scissor", EndScissorMode(gl))

SetBlendFactors ==
    \E factors \in 0..1 :
        gl' = rlSetBlendFactors(gl, factors) /\ UNCHANGED <<open, sent, screen>>

NextFrame ==
    /\ open = <<>>
    /\ Matched(BeginDrawing(EndDrawing(gl)), <<>>)
    /\ UNCHANGED open

Next ==
    \/ \E texture \in Textures \cup {Default}, quads \in 1..2 : Shape(texture, quads)
    \/ Line
    \/ \E triangles \in 1..2 : Cube(triangles)
    \/ \E culling \in BOOLEAN : Mesh(culling)
    \/ Clear
    \/ Mode
    \/ SetBlendFactors
    \/ NextFrame

Spec == Init /\ [][Next]_vars
-----------------------------------------------------------------------------
(* The screen shows what was drawn, in that order, each primitive with the  *)
(* texture, the transform and the state that were set when it was drawn:    *)
(* nothing else was drawn before, and what still waits would be drawn that  *)
(* way now.  So every change of state draws the batch first, no alignment   *)
(* shifts a quad, and a batch that is full goes on where it stopped.        *)
DrawnAsSent == screen = <<>> /\ Batched(gl) = sent

(* Nothing is written behind the vertex buffer or the list of draws,        *)
(* whatever primitives follow each other: rlVertex3f makes room between     *)
(* primitives only, and with alignment a buffer fills up unevenly.          *)
BufferHeld == ~gl.overrun /\ vertexCounter(gl) <= Elements * 4 /\ gl.batch.drawCounter < DrawCalls

(* Modes leave nothing behind: when all are left, in whatever order they    *)
(* were entered and whatever was drawn in them, matrices, stack, target,    *)
(* blending and depth test are those of the frame's start.                  *)
ModesReturn ==
    open = <<>> =>
        /\ gl.matrix = [projection |-> <<"window ortho">>, modelview |-> <<"screenScale">>,
                        transform |-> Identity]
        /\ gl.stack = <<>> /\ gl.current = "modelview"
        /\ Setting(gl) = [Setting(rlglInit) EXCEPT !.modelview = <<"screenScale">>]
=============================================================================
