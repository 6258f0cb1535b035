--------------------------- MODULE MCAlgorithms ---------------------------
(* Small instances of Algorithms for TLC. *)
EXTENDS Algorithms, Integers, Sequences, TLC

OfSpace  == INSTANCE Raymath
OfImages == INSTANCE Images
OfShapes == INSTANCE Shapes
-----------------------------------------------------------------------------
(* Space. *)

\* Moves, turns, scales, shears and mirrors, and a product of them.
MCMatrices ==
    LET turned == OfSpace!MatrixRotateX(1)
        sheared == [OfSpace!MatrixIdentity EXCEPT ![4] = 2, ![9] = -1]
    IN  {OfSpace!MatrixTranslate(1, -2, 3), OfSpace!MatrixScale(2, 1, -1), turned,
         OfSpace!MatrixRotateZ(1), sheared,
         OfSpace!MatrixMultiply(turned, OfSpace!MatrixTranslate(0, 1, 2)),
         OfSpace!MatrixMultiply(sheared, OfSpace!MatrixMultiply(OfSpace!MatrixRotateY(3),
                                                                OfSpace!MatrixTranslate(3, 0, 1)))}

\* The 24 units: one component 1, or all of them a half.
MCTurns ==
    {[i \in 1..4 |-> IF i = k THEN s * OfSpace!One ELSE 0] : k \in 1..4, s \in {-1, 1}}
      \cup [1..4 -> {-1, 1}]

MCArrows == {<<1, 0, 0>>, <<-1, 0, 0>>, <<0, 0, 2>>, <<1, -2, 2>>, <<-3, 4, 0>>}

MCCameras ==
    {[position |-> <<1, 2, 3>>, target |-> t, up |-> u, fovy |-> 1, projection |-> p] :
        t \in {<<1, 2, 0>>, <<4, 2, 3>>, <<1, 2, 4>>}, u \in {<<0, 1, 0>>, <<0, -2, 0>>},
        p \in {"perspective", "orthographic"}}

MCSpots == {<<0, 0>>, <<1, 1>>, <<3, 0>>, <<2, 2>>}
-----------------------------------------------------------------------------
(* Images. *)

MCColors ==
    {<<0, 0, 0, 0>>, <<255, 255, 255, 255>>, <<200, 100, 40, 255>>, <<16, 250, 130, 128>>,
     <<3, 3, 7, 49>>, <<8, 16, 247, 51>>}

\* A clear corner and three colours in turn.
Picture(width, height, format) ==
    LET color(p) == CASE p = <<0, 0>> -> <<0, 0, 0, 0>>
                      [] p # <<0, 0>> /\ (p[1] + p[2]) % 3 = 1 -> <<200, 100, 40, 255>>
                      [] p # <<0, 0>> /\ (p[1] + p[2]) % 3 = 2 -> <<16, 250, 130, 128>>
                      [] OTHER -> <<8, 16, 247, 51>>
    IN  OfImages!ImageOf(width, height, format,
            [p \in OfImages!Area(width, height) |->
                OfImages!FromNormalized(format, OfImages!ColorNormalize(color(p)))])

MCPictures ==
    {Picture(4, 3, "R8G8B8A8"), Picture(3, 5, "R5G6B5"), Picture(2, 2, "GRAY_ALPHA"),
     Picture(3, 2, "R32G32B32A32"), Picture(1, 4, "R8G8B8"), Picture(4, 1, "R4G4B4A4")}

\* Within, on the edge and outside of every picture.
Edge == {<<-2, -1>>, <<1, 1>>, <<2, -2>>, <<4, 2>>, <<-1, 4>>}
Red == <<200, 100, 40, 255>>

Flat(t) == (t[2][1] - t[1][1]) * (t[3][2] - t[1][2]) = (t[3][1] - t[1][1]) * (t[2][2] - t[1][2])

MCDrawings ==
    LET alone == {<<p>> : p \in Edge}
        thirds == {<<a, b, c>> : a \in Edge, b \in Edge, c \in {<<1, 1>>, <<-1, 4>>}}
    IN  [kind : {"rectangle", "frame"}, at : alone, size : {<<3, 2>>, <<7, 6>>, <<1, 1>>}, color : {Red}]
          \cup [kind : {"circle", "ring"}, at : alone, size : {<<2, 2>>, <<3, 3>>, <<1, 1>>}, color : {Red}]
          \cup [kind : {"line"}, at : Edge \X Edge, size : {<<0, 0>>}, color : {Red}]
          \cup [kind : {"triangle", "shades"}, at : {t \in thirds : ~Flat(t)}, size : {<<0, 0>>},
                color : {Red}]
          \cup [kind : {"picture"}, at : alone, size : {<<2, 2>>, <<4, 3>>},
                color : {<<255, 255, 255, 255>>, <<255, 128, 255, 128>>},
                image : {Picture(4, 3, "R8G8B8A8"), Picture(6, 6, "R5G6B5")}]
-----------------------------------------------------------------------------
(* Shapes. *)

Rec(x, y, width, height) == [x |-> x, y |-> y, width |-> width, height |-> height]

\* Angles of which the pieces are whole, and less than half a turn each.
Even(f) ==
    LET span == OfShapes!Abs(f.to - f.from)
        n == OfShapes!Pieces(IF f.kind = "ring" THEN OfShapes!Greatest(f.radius, f.inner) ELSE f.radius,
                            OfShapes!Least(f.from, f.to), OfShapes!Greatest(f.from, f.to), f.segments)
    IN  span = 0 \/ (span <= 36 /\ span % n = 0 /\ span \div n < 18)

MCFigures ==
    {f \in [kind : {"sector", "ring"}, at : {<<3, -2>>}, radius : {1, 3}, inner : {0, 2, 5},
            from : {0, 27, 40}, to : {9, 27, 36}, segments : {0, 1, 2, 3, 9}] : Even(f)}
      \cup [kind : {"ellipse"}, at : {<<3, -2>>}, radius : {1, 4}, inner : {3}]
      \cup [kind : {"polygon"}, at : {<<0, 5>>}, radius : {4}, inner : {1}, from : {0, 5},
            segments : {0, 3, 4, 6, 9}]
      \cup [kind : {"triangle"}, p : {<< <<0, 0>>, <<1, 4>>, <<5, 1>> >>, << <<0, 0>>, <<5, 1>>, <<1, 4>> >>}]
      \cup [kind : {"line"}, p : {<< <<0, 0>>, <<3, 4>>, <<3, -4>> >>, << <<1, 1>>, <<5, -2>>, <<5, -2>> >>},
            inner : {1, 3}, length : {5}]
      \cup [kind : {"rectangle"}, rec : {Rec(2, 3, 8, 12), Rec(0, -4, 16, 8)}, inner : {1, 2, 3, 9},
            radius : {1, 3}, segments : {2}, to : {9}]

MCControls == {<<0, 0>>, <<2, 1>>, <<-1, 3>>, <<4, -2>>}
MCRecs == {Rec(0, 0, 3, 2), Rec(1, 1, 4, 1), Rec(-2, 1, 3, 3), Rec(3, -1, 1, 4)}
MCPlaces == MCControls \cup {<<3, 3>>, <<1, -1>>}
-----------------------------------------------------------------------------
(* Solids. *)

MCBodies ==
    LET at == <<1, 0, -1>>
    IN  [kind : {"cube"}, at : {<<0, 0, 0>>, <<1, -2, 3>>}, size : {<<2, 4, 6>>}]
          \cup [kind : {"sphere"}, at : {at}, radius : {1, 2}, rings : {1, 2, 5}, slices : {3, 4, 6, 12}]
          \cup {c \in [kind : {"cylinder"}, at : {at}, top : {0, 1, 2}, radius : {0, 2}, height : {3},
                       slices : {1, 3, 4, 12}] : c.top + c.radius > 0}
          \cup [kind : {"capsule"}, at : {at}, tip : {at, <<1, 4, -1>>, <<-2, 0, -1>>, <<1, 0, 2>>},
                radius : {1}, rings : {1, 3}, slices : {3, 4, 12}]
          \cup [kind : {"sheet"}, size : {<<4, 12>>}, radius : {2}, rings : {1, 2}, slices : {3, 6}]

MCMaps ==
    {[width |-> 3, height |-> 2, map |-> m] : m \in [(0..2) \X (0..1) -> {"white", "black"}]}

MCSources == {<<x, y, z>> : x \in {-3, 0, 1}, y \in {-4, 1, 3}, z \in {-3, 0, 3}}

MCHeadings ==
    {<<1, 0, 0>>, <<-1, 0, 0>>, <<0, 1, 0>>, <<0, 0, -1>>, <<1, 1, 1>>, <<2, -1, 1>>, <<-1, 2, -1>>,
     <<1, 0, 1>>, <<1, 2, 0>>}

MCSteps == {<<0, 0, 0>>, <<1, 0, -1>>, <<2, -1, 1>>}
MCStances == {<<0, 0, 0, 2>>, <<1, 1, 1, 1>>, <<2, 0, 0, 0>>, <<1, -1, 1, 1>>, <<0, 0, -2, 0>>}
-----------------------------------------------------------------------------
(* Texts. *)

\* The first and the last of each length, and some between.
MCCodepoints == {65, 127, 128, 233, 2047, 2048, 8364, 65535, 65536, 128512, 1114111}

\* First bytes of each length, bytes that follow, and one that is neither.
MCOctets == {65, 195, 169, 226, 130, 172, 240, 144, 255}

MCWords == {<<97>>, <<98, 99>>}
MCNames == {<<97>>, <<97, 98, 99>>, <<122, 49>>}
MCExtensions == {<<>>, <<46, 112, 110, 103>>, <<46, 99>>}

Glyph(value, advance, offset, width, down, height) ==
    [value |-> value, advanceX |-> advance, offsetX |-> offset, width |-> width, offsetY |-> down,
     height |-> height]

\* Glyphs that advance by their own measure and by their width; of these, one at the pen, one
\* before it, further than it is wide, and one behind it that hangs below the line.
MCFonts ==
    {[baseSize |-> 4, padding |-> p,
      glyphs |-> <<Glyph(32, 2, 0, 2, 0, 4), Glyph(63, 3, 0, 3, 1, 3), Glyph(65, 5, 1, 3, 1, 2),
                   Glyph(66, 0, 0, 4, 0, 4), Glyph(776, 0, -3, 2, 0, 1), Glyph(103, 0, 1, 3, 2, 3)>>] :
        p \in 0..1}
-----------------------------------------------------------------------------
(* Ranges: numbers of three bits, and functions with two locals and a list  *)
(* of at most three items.                                                  *)

MCTy == [lo |-> -4, hi |-> 3, bits |-> 3]
MCTypes == {MCTy, [lo |-> 0, hi |-> 7, bits |-> 3]}

\* "h" is the end of a `for` loop.
MCTerms ==
    LET Between(lo, hi) == [lo |-> lo, hi |-> hi]
    IN  [n \in {"x", "y", "h"} |-> Between(-4, 3)] @@ ("len" :> Between(0, 3))

Lit(v) == [k |-> "int", v |-> v]
Get(l) == [k |-> "get", l |-> l]
X      == Get("x")
Y      == Get("y")
Count  == [k |-> "len"]
Item(p, i)      == [k |-> "item", at |-> p, i |-> i]
Op(p, op, a, b) == [k |-> "arith", at |-> p, op |-> op, a |-> a, b |-> b]
Cmp(op, a, b)   == [k |-> "cmp", op |-> op, a |-> a, b |-> b]
Both(a, b)      == [k |-> "and", a |-> a, b |-> b]
Set(l, e)         == [k |-> "set", l |-> l, e |-> e]
If(c, then, else) == [k |-> "if", c |-> c, then |-> then, else |-> else]
While(c, body)    == [k |-> "while", c |-> c, body |-> body]
For(to, end, body) == [k |-> "for", l |-> "x", from |-> Lit(0), to |-> to, end |-> end, body |-> body]
Assumed(p, c, body) == [k |-> "assume", id |-> p, c |-> c, body |-> body]

InList == Both(Cmp(">=", X, Lit(0)), Cmp("<", X, Count))

\* Statements that change what is known, and statements with checks that rest on it.
Changes(p) ==
    {Set("x", Op(p, "+", X, Lit(1))), Set("x", Op(p, "-%", X, Lit(1))),
     Set("y", [k |-> "rand", a |-> Lit(0), b |-> Count]), Set("y", Op(p, "*", X, Y)),
     [k |-> "add", e |-> Y], [k |-> "remove", i |-> Y], [k |-> "clear"],
     If(Cmp("<", X, Y), <<[k |-> "break"]>>, <<>>), If(Cmp(">", X, Y), <<Set("x", Lit(-2)), [k |-> "continue"]>>, <<>>),
     While(Cmp("<", Y, X), <<Set("y", Op(p, "+", Y, Lit(1)))>>)}
Uses(p) ==
    {Set("y", Item(p, X)), [k |-> "put", at |-> p, i |-> Y, e |-> X], Set("x", Op(p, "/", X, Y)),
     If(InList, <<Set("y", Item(p, X))>>, <<[k |-> "return"]>>),
     If(Cmp("#", Y, Lit(0)), <<Set("x", Op(p, "%", X, Y))>>, <<>>),
     If([k |-> "or", a |-> Cmp("<", X, Y), b |-> Cmp("=", Item(p, X), Y)], <<Set("y", Item(p + 1, X))>>, <<>>),
     Assumed(p, InList, <<Set("y", Item(p, X))>>),
     Assumed(p, Cmp("=", Y, Lit(2)), <<Set("x", Op(p, "/", X, Y)), Set("y", [k |-> "neg", at |-> p + 1, a |-> Y])>>)}

Pairs(S, T) == {<<a, b>> : a \in S, b \in T}
LoopOver(body) ==
    {For(Count, "h", body), For(Lit(3), None, body), While(Cmp("<", X, Count), body),
     While(Both(InList, Cmp("=", Item(1, X), Y)), body), While([k |-> "not", a |-> InList], body)}

MCPrograms ==
    UNION {{<<l, Set("y", Item(99, X))>> : l \in LoopOver(b)} : b \in Pairs(Changes(10), Uses(20)) \cup Pairs(Uses(10), Changes(20))}
=============================================================================
