---------------------------- MODULE Algorithms ----------------------------
(***************************************************************************)
(* The algorithms of raylib and of the compiler's range analysis, which    *)
(* compute from their arguments alone, asked one question after the other: *)
(* `asked` is a question and what it is asked with, and each property      *)
(* answers the questions of one kind with the code's definitions and with  *)
(* what the answer has to be.                                              *)
(***************************************************************************)
EXTENDS Naturals

CONSTANTS
    Matrices, Turns, Arrows, Cameras, Spots, Width, Height,         \* of MathLaws
    Colors, Pictures, Drawings, Margin,                             \* of ImageLaws
    Divisions, Figures, Controls, Recs, Places,                     \* of ShapeLaws
    Bodies, Maps, Sources, Headings, Stances, Steps,                \* of SolidLaws
    Codepoints, Octets, Letters, Delimiter, Words, Names, Extensions,
    Fonts, Glyphs, Widths,                                          \* of TextLaws
    Types, Ty, Terms, Locals, Programs, MaxItems, SettleRounds, OpenEnd, None   \* of RangeLaws

VARIABLE asked

Nothing == [kind |-> "nothing"]

ASSUME DivisionsAssumption == Divisions \in Nat \ {0}

InSpace  == INSTANCE MathLaws
OnImages == INSTANCE ImageLaws
InPlane  == INSTANCE ShapeLaws
OnSolids == INSTANCE SolidLaws
InText   == INSTANCE TextLaws
InRanges == INSTANCE RangeLaws

Init == asked = Nothing

Ask ==
    \/ InSpace!AskMatrices
    \/ InSpace!AskRotations
    \/ InSpace!AskAngles
    \/ InSpace!AskVectors
    \/ InSpace!AskScreen
    \/ InSpace!AskPlane
    \/ InSpace!AskMove
    \/ InSpace!AskFrustum
    \/ OnImages!AskColors
    \/ OnImages!AskPictures
    \/ OnImages!AskDrawing
    \/ InPlane!AskFigure
    \/ InPlane!AskCurve
    \/ InPlane!AskCollision
    \/ OnSolids!AskBody
    \/ OnSolids!AskMap
    \/ OnSolids!AskRay
    \/ OnSolids!AskSkeleton
    \/ InText!AskCodepoints
    \/ InText!AskBytes
    \/ InText!AskEdit
    \/ InText!AskPath
    \/ InText!AskName
    \/ InText!AskText
    \/ InText!AskAtlas
    \/ InRanges!AskRanges
    \/ InRanges!AskProgram

Next == \/ asked = Nothing /\ Ask
        \/ asked # Nothing /\ asked' = Nothing

Spec == Init /\ [][Next]_asked
-----------------------------------------------------------------------------
(* Points: the functions of raymath.h and the cameras of rcore.c agree on   *)
(* where a point goes and comes from, however a turn is written.            *)
TransformsAgree == InSpace!TransformsAgree

(* Pictures: formats and the operations of rtextures.c that only move       *)
(* pixels lose no colour that the format can hold, and make none up; and    *)
(* drawing on an image is cut off at its edges and nowhere else.            *)
PicturesSurvive == OnImages!PicturesSurvive /\ OnImages!DrawingIsClipped

(* The triangles of a filled shape of rshapes.c tile what its outline       *)
(* encloses, all with their front to the viewer.                            *)
ShapesFillTheirOutlines == InPlane!ShapesFillTheirOutlines

(* Curves meet the points they are drawn through and their own segments.    *)
CurvesJoin == InPlane!CurvesJoin

(* Tests of two shapes agree with the tests of the points they share.       *)
CollisionsAgree == InPlane!CollisionsAgree

(* Solids and meshes of rmodels.c are closed, wound outwards, and their     *)
(* wires are edges of what is filled.                                       *)
SolidsAreClosed == OnSolids!SolidsAreClosed

(* A ray meets a box, its mesh, its quads and its triangles at one place.   *)
RaysMeetTheSame == OnSolids!RaysMeetTheSame

(* A skinned vertex is where the bones that move it are.                    *)
SkinsFollowBones == OnSolids!SkinsFollowBones

(* What UTF-8 and Base64 encode they decode, no walk leaves its text, and   *)
(* texts, names and paths fit together from the parts they come apart in.   *)
TextsReturn == InText!EncodingsReturn /\ InText!TextsComeApart

(* Text takes the room it is measured to take, and glyphs of a font's       *)
(* picture stay apart.                                                      *)
TextIsLaidOut == InText!TextIsLaidOut

(* The range analysis leaves out no check that a run of the program needs   *)
(* (kir/src/range/).                                                        *)
RangesHold == InRanges!RangesHold
=============================================================================
