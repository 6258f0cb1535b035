------------------------------ MODULE MCReplay ------------------------------
(* Small instances of Replay for TLC. *)
EXTENDS Replay

CONSTANTS now, one, two

OneNative  == {now}
TwoValues  == {one, two}
OneMessage == {"overflow"}

Break == "\n"
\* Writes that leave a line open, end one, hold a break between two parts, or
\* two breaks.
Writes    == {<<"a">>, <<"\n">>, <<"a", "\n", "a">>, <<"\n", "\n">>}
Shape     == <<"d", "\n">>
Three     == {"a", "d", "\n"}
=============================================================================
