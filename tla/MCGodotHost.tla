---------------------------- MODULE MCGodotHost ----------------------------
(* Small instances of GodotHost for TLC. *)
EXTENDS GodotHost

CONSTANTS t1, t2, t3

Text(uses, error, consts) == [uses |-> uses, error |-> error, consts |-> consts]

SomeMainTexts == {Text(FALSE, FALSE, "good"), Text(FALSE, FALSE, "bad"),
                  Text(TRUE, FALSE, "none")}
SomeModuleTexts == {Text(FALSE, FALSE, "none"), Text(FALSE, TRUE, "none")}

OnlyMain  == {"main"}
BothFiles == {"main", "module"}

ThreeThreads == {t1, t2, t3}
=============================================================================
