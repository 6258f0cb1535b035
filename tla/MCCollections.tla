--------------------------- MODULE MCCollections ---------------------------
(* Small instances of Collections for TLC. *)
EXTENDS Collections, MCHashMap

\* Three items, each with a list of two; fewer where others change the list.
SomePrograms == {<<3, 2, FALSE>>, <<0, 1, FALSE>>, <<2, 1, TRUE>>, <<1, 2, TRUE>>, <<3, 0, TRUE>>}
OneSpare == {-3}
=============================================================================
