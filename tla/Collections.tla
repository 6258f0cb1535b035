---------------------------- MODULE Collections ----------------------------
(***************************************************************************)
(* The collections of the runtime, in one system: maps (HashMap) and lists *)
(* that lose items to the loops over them (RemoveLoop).  A program here    *)
(* uses collections of one kind; neither kind touches the other.           *)
(***************************************************************************)
EXTENDS HashMap

CONSTANTS Programs, Spare, Room     \* of RemoveLoop

ASSUME ProgramsAssumption ==
    /\ Room \in Nat
    /\ Programs \subseteq (0..Room) \X (0..Room) \X BOOLEAN
    /\ Spare \subseteq {s \in Int : s < -2}

VARIABLES lists, removing, stage, shared, want, dropped

list == <<lists, removing, stage, shared, want, dropped>>

Removing == INSTANCE RemoveLoop WITH loops <- removing, at <- stage

CollectionsInit == Init /\ Removing!Init

OverMaps == Next /\ stage = "idle" /\ UNCHANGED list

OverLists ==
    /\ map = [m \in Maps |-> NewMap] /\ loops = <<>> /\ ~failed
    /\ Removing!Next
    /\ UNCHANGED vars

CollectionsNext == OverMaps \/ OverLists

CollectionsSpec == CollectionsInit /\ [][CollectionsNext]_<<vars, list>>
-----------------------------------------------------------------------------
\* A list that removes its items in a loop ends up whole, and never shows
\* freed memory (kir/src/lower/remove.rs).
RemovingIsWhole == stage # "idle" => Removing!RemovingIsWhole
=============================================================================
