------------------------------- MODULE MCInput -------------------------------
(* A small instance of Input: queues of one key, lists of five events.     *)
EXTENDS Input

MCPlaces == {<<0, 0>>, <<4, 1>>}
MCMiddle == <<4, 1>>
=============================================================================
