------------------------------- MODULE MCLsp -------------------------------
(* Small instances of Lsp for TLC. *)
EXTENDS Lsp

SomeAppTexts == {<<"call", "cost">>, <<"plain", "call", "cost">>, <<"garble", "cost">>,
                 <<"boom", "cost">>, <<"trap", "cost">>}
SomeLibTexts == {<<"def", "assume">>, <<"error", "def", "assume">>, <<"plain">>}

SomeDisks == {[app |-> <<"call", "cost">>, lib |-> <<"def", "assume">>]}

TwoShows == {"hints", "diagnostics"}
=============================================================================
