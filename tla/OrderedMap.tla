----------------------------- MODULE OrderedMap -----------------------------
(***************************************************************************)
(* What `map[K, V]` promises: each map is a sequence of key and value      *)
(* pairs, each key once, in the order the keys were added.                 *)
(***************************************************************************)
EXTENDS Naturals, Sequences

CONSTANTS Maps, Keys, Values

VARIABLE content  \* each map's pairs, in order

KeysOf(s) == {s[i].key : i \in 1..Len(s)}

Init == content = [m \in Maps |-> <<>>]

\* m[k] = v: a key keeps its place, a new one goes to the end.
Set(m, k, v) ==
    LET s == content[m] IN
    content' = [content EXCEPT ![m] =
                  IF k \in KeysOf(s)
                  THEN [i \in 1..Len(s) |-> IF s[i].key = k THEN [s[i] EXCEPT !.val = v] ELSE s[i]]
                  ELSE Append(s, [key |-> k, val |-> v])]

\* s without its p-th pair: those after it move up.
Without(s, p) == [i \in 1..(Len(s) - 1) |-> IF i < p THEN s[i] ELSE s[i + 1]]

\* m.remove(k)
Remove(m, k) ==
    \E p \in 1..Len(content[m]) :
        /\ content[m][p].key = k
        /\ content' = [content EXCEPT ![m] = Without(@, p)]

Assign(m, s) == content' = [content EXCEPT ![m] = s]

Next ==
    \E m \in Maps :
        \/ \E k \in Keys, v \in Values : Set(m, k, v)
        \/ \E k \in Keys : Remove(m, k)
        \/ Assign(m, <<>>)
        \/ \E n \in Maps : Assign(m, content[n])

Spec == Init /\ [][Next]_content
=============================================================================
