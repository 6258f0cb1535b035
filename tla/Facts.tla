------------------------------- MODULE Facts -------------------------------
(***************************************************************************)
(* What the range analysis knows at one point of a function                *)
(* (kir/src/range/state.rs, facts.rs): a range for every term and facts    *)
(* a - b <= c between terms, kept closed.  A term is a local, the length   *)
(* of the list or the end of a `for` loop; Terms gives the range that each *)
(* has when nothing is known of it.                                        *)
(***************************************************************************)
EXTENDS Intervals, FiniteSetsExt, TLC

CONSTANTS
    Terms,      \* [terms -> ranges]
    OpenEnd     \* further than any difference of two terms: an open end

Zero   == "zero"
Nodes  == DOMAIN Terms \cup {Zero}
Kinds  == (Zero :> Exact(0)) @@ Terms       \* the range of a node of which nothing is known
AtMost(c)  == Interval(-OpenEnd, c)
AtLeast(c) == Interval(c, OpenEnd)
-----------------------------------------------------------------------------
(* Facts: the least c known with a - b <= c, for the pairs of which one is  *)
(* known.                                                                   *)
NoFacts == [p \in {} |-> 0]

\* A function, computed by TLC where it is made and not at each use.
Made(f) == f @@ NoFacts

Towards(f, a) == {i \in Nodes : <<i, a>> \in DOMAIN f}
Away(f, b)    == {j \in Nodes : <<b, j>> \in DOMAIN f}
Says(f, a, b, c) == <<a, b>> \in DOMAIN f /\ f[<<a, b>>] <= c

\* The facts and others, the one that says more of each pair.
Lowered(f, by) ==
    Made([p \in (DOMAIN f) \cup (DOMAIN by) |->
            IF p \notin DOMAIN by THEN f[p] ELSE IF p \notin DOMAIN f THEN by[p] ELSE Least(f[p], by[p])])

\* The facts with a - b <= c and all that it implies with the others.
WithFact(f, a, b, c) ==
    LET into == [i \in Towards(f, a) \cup {a} |-> IF i = a THEN 0 ELSE f[<<i, a>>]]
        out  == [j \in Away(f, b) \cup {b} |-> IF j = b THEN 0 ELSE f[<<b, j>>]]
    IN  Lowered(f, [p \in {q \in (DOMAIN into) \X (DOMAIN out) : q[1] # q[2]} |-> into[p[1]] + c + out[p[2]]])

\* All that the facts imply, through one node after the other.
Closed(f) ==
    FoldSet(LAMBDA k, g : Lowered(g, [p \in {q \in Towards(g, k) \X Away(g, k) : q[1] # q[2]} |->
                                        g[<<p[1], k>>] + g[<<k, p[2]>>]]),
            f, Nodes)

Without(f, n)   == [p \in {q \in DOMAIN f : n \notin {q[1], q[2]}} |-> f[p]]
Moved(f, n, by) == [p \in DOMAIN f |-> f[p] + (IF p[1] = n THEN by ELSE 0) - (IF p[2] = n THEN by ELSE 0)]
-----------------------------------------------------------------------------
(* The state at a point: ranges r and facts f, or none at all (dead): no    *)
(* run of the program is ever there.                                        *)
State(r, f) == [dead |-> FALSE, r |-> Made(r), f |-> Made(f)]
Dead        == [dead |-> TRUE, r |-> NoFacts, f |-> NoFacts]
Top         == State(Kinds, NoFacts)

\* A state, unless a range has become empty.
Live(r, f) == IF \E n \in Nodes : r[n].lo > r[n].hi THEN Dead ELSE State(r, f)

\* The least c that facts and ranges give with a - b <= c.
BoundOf(st, a, b) ==
    LET ranges == st.r[a].hi - st.r[b].lo
    IN  IF <<a, b>> \in DOMAIN st.f THEN Least(st.f[<<a, b>>], ranges) ELSE ranges

Implies(st, a, b, c) == ~st.dead /\ IF a = b THEN c >= 0 ELSE BoundOf(st, a, b) <= c

\* A node gets a new value of which the range is known, or nothing.
SetTo(st, n, v) == IF st.dead THEN st ELSE State([st.r EXCEPT ![n] = Clip(v, Kinds[n])], Without(st.f, n))
Forget(st, n)   == SetTo(st, n, Kinds[n])

\* Node n is also in v, and the terms that its facts reach with it.
Bound(st, n, v) ==
    IF st.dead THEN st
    ELSE IF ~Meets(st.r[n], v) THEN Dead
    ELSE LET r == Meet(st.r[n], v)
             High(i) == IF i \in Towards(st.f, n) /\ r.hi < st.r[n].hi THEN st.f[<<i, n>>] + r.hi ELSE OpenEnd
             Low(j)  == IF j \in Away(st.f, n) /\ r.lo > st.r[n].lo THEN r.lo - st.f[<<n, j>>] ELSE -OpenEnd
         IN  Live([i \in Nodes |-> IF i = n THEN r
                                   ELSE Interval(Greatest(st.r[i].lo, Low(i)), Least(st.r[i].hi, High(i)))], st.f)

\* a - b <= c also holds.  Every i - a <= x reaches b's upper end now, and
\* a's lower end every b - j <= y.
Fact(st, a, b, c) ==
    IF st.dead THEN st
    ELSE IF a = b THEN (IF c < 0 THEN Dead ELSE st)
    ELSE IF b = Zero THEN Bound(st, a, AtMost(c))
    ELSE IF a = Zero THEN Bound(st, b, AtLeast(-c))
    ELSE IF BoundOf(st, a, b) <= c THEN st
    ELSE IF Says(st.f, b, a, -c - 1) THEN Dead
    ELSE LET f == WithFact(st.f, a, b, c)
             High(i) == IF i = a THEN c + st.r[b].hi
                        ELSE IF i \in Towards(f, a) THEN f[<<i, a>>] + c + st.r[b].hi ELSE OpenEnd
             Low(j)  == IF j = b THEN st.r[a].lo - c
                        ELSE IF j \in Away(f, b) THEN st.r[a].lo - c - f[<<b, j>>] ELSE -OpenEnd
         IN  Live([i \in Nodes |-> Interval(Greatest(st.r[i].lo, Low(i)), Least(st.r[i].hi, High(i)))], f)

Equal(st, a, b, c) == Fact(Fact(st, a, b, c), b, a, -c)

\* Node n became n + by, which is in v.
Shift(st, n, by, v) ==
    IF st.dead THEN st
    ELSE Bound(Bound(State([st.r EXCEPT ![n] = Interval(@.lo + by, @.hi + by)], Moved(st.f, n, by)), n, Kinds[n]), n, v)

\* Every range as far as the facts leave it.
Tight(r, f) ==
    LET High(a) == {f[<<a, b>>] + r[b].hi : b \in Away(f, a)}
        Low(b)  == {r[a].lo - f[<<a, b>>] : a \in Towards(f, b)}
    IN  Live([n \in Nodes |-> Interval(Hull(Low(n) \cup {r[n].lo}).hi, Hull(High(n) \cup {r[n].hi}).lo)], f)

\* What holds on either path: a fact of one, as far as the other has it.
JoinStates(s, t) ==
    IF s.dead THEN t ELSE IF t.dead THEN s
    ELSE LET f == [p \in DOMAIN s.f \cup DOMAIN t.f |->
                     Greatest(BoundOf(s, p[1], p[2]), BoundOf(t, p[1], p[2]))]
         IN  Tight([n \in Nodes |-> Join(s.r[n], t.r[n])], Closed(f))

WidenStatesKeepingFacts(top, new, settle) == \* seeded fault
    IF top.dead THEN new ELSE IF new.dead THEN top
    ELSE Tight([n \in Nodes |-> Widen(top.r[n], new.r[n], Kinds[n])], top.f)

\* The top of a loop after one more round: an end that grows goes to its
\* limit, a fact that got weaker goes, and every fact when it is to settle.
WidenStates(top, new, settle) ==
    IF top.dead THEN new ELSE IF new.dead THEN top
    ELSE LET kept == {p \in DOMAIN top.f \cup DOMAIN new.f :
                        ~settle /\ BoundOf(new, p[1], p[2]) <= BoundOf(top, p[1], p[2])}
         IN  Tight([n \in Nodes |-> Widen(top.r[n], new.r[n], Kinds[n])],
                   Closed([p \in kept |-> BoundOf(top, p[1], p[2])]))
=============================================================================
