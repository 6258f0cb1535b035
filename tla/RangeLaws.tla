----------------------------- MODULE RangeLaws -----------------------------
(***************************************************************************)
(* What the range analysis may say of a program, asked of every run of it: *)
(* the operators of the machine, and the code run on every store from      *)
(* every value of its locals and every length of its list.  Items of the   *)
(* list are anything of their type.                                        *)
(***************************************************************************)
EXTENDS Ranges

CONSTANTS
    Types,      \* the types whose operators are asked about
    Programs,   \* the functions that are analysed
    Locals      \* their integer locals

VARIABLE asked

\* The ranges inside a type.
Inside(ty) == {i \in {Interval(lo, hi) : lo \in Values(ty), hi \in Values(ty)} : i.lo <= i.hi}

AskRanges ==
    \E ty \in Types : \E a, b \in Inside(ty) :
        asked' = [kind |-> "ranges", ty |-> ty, a |-> a, b |-> b]

AskProgram ==
    \E body \in Programs, checked \in BOOLEAN : asked' = [kind |-> "program", body |-> body, checked |-> checked]
-----------------------------------------------------------------------------
ResultsHold(ty, a, b, x, y) ==
    /\ ArithmeticHolds(ty, a, b, x, y)
    /\ ShiftSafe(b, ty) => y \in 0..(ty.bits - 1)
    /\ \A checked \in BOOLEAN :
         LET k == IF checked THEN y ELSE y % ty.bits
             n == ShiftAmount(b, ty, checked)
         IN  k \in 0..(ty.bits - 1) =>
               /\ Has(n, k)
               /\ Has(Shl(a, n, ty), Wrapped(x * 2 ^ k, ty))
               /\ Has(Shr(a, n), x \div 2 ^ k)
    /\ Has(BitAnd(a, b, ty), And(x, y, ty))
    /\ Has(BitOrXor(a, b, ty, FALSE), Or(x, y, ty))
    /\ Has(BitOrXor(a, b, ty, TRUE), Xor(x, y, ty))
    /\ Has(BitNot(a, ty), Not(x, ty))
-----------------------------------------------------------------------------
(* Runs.  An expression gives one of some outcomes, or fails at a check.    *)
Gives(v)  == [ok |-> TRUE, v |-> v]
Fails(at) == [ok |-> FALSE, v |-> at]

\* One operation on two values, in a build with or without checks.
Outcome(e, x, y, checked) ==
    LET exact == CASE e.op \in {"+", "+%"} -> x + y
                   [] e.op \in {"-", "-%"} -> x - y
                   [] e.op \in {"*", "*%"} -> x * y
                   [] e.op = "/" /\ y # 0  -> Whole(x, y)
                   [] e.op = "%" /\ y # 0  -> Remainder(x, y)
                   [] OTHER                -> 0
        over == IF e.op \in {"/", "%"} THEN x = Ty.lo /\ y = -1 ELSE ~Has(Ty, exact)
    IN  IF e.op \in {"/", "%"} /\ y = 0 THEN Fails(e.at)
        ELSE IF over /\ checked /\ ~Wrapping(e.op) THEN Fails(e.at) ELSE Gives(Wrapped(exact, Ty))

RECURSIVE Outcomes(_, _, _)
Outcomes(s, e, checked) ==
    LET Of(x) == Outcomes(s, x, checked)
        Both(f(_, _)) == UNION {IF ~a.ok THEN {a} ELSE IF ~b.ok THEN {b} ELSE f(a.v, b.v) : a \in Of(e.a), b \in Of(e.b)}
    IN  CASE e.k = "int"  -> {Gives(e.v)}
          [] e.k = "get"  -> {Gives(s[e.l])}
          [] e.k = "len"  -> {Gives(s[Size])}
          [] e.k = "item" -> UNION {IF ~i.ok THEN {i} ELSE IF i.v \notin 0..(s[Size] - 1) THEN {Fails(e.at)}
                                    ELSE {Gives(v) : v \in Values(Ty)} : i \in Of(e.i)}
          [] e.k = "neg"  -> {IF ~a.ok THEN a ELSE Outcome([op |-> "-", at |-> e.at], 0, a.v, checked) : a \in Of(e.a)}
          [] e.k = "rand" -> Both(LAMBDA x, y : {Gives(v) : v \in Least(x, y)..Greatest(x, y)})
          [] OTHER        -> Both(LAMBDA x, y : {Outcome(e, x, y, checked)})

Compared(op, x, y) ==
    CASE op = "<" -> x < y [] op = "<=" -> x <= y [] op = ">" -> x > y [] op = ">=" -> x >= y
      [] op = "=" -> x = y [] OTHER -> x # y

RECURSIVE Truths(_, _, _)
Truths(s, c, checked) ==
    LET Of(x) == Truths(s, x, checked)
    IN  CASE c.k = "not"          -> {IF a.ok THEN Gives(~a.v) ELSE a : a \in Of(c.a)}
          [] c.k \in {"and", "or"} -> UNION {IF a.ok /\ a.v = (c.k = "and") THEN Of(c.b) ELSE {a} : a \in Of(c.a)}
          [] OTHER                -> {IF ~a.ok THEN a ELSE IF ~b.ok THEN b ELSE Gives(Compared(c.op, a.v, b.v)) :
                                        a \in Outcomes(s, c.a, checked), b \in Outcomes(s, c.b, checked)}

\* Stores with what an expression or a condition gives in them.
With(S, e, checked)     == UNION {{[s |-> s, o |-> o] : o \in Outcomes(s, e, checked)} : s \in S}
WithTruth(S, c, checked) == UNION {{[s |-> s, o |-> o] : o \in Truths(s, c, checked)} : s \in S}
Good(R)   == {r \in R : r.o.ok}
Failed(R) == {r.o.v : r \in R \ Good(R)}

\* What some code does from a set of stores, in a build that has checks or
\* not and leaves out some assumptions: the stores at its end, at its breaks
\* and continues, and the checks that failed, where the program stopped.
Ran(out, failed) == [out |-> out, breaks |-> {}, continues |-> {}, failed |-> failed]
Then(one, rest)  == [rest EXCEPT !.breaks = one.breaks \cup @, !.continues = one.continues \cup @,
                                 !.failed = one.failed \cup @]

RECURSIVE Exec(_, _, _), Tops(_, _, _, _)

\* Which stores at the top of a loop or an `if` go on with its body, and which
\* leave.
Turned(R) == [goes |-> {r.s : r \in {q \in Good(R) : q.o.v}}, leaves |-> {r.s : r \in {q \in Good(R) : ~q.o.v}},
              failed |-> Failed(R)]
Turn(S, s, last, build) ==
    IF s.k = "for" THEN [goes |-> {t \in S : t[s.l] < last}, leaves |-> {t \in S : t[s.l] >= last}, failed |-> {}]
    ELSE Turned(WithTruth(S, s.c, build.checked))

\* Every store at the top of a loop: S and what a body leads back to it.
Back(s, body) ==
    LET back == body.out \cup body.continues
    IN  IF s.k = "for" THEN {[t EXCEPT ![s.l] = Wrapped(@ + 1, Ty)] : t \in back} ELSE back
Grown(S, back, s, last, build) == IF back \subseteq S THEN S ELSE Tops(S \cup back, s, last, build)
Tops(S, s, last, build) ==
    Grown(S, Back(s, Exec(Turn(S, s, last, build).goes, s.body, build)), s, last, build)

Left(turn, body) == Ran(turn.leaves \cup body.breaks, turn.failed \cup body.failed)
LeftFrom(turn, s, build) == Left(turn, Exec(turn.goes, s.body, build))
ExecLoop(S, s, last, build) == LeftFrom(Turn(Tops(S, s, last, build), s, last, build), s, build)

\* A `for` loop, for each value of its end: its operands are good in the
\* stores of From and To.
Ending(To, s, v) ==
    {[n \in DOMAIN r.s |-> IF n = s.end THEN v ELSE r.s[n]] : r \in {q \in Good(To) : q.o.v = v}}
Together(loops, failed) ==
    Ran(UNION {l.out : l \in loops}, UNION {l.failed : l \in loops} \cup failed)
ForEach(To, s, failed, build) ==
    Together({ExecLoop(Ending(To, s, v), s, v, build) : v \in {r.o.v : r \in Good(To)}}, failed \cup Failed(To))
ExecFor(From, s, build) ==
    ForEach(UNION {{[s |-> [r.s EXCEPT ![s.l] = r.o.v], o |-> o] : o \in Outcomes(r.s, s.to, build.checked)} :
                      r \in Good(From)}, s, Failed(From), build)

Either(turn, then, else) ==
    Then(then, [else EXCEPT !.out = then.out \cup @, !.failed = turn.failed \cup @])
ExecIf(turn, s, build) == Either(turn, Exec(turn.goes, s.then, build), Exec(turn.leaves, s.else, build))

\* The stores in which an index is inside the list.
Indexed(I) == {r \in Good(I) : r.o.v \in 0..(r.s[Size] - 1)}

ExecPut(R, I, s) ==
    Ran({r.s : r \in Indexed(I)},
        Failed(R) \cup Failed(I) \cup (IF Indexed(I) = Good(I) THEN {} ELSE {s.at}))
PutAt(R, s, build) == ExecPut(R, With({r.s : r \in Good(R)}, s.i, build.checked), s)

ExecEffect(R, s) ==
    Ran(IF s.k = "set" THEN {[r.s EXCEPT ![s.l] = r.o.v] : r \in Good(R)}
        ELSE IF s.k = "add" THEN {[r.s EXCEPT ![Size] = @ + 1] : r \in {q \in Good(R) : q.s[Size] < MaxItems}}
        ELSE {[r.s EXCEPT ![Size] = @ - 1] : r \in Indexed(R)},
        Failed(R))

ExecAssume(turn, s, build) == Then(Ran({}, turn.failed), Exec(turn.goes, s.body, build))

ExecOne(S, s, build) ==
    CASE s.k \in {"set", "add"} -> ExecEffect(With(S, s.e, build.checked), s)
      [] s.k = "remove"   -> ExecEffect(With(S, s.i, build.checked), s)
      [] s.k = "put"      -> PutAt(With(S, s.e, build.checked), s, build)
      [] s.k = "clear"    -> Ran({[t EXCEPT ![Size] = 0] : t \in S}, {})
      [] s.k = "if"       -> ExecIf(Turn(S, s, 0, build), s, build)
      [] s.k = "while"    -> ExecLoop(S, s, 0, build)
      [] s.k = "for"      -> ExecFor(With(S, s.from, build.checked), s, build)
      [] s.k = "assume"   -> IF s.id \in build.trusted THEN Exec(S, s.body, build)
                             ELSE ExecAssume(Turn(S, s, 0, build), s, build)
      [] s.k = "break"    -> [Ran({}, {}) EXCEPT !.breaks = S]
      [] s.k = "continue" -> [Ran({}, {}) EXCEPT !.continues = S]
      [] OTHER            -> Ran({}, {})

After(one, rest, build) == Then(one, Exec(one.out, rest, build))
Exec(S, body, build) ==
    IF S = {} \/ body = <<>> THEN Ran(S, {}) ELSE After(ExecOne(S, Head(body), build), Tail(body), build)

\* The stores a function can start with: an end of a loop has no value yet.
Starts == {[n \in DOMAIN Terms |-> IF n \in Locals THEN v[n] ELSE IF n = Size THEN k ELSE 0] :
             v \in [Locals -> Values(Ty)], k \in 0..MaxItems}

\* Whether a state holds of a store.
Fits(st, s) ==
    /\ ~st.dead
    /\ \A n \in DOMAIN Terms : Has(st.r[n], s[n])
    /\ \A p \in DOMAIN st.f : s[p[1]] - s[p[2]] <= st.f[p]

\* A build of what was analysed: with checks or not, and the assumptions it
\* leaves out.
Build(a, checked) == [checked |-> checked, trusted |-> Trusted(a, checked)]

\* The checks that a run may fail at: not those that were left out, except a
\* check other than a bounds check that rests on an assumption left out.
MayFail(a, build) ==
    LET resting == UNION {u.removed : u \in {v \in a.uses : v.id \in build.trusted}}
    IN  {s.at : s \in {t \in a.sites : t.at \notin Proven(a.sites) \/ (t.kind # "bounds" /\ t.at \in resting)}}

\* Whether what the analysis says of a function holds of its runs.
Agrees(body, a, build, ran) ==
    /\ {s.at : s \in a.sites} = {s.at : s \in Kept(body, build.checked)}
    /\ ran.failed \subseteq MayFail(a, build)
    /\ \A s \in ran.out : Fits(a.st, s)

Runs(body, a, build) == Agrees(body, a, build, Exec(Starts, body, build))
Built(body, a, checked) == Runs(body, a, Build(a, checked))

\* No range is too small and no check is left out that a run needs.  A range
\* of two operands' values holds every result of each operator, wrapped where
\* the build does not check; and a function analysed with its loops to their
\* fixed points, then run from every store: it fails only at checks that the
\* build kept, the state at its end holds of every store it ends with, and
\* every check of it was decided.  The build leaves out a proven check, so a
\* fact kept one step too long is a wild read in a release program, and only
\* for the run that reaches it (range/mod.rs:7, loops.rs:121, interval.rs:141).
RangesHold ==
    /\ asked.kind = "ranges" =>
         \A x \in Values(asked.a), y \in Values(asked.b) : ResultsHold(asked.ty, asked.a, asked.b, x, y)
    /\ asked.kind = "program" => Built(asked.body, Analyse(asked.body, asked.checked), asked.checked)
=============================================================================
