------------------------------- MODULE Ranges -------------------------------
(***************************************************************************)
(* The range analysis (kir/src/range/): which checks of a function can     *)
(* never fail.  A function is interpreted from the state in which nothing  *)
(* is known; a check is proven when it cannot fail in any state the        *)
(* analysis decides it in, and the build then leaves it out.               *)
(*                                                                         *)
(* Here a function has integer locals of one type and one list.  Its code  *)
(* is made of records whose k says what they are, and each check has a     *)
(* place `at`.  Expressions: int v, get l, len, item i (an item of the     *)
(* list), rand a b, neg a, arith op a b.  Conditions: cmp op a b, not a,   *)
(* and a b, or a b.  Statements: set l e, put i e, add e, remove i, clear, *)
(* if c then else, while c body, for l from to body (`end` is the term of  *)
(* its end, or None), assume id c body, break, continue, return.           *)
(***************************************************************************)
EXTENDS Facts, Sequences, SequencesExt

CONSTANTS
    Ty,             \* the type of the locals: [lo, hi, bits]
    MaxItems,       \* MAX_ITEMS
    SettleRounds,   \* SETTLE_ROUNDS
    None

Size == "len"       \* the term of the list's length

\* A check, and whether it cannot fail.
Site(at, kind, safe) == [at |-> at, kind |-> kind, safe |-> safe]

\* The checks that every decision about them proved.
Proven(sites) == {s.at : s \in {t \in sites : \A u \in sites : u.at = t.at => u.safe}}

Wrapping(op) == op \in {"+%", "-%", "*%"}

\* Whether a division has checks.
DividesChecked(e) == e.b.k = "int" => e.b.v = 0 \/ (Signed(Ty) /\ e.b.v = -1)

\* The check of a node itself, as a set of at most one.
ChecksOf(e, checked, safe) ==
    IF e.k = "neg" THEN (IF checked THEN {Site(e.at, "overflow", safe)} ELSE {})
    ELSE IF e.op \in {"/", "%"} THEN (IF DividesChecked(e) THEN {Site(e.at, "division", safe)} ELSE {})
    ELSE IF checked /\ ~Wrapping(e.op) THEN {Site(e.at, "overflow", safe)} ELSE {}

\* Every check of some code, as one that is kept.
RECURSIVE SitesOf(_, _)
SitesOf(x, checked) ==
    LET All(parts) == UNION {SitesOf(p, checked) : p \in parts}
    IN  CASE x.k \in {"neg"}           -> All({x.a}) \cup ChecksOf(x, checked, FALSE)
          [] x.k = "arith"             -> All({x.a, x.b}) \cup ChecksOf(x, checked, FALSE)
          [] x.k = "item"              -> All({x.i}) \cup {Site(x.at, "bounds", FALSE)}
          [] x.k = "put"               -> All({x.i, x.e}) \cup {Site(x.at, "bounds", FALSE)}
          [] x.k \in {"rand", "cmp", "and", "or"} -> All({x.a, x.b})
          [] x.k = "not"               -> All({x.a})
          [] x.k \in {"set", "add"}    -> All({x.e})
          [] x.k = "remove"            -> All({x.i})
          [] x.k = "if"                -> All({x.c} \cup ToSet(x.then) \cup ToSet(x.else))
          [] x.k \in {"while", "assume"} -> All({x.c} \cup ToSet(x.body))
          [] x.k = "for"               -> All({x.from, x.to} \cup ToSet(x.body))
          [] OTHER                     -> {}

\* Code that no state reaches keeps its checks.
Kept(body, checked) == UNION {SitesOf(s, checked) : s \in ToSet(body)}
KeptOf(loop, checked) ==
    Kept(loop.body, checked) \cup (IF loop.k = "while" THEN SitesOf(loop.c, checked) ELSE {})
-----------------------------------------------------------------------------
(* Values: a range; the form node + c that the value is, if it has one; two *)
(* forms it lies between, if it has them.                                   *)
Lin(n, c)     == [node |-> n, c |-> c]
Value(r, lin) == [r |-> r, lin |-> lin, between |-> {}]
Forms(v)      == IF v.lin # {} THEN v.lin ELSE v.between
Form(v)       == CHOOSE l \in v.lin : TRUE

\* A value whose range is one number is that number.
Named(v) == IF v.lin = {} /\ Single(v.r) THEN [v EXCEPT !.lin = {Lin(Zero, v.r.lo)}] ELSE v

Plus(v, r, k, keep) ==
    LET Up(forms) == {Lin(l.node, l.c + k) : l \in IF keep THEN forms ELSE {}}
    IN  [r |-> r, lin |-> Up(v.lin), between |-> Up(v.between)]

\* What an expression gives: its value, its checks, and what is learned when
\* they pass.
Found(v, sites, learned) == [v |-> Named(v), sites |-> sites, learned |-> learned]

InRange(l, v)   == [range |-> TRUE, a |-> l, v |-> v]
Diff(a, b, c)   == [range |-> FALSE, a |-> a, b |-> b, c |-> c]
Learn(st, learned) ==
    FoldLeft(LAMBDA s, l : IF l.range THEN Bound(s, l.a, l.v) ELSE Fact(s, l.a, l.b, l.c), st, learned)

\* The range that a passed check teaches about an expression, if it is a local.
Taught(e, v) == IF e.k = "get" THEN <<InRange(e.l, v)>> ELSE <<>>

\* Whether an index is surely inside the list.
InBounds(st, v) ==
    /\ \/ v.r.lo >= 0
       \/ Forms(v) # {} /\ \A l \in Forms(v) : Implies(st, Zero, l.node, l.c)
    /\ \/ v.r.hi < st.r[Size].lo
       \/ Forms(v) # {} /\ \A l \in Forms(v) : Implies(st, l.node, Size, -1 - l.c)

\* After its check passed.
LearnBounds(e, v) ==
    (IF v.lin # {} THEN <<Diff(Zero, Form(v).node, Form(v).c), Diff(Form(v).node, Size, -1 - Form(v).c)>>
                   ELSE <<Diff(Zero, Size, -1 - Greatest(v.r.lo, 0))>>)
      \o Taught(e, Interval(0, MaxItems - 1))

\* What a passed zero check says of the divisor.
LearnNonzero(e, b) ==
    IF b.lo = 0 /\ b.hi > 0 THEN Taught(e, Interval(1, b.hi))
    ELSE IF b.hi = 0 /\ b.lo < 0 THEN Taught(e, Interval(b.lo, -1)) ELSE <<>>

\* An addition, subtraction or multiplication of two values, of which the
\* exact result is in a range, and the settled one in another.
SumOf(e, a, b, exact, settled, checked) ==
    LET keep == FitsIn(exact, Ty) \/ (checked /\ ~Wrapping(e.op))
        v    == CASE e.op \in {"+", "+%"} /\ Single(b.r) -> Plus(a, settled, b.r.lo, keep)
                  [] e.op \in {"-", "-%"} /\ Single(b.r) -> Plus(a, settled, -b.r.lo, keep)
                  [] e.op \in {"+", "+%"} /\ ~Single(b.r) /\ Single(a.r) -> Plus(b, settled, a.r.lo, keep)
                  [] OTHER -> Value(settled, {})
    IN  Found(v, ChecksOf(e, checked, FitsIn(exact, Ty)), <<>>)
Sum(e, a, b, checked) ==
    LET exact == CASE e.op \in {"+", "+%"} -> Add(a.r, b.r)
                   [] e.op \in {"-", "-%"} -> Sub(a.r, b.r)
                   [] OTHER                -> Mul(a.r, b.r)
    IN  SumOf(e, a, b, exact, Settle(exact, Ty, checked /\ ~Wrapping(e.op)), checked)

Quotient(e, a, b, sure, checked) ==
    LET exact == IF e.op = "/" THEN Div(a.r, b.r, Ty) ELSE Rem(a.r, b.r, Ty)
    IN  Found(Value(Settle(exact, Ty, checked), {}), ChecksOf(e, checked, DivisionSafe(a.r, b.r, Ty)),
              IF sure /\ DividesChecked(e) THEN LearnNonzero(e.b, b.r) ELSE <<>>)

ItemOf(st, e, i, sure) ==
    Found(Value(OfType(Ty), {}), i.sites \cup {Site(e.at, "bounds", InBounds(st, i.v))},
          i.learned \o IF sure THEN LearnBounds(e.i, i.v) ELSE <<>>)

\* Between two forms; to is the two values' range.
Between(a, b, to) ==
    [Value(to, {}) EXCEPT !.between = IF a.lin = {} \/ b.lin = {} THEN {} ELSE a.lin \cup b.lin]

Negative(e, a, exact, checked) ==
    Found(Value(Settle(exact, Ty, checked), {}), a.sites \cup ChecksOf(e, checked, FitsIn(exact, Ty)), a.learned)

\* After the operands a and b.
AfterBoth(a, b, found) ==
    [found EXCEPT !.sites = a.sites \cup b.sites \cup @, !.learned = a.learned \o b.learned \o @]

Computed(e, a, b, sure, checked) ==
    AfterBoth(a, b, IF e.k = "rand" THEN Found(Between(a.v, b.v, RandInt(a.v.r, b.v.r, Ty)), {}, <<>>)
                    ELSE IF e.op \in {"/", "%"} THEN Quotient(e, a.v, b.v, sure, checked)
                    ELSE Sum(e, a.v, b.v, checked))

\* An expression in a state; sure: it runs whenever its statement does.
RECURSIVE Eval(_, _, _, _)
Eval(st, e, sure, checked) ==
    CASE e.k = "int"  -> Found(Value(Exact(e.v), {}), {}, <<>>)
      [] e.k = "get"  -> Found(Value(st.r[e.l], {Lin(e.l, 0)}), {}, <<>>)
      [] e.k = "len"  -> Found(Value(st.r[Size], {Lin(Size, 0)}), {}, <<>>)
      [] e.k = "item" -> ItemOf(st, e, Eval(st, e.i, sure, checked), sure)
      [] e.k = "neg"  -> LET a == Eval(st, e.a, sure, checked) IN Negative(e, a, Neg(a.v.r), checked)
      [] OTHER        -> Computed(e, Eval(st, e.a, sure, checked), Eval(st, e.b, sure, checked), sure, checked)
-----------------------------------------------------------------------------
(* Conditions: what is known where they hold and where they do not.         *)
Negated(op)  == CASE op = "<" -> ">=" [] op = ">=" -> "<" [] op = "<=" -> ">" [] op = ">" -> "<="
                  [] op = "=" -> "#" [] OTHER -> "="
Mirrored(op) == CASE op = "<" -> ">" [] op = ">" -> "<" [] op = "<=" -> ">=" [] op = ">=" -> "<=" [] OTHER -> op

CanHold(op, a, b) ==
    CASE op = "<"  -> a.lo < b.hi
      [] op = "<=" -> a.lo <= b.hi
      [] op = ">"  -> a.hi > b.lo
      [] op = ">=" -> a.hi >= b.lo
      [] op = "="  -> Meets(a, b)
      [] OTHER     -> ~(Single(a) /\ a = b)

\* The values of the left side for which it holds, where that says more.
Side(op, a, b) ==
    CASE op = "<"  -> AtMost(b.hi - 1)
      [] op = "<=" -> AtMost(b.hi)
      [] op = ">"  -> AtLeast(b.lo + 1)
      [] op = ">=" -> AtLeast(b.lo)
      [] op = "="  -> b
      [] OTHER     -> IF Single(b) /\ a.lo = b.lo /\ a.hi > a.lo THEN Interval(a.lo + 1, a.hi)
                      ELSE IF Single(b) /\ a.hi = b.lo /\ a.hi > a.lo THEN Interval(a.lo, a.hi - 1)
                      ELSE a
Narrow(st, e, v) == IF e.k = "get" THEN Bound(st, e.l, v) ELSE st

\* x - y <= k, between two forms or a form and the other's range.
Below(st, x, y, k) ==
    LET a == IF x.lin # {} THEN Form(x) ELSE Lin(Zero, x.r.lo)
        b == IF y.lin # {} THEN Form(y) ELSE Lin(Zero, y.r.hi)
    IN  IF x.lin = {} /\ y.lin = {} THEN st ELSE Fact(st, a.node, b.node, k - a.c + b.c)

\* x # y: x's node is not at that end of its range.
Unlike(st, x, y) ==
    IF x.lin = {} \/ ~Single(y.r) \/ st.dead \/ Form(x).node = Zero THEN st
    ELSE LET n == Form(x).node
             at == y.r.lo - Form(x).c
             r == st.r[n]
         IN  IF r.lo = at /\ r.hi > at THEN Bound(st, n, Interval(at + 1, r.hi))
             ELSE IF r.hi = at /\ r.lo < at THEN Bound(st, n, Interval(r.lo, at - 1)) ELSE st

Parts(t, f, sites, learned) == [t |-> t, f |-> f, sites |-> sites, learned |-> learned]

\* A state with what a comparison says of its two sides' forms.
Related(st, op, a, b) ==
    CASE op \in {"<", "<="} -> Below(st, a, b, IF op = "<" THEN -1 ELSE 0)
      [] op \in {">", ">="} -> Below(st, b, a, IF op = ">" THEN -1 ELSE 0)
      [] op = "="           -> Below(Below(st, a, b, 0), b, a, 0)
      [] OTHER              -> Unlike(Unlike(st, a, b), b, a)

\* The state where a comparison holds, a and b being what is known of its sides.
Where(st, op, e, a, b) ==
    IF ~CanHold(op, a.r, b.r) THEN Dead
    ELSE Related(Narrow(Narrow(st, e.a, Side(op, a.r, b.r)), e.b, Side(Mirrored(op), b.r, a.r)), op, a, b)

\* Both sides of a comparison, from what its operands give.
Sides(st, c, a, b) ==
    Parts(Where(st, c.op, c, a.v, b.v), Where(st, Negated(c.op), c, a.v, b.v),
          a.sites \cup b.sites, a.learned \o b.learned)

\* After the first part of `and`, or of `or`.
AndParts(first, then) ==
    Parts(then.t, IF first.t.dead THEN first.f ELSE JoinStates(first.f, then.f), first.sites \cup then.sites, first.learned)
OrParts(first, else) ==
    Parts(IF first.f.dead THEN first.t ELSE JoinStates(first.t, else.t), else.f, first.sites \cup else.sites, first.learned)

\* The parts of a condition in their order; the second part of `and` and `or`
\* only where the first leaves it to be asked.
RECURSIVE CondParts(_, _, _, _), Joint(_, _, _)
Joint(first, c, checked) ==
    CASE c.k = "not" -> Parts(first.f, first.t, first.sites, first.learned)
      [] c.k = "and" -> AndParts(first, CondParts(first.t, c.b, FALSE, checked))
      [] c.k = "or"  -> OrParts(first, CondParts(first.f, c.b, FALSE, checked))
CondParts(st, c, sure, checked) ==
    IF st.dead THEN Parts(Dead, Dead, SitesOf(c, checked), <<>>)
    ELSE IF c.k \in {"not", "and", "or"} THEN Joint(CondParts(st, c.a, sure, checked), c, checked)
    ELSE Sides(st, c, Eval(st, c.a, sure, checked), Eval(st, c.b, sure, checked))

\* A condition, with what its passed checks teach on both sides.
Taken(parts) == [parts EXCEPT !.t = Learn(@, parts.learned), !.f = Learn(@, parts.learned)]
Condition(st, c, checked) == Taken(CondParts(st, c, TRUE, checked))
-----------------------------------------------------------------------------
(* Statements transform where the interpreter is: the state, what `break`   *)
(* and `continue` carried out of the loop, the decided checks and, for each *)
(* assumption, the checks that it removes.                                  *)
Walk(st) == [st |-> st, breaks |-> Dead, continues |-> Dead, sites |-> {}, uses |-> {}]

\* A local gets a value.
Assign(st, l, v) ==
    IF v.lin = {} THEN SetTo(st, l, v.r)
    ELSE IF Form(v).node = l THEN Shift(st, l, Form(v).c, v.r)
    ELSE Equal(SetTo(st, l, v.r), l, Form(v).node, Form(v).c)

\* The length of the list changes by one.
Resize(st, by) == IF st.dead THEN st ELSE Shift(st, Size, by, Add(st.r[Size], Exact(by)))

\* A statement that only has an effect and operands, which give e and i.
Simple(w, s, e, i) ==
    CASE s.k = "set"    -> [w EXCEPT !.st = Assign(Learn(@, e.learned), s.l, e.v), !.sites = @ \cup e.sites]
      [] s.k = "put"    -> [w EXCEPT !.st = Learn(@, e.learned \o i.learned \o LearnBounds(s.i, i.v)),
                                     !.sites = @ \cup e.sites \cup i.sites
                                                 \cup {Site(s.at, "bounds", InBounds(w.st, i.v))}]
      [] s.k = "add"    -> [w EXCEPT !.st = Resize(Learn(@, e.learned), 1), !.sites = @ \cup e.sites]
      [] s.k = "remove" -> [w EXCEPT !.st = Resize(Learn(@, i.learned), -1), !.sites = @ \cup i.sites]
      [] OTHER          -> [w EXCEPT !.st = Equal(Bound(Forget(@, Size), Size, Exact(0)), Size, Zero, 0)]

\* What a `for` loop does once, before its first round: its operands give
\* from and to.
EndKnown(st, s, to) ==
    IF to.v.lin = {} \/ Form(to.v).node = s.l THEN st ELSE Equal(st, s.end, Form(to.v).node, Form(to.v).c)
EntryFor(st, s, from, to) ==
    LET bounded == IF s.end = None THEN st ELSE EndKnown(Bound(Forget(st, s.end), s.end, to.v.r), s, to)
    IN  [st |-> Assign(bounded, s.l, from.v), last |-> to.v.r, sites |-> from.sites \cup to.sites]
EntryFrom(st, s, from, to) == EntryFor(Learn(st, from.learned \o to.learned), s, from, to)
Entry(st, s, checked) ==
    IF s.k = "for" THEN EntryFrom(st, s, Eval(st, s.from, TRUE, checked), Eval(st, s.to, TRUE, checked))
    ELSE [st |-> st, last |-> Ty, sites |-> {}]

\* The step of a `for` loop, which wraps.
Step(st, l) ==
    IF st.dead THEN st
    ELSE LET next == Add(st.r[l], Exact(1))
         IN  IF FitsIn(next, Ty) THEN Shift(st, l, 1, next) ELSE Forget(st, l)

\* Where a `for` loop goes on with its body, and where it ends.
Goes(st, s, last) ==
    LET st1 == Bound(st, s.l, AtMost(last.hi - 1)) IN IF s.end = None THEN st1 ELSE Fact(st1, s.l, s.end, -1)
Leaves(st, s, last) ==
    LET st1 == Bound(st, s.l, AtLeast(last.lo)) IN IF s.end = None THEN st1 ELSE Fact(st1, s.end, s.l, 0)

RECURSIVE Stmts(_, _, _, _), Fixed(_, _, _, _, _, _)

\* The states that one round of a loop goes on with and leaves with, and its
\* body run from the first.
RoundOf(goes, ends, body, s, sites) ==
    LET back == JoinStates(body.st, body.continues)
    IN  [back |-> IF s.k = "for" THEN Step(back, s.l) ELSE back, exit |-> JoinStates(ends, body.breaks),
         sites |-> body.sites \cup sites, uses |-> body.uses]

WhileRound(c, s, mode, checked) == RoundOf(c.t, c.f, Stmts(Walk(c.t), s.body, mode, checked), s, c.sites)
ForRound(goes, ends, s, mode, checked) == RoundOf(goes, ends, Stmts(Walk(goes), s.body, mode, checked), s, {})

\* One round of a loop from the state at its top: the state that goes back to
\* the top, and the one that leaves.
Round(top, s, last, mode, checked) ==
    IF s.k = "for" THEN ForRound(Goes(top, s, last), Leaves(top, s, last), s, mode, checked)
    ELSE WhileRound(Condition(top, s.c, checked), s, mode, checked)

\* The top of a loop run to its fixed point: next is the top after the round.
FixedOr(entry, top, next, round, s, last, rounds, checked) ==
    IF next = top THEN [top |-> top, exit |-> round.exit]
    ELSE Fixed(entry, next, s, last, rounds + 1, checked)
Widened(entry, top, round, s, last, rounds, checked) ==
    FixedOr(entry, top, WidenStates(top, JoinStates(entry, round.back), rounds + 1 >= SettleRounds),
            round, s, last, rounds, checked)
Fixed(entry, top, s, last, rounds, checked) ==
    Widened(entry, top, Round(top, s, last, "rounds", checked), s, last, rounds, checked)

\* A loop: its checks are decided in one more round, from the fixed point,
\* when every loop around it is in its deciding round.
Decided(w, round) ==
    [w EXCEPT !.st = round.exit, !.sites = @ \cup round.sites, !.uses = @ \cup round.uses]
AfterFixed(w, fixed, s, last, mode, checked) ==
    IF mode = "rounds" THEN [w EXCEPT !.st = fixed.exit]
    ELSE Decided(w, Round(fixed.top, s, last, mode, checked))
Repeat(w, s, entry, mode, checked) ==
    IF entry.st.dead THEN [w EXCEPT !.st = Dead, !.sites = @ \cup entry.sites \cup KeptOf(s, checked)]
    ELSE AfterFixed([w EXCEPT !.sites = @ \cup entry.sites],
                    Fixed(entry.st, entry.st, s, entry.last, 0, checked), s, entry.last, mode, checked)

\* An assumption.  Its checks are decided in a run of its block in which it
\* holds; everything that leaves the block comes from a plain run, in which
\* it teaches nothing.
Assumed(w, id, sites, real, plain) ==
    [plain EXCEPT !.sites = w.sites \cup sites \cup real.sites,
                  !.uses = @ \cup real.uses \cup {[id |-> id, removed |-> Proven(real.sites) \ Proven(plain.sites)]}]
Assume(w, s, parts, mode, checked) ==
    IF mode # "decide" THEN Stmts([w EXCEPT !.sites = @ \cup parts.sites], s.body, mode, checked)
    ELSE Assumed(w, s.id, parts.sites,
              Stmts(Walk(IF checked THEN Learn(parts.t, parts.learned) ELSE parts.t), s.body, mode, checked),
              Stmts([w EXCEPT !.sites = {}], s.body, "plain", checked))

Joined(then, else) == [else EXCEPT !.st = JoinStates(then.st, @)]
Else(then, c, s, mode, checked) == Joined(then, Stmts([then EXCEPT !.st = c.f], s.else, mode, checked))
IfStmt(w, c, s, mode, checked) ==
    Else(Stmts([w EXCEPT !.st = c.t, !.sites = @ \cup c.sites], s.then, mode, checked), c, s, mode, checked)

Stmt(w, s, mode, checked) ==
    CASE s.k = "if"       -> IfStmt(w, Condition(w.st, s.c, checked), s, mode, checked)
      [] s.k \in {"while", "for"} -> Repeat(w, s, Entry(w.st, s, checked), mode, checked)
      [] s.k = "assume"   -> Assume(w, s, CondParts(w.st, s.c, TRUE, checked), mode, checked)
      [] s.k = "break"    -> [w EXCEPT !.st = Dead, !.breaks = JoinStates(@, w.st)]
      [] s.k = "continue" -> [w EXCEPT !.st = Dead, !.continues = JoinStates(@, w.st)]
      [] s.k = "return"   -> [w EXCEPT !.st = Dead]
      [] OTHER            -> Simple(w, s, Eval(w.st, s.e, TRUE, checked), Eval(w.st, s.i, TRUE, checked))

Stmts(w, body, mode, checked) ==
    IF body = <<>> THEN w
    ELSE IF w.st.dead THEN [w EXCEPT !.sites = @ \cup Kept(body, checked)]
    ELSE Stmts(Stmt(w, Head(body), mode, checked), Tail(body), mode, checked)

\* A function from its start.
Analyse(body, checked) == Stmts(Walk(Top), body, "decide", checked)

\* The assumptions that a build leaves out: in a release build those that no
\* bounds check rests on.
Trusted(w, checked) ==
    LET bounds == {t.at : t \in {u \in w.sites : u.kind = "bounds"}}
        ids == {u.id : u \in w.uses}
    IN  IF checked THEN {}
        ELSE {id \in ids : \A u \in w.uses : u.id = id => u.removed \cap bounds = {}}
=============================================================================
