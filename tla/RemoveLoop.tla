----------------------------- MODULE RemoveLoop -----------------------------
(***************************************************************************)
(* `for b in xs` whose body says `remove b` (kir/src/lower/remove.rs,      *)
(* scopes.rs; kestrel_rt_list_compact and its neighbours in                *)
(* runtime/src/list.rs).  The list is compacted while the loop runs: kept  *)
(* counts the items kept so far, packed at the front, and next is the      *)
(* first item not reached.  Every way out of a pass runs the keep step,    *)
(* and every way out of the loop moves the rest down.                      *)
(*                                                                         *)
(* A program loops over a list xs and, inside of it, over a list ys or     *)
(* over the list that the current item holds, and does what the checker    *)
(* allows (check/src/body/remove.rs, moves.rs).  With `shared`, code that  *)
(* the body calls also reaches xs some other way.                          *)
(***************************************************************************)
EXTENDS Integers, Sequences, SequencesExt, FiniteSets

CONSTANTS
    Programs,   \* how many items xs has, how many ys and the lists inside xs, and
                \* whether others reach xs
    Spare,      \* the items that others add
    Room        \* bound: items that a list has room for

VARIABLES
    lists,      \* the lists, by their names
    loops,      \* the removing loops that run, the innermost last
    at,         \* where: idle, the top of a loop, in its body, left, or stopped
    shared,     \* whether others reach xs
    want,       \* history: what each list is to hold
    dropped     \* history: the items whose memory was freed

state == <<lists, loops, at, shared, want, dropped>>

Gone  == 0      \* a slot of zeros, and the list in it
XS    == -1     \* the names of the lists that variables hold
YS    == -2
Names == {XS, YS, Gone} \cup 1..Room \cup Spare

\* The items of the list that item b holds, and of ys as if it were one more.
Item(b, k)   == (Room + 1) * k + b
Inside(b, n) == [k \in 1..n |-> Item(b, k)]

List(items) ==
    [len |-> Len(items), slots |-> [k \in 0..(Room - 1) |-> IF k < Len(items) THEN items[k + 1] ELSE Gone]]
Items(l)  == [k \in 1..l.len |-> l.slots[k - 1]]
Has(l, k) == k \in 0..(l.len - 1)
Inner     == loops[Len(loops)]
-----------------------------------------------------------------------------
(* What the runtime does to a list.                                         *)

\* The items from next on move down to kept; the slots they leave are zeroed.
Compact(l, kept, next) ==
    LET from == IF kept < next THEN kept ELSE next
        len  == from + l.len - next
    IN  IF next > l.len THEN [l EXCEPT !.len = IF kept < @ THEN kept ELSE @]
        ELSE [len |-> len,
              slots |-> [k \in DOMAIN l.slots |->
                           IF from <= k /\ k < len THEN l.slots[k + next - from]
                           ELSE IF len <= k /\ k < l.len THEN Gone ELSE l.slots[k]]]

TakeOut(l, i) ==
    [len |-> l.len - 1,
     slots |-> [k \in DOMAIN l.slots |-> IF k = l.len - 1 THEN Gone
                                         ELSE IF i <= k /\ k < l.len THEN l.slots[k + 1] ELSE l.slots[k]]]

Insert(l, i, b) ==
    [len |-> l.len + 1,
     slots |-> [k \in DOMAIN l.slots |-> IF k = i THEN b
                                         ELSE IF i < k /\ k <= l.len THEN l.slots[k - 1] ELSE l.slots[k]]]

Clear(l) == [len |-> 0, slots |-> [k \in DOMAIN l.slots |-> IF k < l.len THEN Gone ELSE l.slots[k]]]
-----------------------------------------------------------------------------
(* Parts of the compiled loop.  They work on m: the lists, the loops, and   *)
(* whether no check of an index has failed.                                 *)
Now == [lists |-> lists, loops |-> loops, ok |-> TRUE]

\* The list of the innermost loop.  One inside an item is found again in the
\* item's slot at each use.
Slot(m)  == m.loops[1].i
Found(m) == m.loops[Len(m.loops)].inside => Has(m.lists[XS], Slot(m))
Name(m)  == IF m.loops[Len(m.loops)].inside THEN m.lists[XS].slots[Slot(m)]
            ELSE IF Len(m.loops) = 1 THEN XS ELSE YS

KeepStepByCopy(m) == \* seeded fault
    LET f == m.loops[Len(m.loops)]
        l == m.lists[Name(m)]
        past == [f EXCEPT !.kept = IF f.removed THEN @ ELSE @ + 1, !.next = f.i + 1]
        done == [m EXCEPT !.loops[Len(m.loops)] = past]
    IN  IF f.removed \/ f.kept = f.i THEN done
        ELSE IF ~(Found(m) /\ Has(l, f.i) /\ Has(l, f.kept)) THEN [m EXCEPT !.ok = FALSE]
        ELSE [done EXCEPT !.lists[Name(m)].slots[f.kept] = l.slots[f.i]]

\* The end of a pass: an item that was not removed moves down to kept.
KeepStep(m) ==
    LET f == m.loops[Len(m.loops)]
        l == m.lists[Name(m)]
        past == [f EXCEPT !.kept = IF f.removed THEN @ ELSE @ + 1, !.next = f.i + 1]
        done == [m EXCEPT !.loops[Len(m.loops)] = past]
    IN  IF ~m.ok \/ f.removed \/ f.kept = f.i THEN done
        ELSE IF ~(Found(m) /\ Has(l, f.i) /\ Has(l, f.kept)) THEN [m EXCEPT !.ok = FALSE]
        ELSE [done EXCEPT !.lists[Name(m)].slots = [@ EXCEPT ![f.i] = Gone, ![f.kept] = l.slots[f.i]]]

\* The innermost loop is over: its list is compacted.
Finish(m) ==
    LET f == m.loops[Len(m.loops)]
        out == [m EXCEPT !.loops = Front(@)]
    IN  IF ~m.ok \/ ~Found(m) THEN [out EXCEPT !.ok = FALSE]
        ELSE IF Name(m) = Gone THEN out
        ELSE [out EXCEPT !.lists[Name(m)] = Compact(@, f.kept, f.next)]

\* `break`, and `return` out of every loop, the innermost first.
BrokenInAPass(m) == Finish(m) \* seeded fault
Broken(m) == Finish(KeepStep(m))

ReturnedFromOne(m) == [Broken(m) EXCEPT !.loops = <<>>] \* seeded fault
Returned(m) == LET out[n \in 0..Len(m.loops)] == IF n = 0 THEN m ELSE Broken(out[n - 1]) IN out[Len(m.loops)]

Become(m, where) ==
    /\ lists' = m.lists
    /\ loops' = m.loops
    /\ at' = IF ~m.ok THEN "stopped" ELSE IF m.loops = <<>> THEN "left" ELSE where
    /\ UNCHANGED shared

\* Items are dropped, each with the list it holds.
Drop(items) ==
    LET freed == items \ {Gone}
    IN  dropped' = dropped \cup freed \cup UNION {ToSet(Items(lists[b])) : b \in freed \cap Names}
\* A sequence of items without one of them.
Without(items, b) ==
    IF b \in ToSet(items) THEN RemoveAt(items, CHOOSE k \in DOMAIN items : items[k] = b) ELSE items
-----------------------------------------------------------------------------
NoLists == [n \in Names |-> List(<<>>)]
NoItems == [n \in Names |-> <<>>]

Init ==
    /\ lists = NoLists /\ loops = <<>> /\ at = "idle"
    /\ shared = FALSE /\ want = NoItems /\ dropped = {}

\* A loop that is about to begin, over a list of some length.
Loop(l, inside, gone) ==
    [i |-> 0, end |-> l.len, kept |-> 0, next |-> 0, removed |-> FALSE, inside |-> inside, gone |-> gone]

Begin ==
    /\ at = "idle"
    /\ \E p \in Programs :
         /\ want' = [x \in Names |-> CASE x = XS -> [k \in 1..p[1] |-> k]
                                       [] x = YS -> Inside(Room + 1, p[2])
                                       [] x \in 1..Room -> Inside(x, p[2])
                                       [] OTHER -> <<>>]
         /\ shared' = p[3]
    /\ lists' = [x \in Names |-> List(want'[x])]
    /\ loops' = <<Loop(lists'[XS], FALSE, FALSE)>>
    /\ at' = "top"
    /\ UNCHANGED dropped

\* A pass begins with nothing removed.
Pass ==
    /\ at = "top" /\ Inner.i < Inner.end
    /\ loops' = [loops EXCEPT ![Len(loops)].removed = FALSE]
    /\ at' = "body"
    /\ UNCHANGED <<lists, shared, want, dropped>>

End ==
    /\ at = "top" /\ Inner.i >= Inner.end
    /\ Become(Finish(Now), "body")
    /\ UNCHANGED <<want, dropped>>

\* `remove` of the item of the innermost loop or of the one around it: it moves
\* out of its slot and is dropped.  Not twice; and not the item whose list is
\* being looped over.
RemoveItem(d) ==
    LET m == [Now EXCEPT !.loops = SubSeq(@, 1, d)]
        l == lists[Name(m)]
        i == loops[d].i
    IN  /\ at = "body"
        /\ ~loops[d].removed
        /\ d < Len(loops) => ~Inner.inside
        /\ IF Found(m) /\ Has(l, i)
           THEN /\ lists' = [lists EXCEPT ![Name(m)].slots[i] = Gone]
                /\ Drop({l.slots[i]})
                /\ want' = [want EXCEPT ![Name(m)] = Without(@, l.slots[i])]
                /\ loops' = [loops EXCEPT ![d].removed = TRUE]
                /\ UNCHANGED at
           ELSE at' = "stopped" /\ UNCHANGED <<lists, loops, want, dropped>>
        /\ UNCHANGED shared

\* A loop inside: over the item's list, unless the item was removed, or over ys.
Nest(inside) ==
    LET m == [Now EXCEPT !.loops = Append(@, Loop(List(<<>>), inside, Inner.removed))]
    IN  /\ at = "body" /\ Len(loops) = 1
        /\ inside => ~Inner.removed
        /\ Become(IF Found(m) THEN [m EXCEPT !.loops[2].end = lists[Name(m)].len] ELSE [m EXCEPT !.ok = FALSE], "top")
        /\ UNCHANGED <<want, dropped>>

\* The body ends, or `continue`s.  An inner loop that removed the outer item is
\* left at once.
EndBody ==
    LET m == KeepStep(Now)
    IN  /\ at = "body"
        /\ Len(loops) = 2 => loops[1].removed = loops[2].gone
        /\ Become([m EXCEPT !.loops[Len(loops)].i = @ + 1], "top")
        /\ UNCHANGED <<want, dropped>>

Break  == at = "body" /\ Become(Broken(Now), "body") /\ UNCHANGED <<want, dropped>>
Return == at = "body" /\ Become(Returned(Now), "left") /\ UNCHANGED <<want, dropped>>

\* Code that the body calls changes xs.
Others ==
    LET l == lists[XS]
    IN  /\ at = "body" /\ shared
        /\ \/ /\ \E k \in 0..(l.len - 1) : lists' = [lists EXCEPT ![XS] = TakeOut(l, k)] /\ Drop({l.slots[k]})
           \/ /\ l.len < Room
              /\ \E b \in Spare \ (ToSet(Items(l)) \cup dropped), k \in 0..l.len :
                   lists' = [lists EXCEPT ![XS] = Insert(l, k, b)]
              /\ UNCHANGED dropped
           \/ /\ lists' = [lists EXCEPT ![XS] = Clear(l)]
              /\ Drop(ToSet(Items(l)))
        /\ UNCHANGED <<loops, at, shared, want>>

\* The next program.
Rest ==
    /\ at \in {"left", "stopped"}
    /\ lists' = NoLists /\ loops' = <<>> /\ at' = "idle"
    /\ shared' = FALSE /\ want' = NoItems /\ dropped' = {}

Next ==
    \/ Begin \/ Pass \/ End \/ EndBody \/ Break \/ Return \/ Others \/ Rest
    \/ \E d \in DOMAIN loops : RemoveItem(d)
    \/ \E inside \in BOOLEAN : Nest(inside)

Spec == Init /\ [][Next]_state
-----------------------------------------------------------------------------
\* A list holds what it is to hold, and zeros after it.
Whole(n) ==
    /\ Items(lists[n]) = want[n]
    /\ \A k \in DOMAIN lists[n].slots : k >= lists[n].len => lists[n].slots[k] = Gone

Reached == {XS, YS} \cup ((1..Room \cup Spare) \ dropped)
Places  == {p \in Reached \X (0..(Room - 1)) : lists[p[1]].slots[p[2]] # Gone}
Held(p) == lists[p[1]].slots[p[2]]

\* However a removing loop is left, and whichever loop inside it removed what,
\* a list that no loop runs over any more holds the items that were not
\* removed, in their order, with zeros after them, and no legal program fails
\* at an index of such a loop.  Nobody ever reaches freed memory through a
\* list, code that changes it meanwhile included: "reads zeros or moved items,
\* never freed memory" (remove.rs:9), so no item is dropped twice either.
RemovingIsWhole ==
    /\ at = "stopped" => shared
    /\ ~shared /\ at = "left" => Whole(XS)
    /\ ~shared /\ Len(loops) <= 1 => \A n \in Reached \ {XS} : Whole(n)
    /\ \A p \in Places : Held(p) \notin dropped /\ \A q \in Places : Held(p) = Held(q) => p = q
=============================================================================
