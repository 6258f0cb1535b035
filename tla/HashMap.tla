------------------------------ MODULE HashMap ------------------------------
(***************************************************************************)
(* `map[K, V]` of the Kestrel runtime (runtime/src/map.rs, map_copy.rs)    *)
(* and the loops compiled code runs over it (kir/src/lower/maps.rs,        *)
(* codegen/src/func/maps.rs).  Entries sit in insertion order in an array, *)
(* removed ones marked dead; a table of slots with linear probing maps a   *)
(* key's hash to its entry's number (from 0).                              *)
(*                                                                         *)
(* One program changes the maps, also from inside loops over them, in any  *)
(* order the language allows.  A key is its identity and its hash: reading *)
(* and comparing key bytes is not modelled, nor where the arrays live.     *)
(***************************************************************************)
EXTENDS Integers, Sequences, FiniteSets

CONSTANTS
    Maps,      \* the program's maps
    Keys, Values,
    Hash,      \* the hash of each key
    FirstCap,  \* 8 in the code (l.161): the capacity a map first grows to
    MaxCap,    \* i32::MAX in the code (l.172)
    MaxLoops   \* bound: loops nested in one another

ASSUME HashAssumption  == Hash \in [Keys -> Nat]
ASSUME CapAssumption   == FirstCap \in Nat \ {0} /\ MaxCap \in Nat
ASSUME LoopsAssumption == MaxLoops \in Nat

VARIABLES
    map,    \* each map's header, entries and slots
    loops,  \* the loops running, the innermost last
    failed  \* the program failed (it stops there)

vars == <<map, loops, failed>>

Empty   == -1
Removed == -2
NoEntry == -1

NewMap == [entries |-> <<>>, count |-> 0, cap |-> 0, slots |-> <<>>, locks |-> 0]

LeastOf(S) == CHOOSE x \in S : \A y \in S : x <= y
NextPowerOfTwo(n) == LeastOf({p \in {2^i : i \in 0..n} : p >= n})

Used(M)      == Len(M.entries)
SlotCount(M) == Cardinality(DOMAIN M.slots)
Entry(M, n)  == M.entries[n + 1]

\* The live entries of es in their order, and of its first i.
Kept(es) ==
    LET kept[i \in 0..Len(es)] ==
          IF i = 0 THEN <<>>
          ELSE IF es[i].live THEN Append(kept[i - 1], es[i]) ELSE kept[i - 1]
    IN  kept
Live(es) == Kept(es)[Len(es)]
-----------------------------------------------------------------------------
(* Probing and rebuilding. *)

\* The slot that a probe for k comes to after d steps.
At(M, k, d) == (Hash[k] + d) % SlotCount(M)

Holds(M, s, k) == M.slots[s] >= 0 /\ Entry(M, M.slots[s]).key = k

\* The steps at which a probe for k would stop.
Stops(M, k) ==
    {d \in 0..(SlotCount(M) - 1) :
        LET s == At(M, k, d) IN M.slots[s] = Empty \/ Holds(M, s, k)}

ProbeToRemoved(M, k) == \* seeded fault
    LET stop == LeastOf({d \in 0..(SlotCount(M) - 1) : M.slots[At(M, k, d)] = Removed}
                          \cup Stops(M, k))
        s == At(M, k, stop)
    IN  [slot |-> s, found |-> Holds(M, s, k)]

\* l.115: the slot that holds k, or the first one a new entry for k can take.
Probe(M, k) ==
    LET stop == LeastOf(Stops(M, k))
        free == {d \in 0..(stop - 1) : M.slots[At(M, k, d)] = Removed}
    IN  IF Holds(M, At(M, k, stop), k)
        THEN [slot |-> At(M, k, stop), found |-> TRUE]
        ELSE [slot |-> At(M, k, IF free = {} THEN stop ELSE LeastOf(free)),
              found |-> FALSE]

\* l.203: a table of n slots for the entries es, which are all live, and for
\* the first i of them: each goes to the first empty slot from its home.
FirstEmpty(slots, n, k) ==
    (Hash[k] + LeastOf({d \in 0..(n - 1) : slots[(Hash[k] + d) % n] = Empty})) % n
Tables(es, n) ==
    LET table[i \in 0..Len(es)] ==
          IF i = 0 THEN [s \in 0..(n - 1) |-> Empty]
          ELSE [table[i - 1] EXCEPT ![FirstEmpty(table[i - 1], n, es[i].key)] = i - 1]
    IN  table
Rebuilt(es, n) == Tables(es, n)[Len(es)]

\* l.146-158: the live entries move down in place.
Compacted(M) ==
    [M EXCEPT !.entries = Live(@), !.slots = Rebuilt(Live(M.entries), SlotCount(M))]

ReallocatedFull(M, cap) == \* seeded fault
    [M EXCEPT !.entries = Live(@), !.cap = cap,
              !.slots = Rebuilt(Live(M.entries), NextPowerOfTwo(cap))]

\* l.171: new arrays for cap entries, then a new table.
Reallocated(M, cap) ==
    [M EXCEPT !.entries = Live(@), !.cap = cap,
              !.slots = Rebuilt(Live(M.entries), NextPowerOfTwo(2 * cap))]

\* l.144: at least half the entries are removed.
HalfRemoved(M) ==
    LET removed == Used(M) - M.count IN removed > 0 /\ removed * 2 >= Used(M)

Doubled(M) == IF M.cap * 2 > FirstCap THEN M.cap * 2 ELSE FirstCap

\* l.172: a map that would have to grow past the largest entry number.
NeverTooLarge(M) == FALSE \* seeded fault
TooLarge(M) == Used(M) = M.cap /\ ~HalfRemoved(M) /\ Doubled(M) > MaxCap

MakeRoom(M) == IF HalfRemoved(M) THEN Compacted(M) ELSE Reallocated(M, Doubled(M))
-----------------------------------------------------------------------------
(* The operations on a map. *)

\* kestrel_rt_map_find: the number of k's entry.
Find(M, k) ==
    LET p == Probe(M, k)
    IN  IF M.count > 0 /\ p.found THEN M.slots[p.slot] ELSE NoEntry

\* l.253: insert looks in the table if there is one.
Present(M, k) == SlotCount(M) > 0 /\ Probe(M, k).found

\* l.260: a loop runs over the map.
NeverLocked(M) == FALSE \* seeded fault
Locked(M) == M.locks > 0

AddedAtFirstProbe(M, k, v) == \* seeded fault
    LET R == IF Used(M) = M.cap THEN MakeRoom(M) ELSE M
        s == IF SlotCount(M) > 0 THEN Probe(M, k).slot ELSE Probe(R, k).slot
    IN  [R EXCEPT !.entries = Append(@, [key |-> k, val |-> v, live |-> TRUE]),
                  !.count = @ + 1, !.slots[s] = Used(R)]

\* l.266-284: a new entry, in the slot of a probe made after the table was
\* rebuilt.
Added(M, k, v) ==
    LET R == IF Used(M) = M.cap THEN MakeRoom(M) ELSE M
    IN  [R EXCEPT !.entries = Append(@, [key |-> k, val |-> v, live |-> TRUE]),
                  !.count = @ + 1,
                  !.slots[Probe(R, k).slot] = Used(R)]

\* l.301-303: the slot and the entry of k are marked.
Dropped(M, k) ==
    LET s == Probe(M, k).slot
    IN  [M EXCEPT !.slots[s] = Removed,
                  !.entries[M.slots[s] + 1].live = FALSE,
                  !.count = @ - 1]

\* kestrel_rt_map_dup: a compact copy that no loop runs over.
Dup(M) == IF M.count = 0 THEN NewMap ELSE [Reallocated(M, M.count) EXCEPT !.locks = 0]

\* kestrel_rt_map_copy_into: whether S fits into D's own arrays, and the copy.
SlotsFor(n) == IF n = 0 THEN 0 ELSE NextPowerOfTwo(2 * n)

Fits(D, S) == D.locks = 0 /\ S.count <= D.cap /\ SlotsFor(S.count) <= SlotCount(D)

CopyInto(D, S) ==
    LET es == Live(S.entries)
    IN  [D EXCEPT !.entries = es, !.count = Len(es),
                  !.slots = IF SlotCount(D) > 0 THEN Rebuilt(es, SlotCount(D)) ELSE @]
-----------------------------------------------------------------------------
(* Loops.  A loop keeps its place i, the number of entries when it began    *)
(* (end, evaluated once), the lock count it found (saved) and its key.  The *)
(* last three fields are history: the keys when it began, those it came to, *)
(* and whether the map was replaced meanwhile.                              *)

Top == loops[Len(loops)]

LiveAt(M, i) == i < Used(M) /\ Entry(M, i).live

KeysFrom(M, i) ==
    LET es == Live(SubSeq(M.entries, i + 1, Used(M)))
    IN  [x \in DOMAIN es |-> es[x].key]

\* The program runs statements outside loops and in a loop's body.
InCode == ~failed /\ (loops # <<>> => Top.inBody)

Init ==
    /\ map = [m \in Maps |-> NewMap]
    /\ loops = <<>>
    /\ failed = FALSE

\* m[k] = v.  Adding a key to a map that is being looped over fails.
Set(m, k, v) ==
    /\ InCode
    /\ LET M == map[m] IN
       \/ /\ Present(M, k)
          /\ map' = [map EXCEPT ![m].entries[Find(M, k) + 1].val = v]
          /\ UNCHANGED failed
       \/ /\ ~Present(M, k)
          /\ ~Locked(M) /\ ~TooLarge(M)
          /\ map' = [map EXCEPT ![m] = Added(M, k, v)]
          /\ UNCHANGED failed
       \/ /\ ~Present(M, k)
          /\ Locked(M) \/ TooLarge(M)
          /\ failed' = TRUE
          /\ UNCHANGED map
    /\ UNCHANGED loops

\* m.remove(k)
Remove(m, k) ==
    /\ InCode
    /\ Find(map[m], k) # NoEntry
    /\ map' = [map EXCEPT ![m] = Dropped(@, k)]
    /\ UNCHANGED <<loops, failed>>

\* The loops over m run over another map from now on.
Replaced(m) ==
    loops' = [x \in DOMAIN loops |->
                IF loops[x].map = m THEN [loops[x] EXCEPT !.replaced = TRUE] ELSE loops[x]]

\* m = n: into m's arrays when they have room, else a new copy.
Assign(m, n) ==
    /\ InCode
    /\ m # n
    /\ map' = [map EXCEPT ![m] = IF Fits(@, map[n]) THEN CopyInto(@, map[n]) ELSE Dup(map[n])]
    /\ Replaced(m)
    /\ UNCHANGED failed

\* m = map[K, V]()
Clear(m) ==
    /\ InCode
    /\ map' = [map EXCEPT ![m] = NewMap]
    /\ Replaced(m)
    /\ UNCHANGED failed

\* The value variable of a loop is assigned.  Where the body may replace the
\* map, its place is found again and checked (PANIC_MAP_CHANGED).
SetItem(x, v) ==
    /\ InCode
    /\ LET m == loops[x].map
           i == loops[x].i
       IN  IF i < Used(map[m])
           THEN /\ map' = [map EXCEPT ![m].entries[i + 1].val = v]
                /\ UNCHANGED failed
           ELSE failed' = TRUE /\ UNCHANGED map
    /\ UNCHANGED loops

\* MapOp::Lock, and the loop is before its first entry.
BeginLoop(m) ==
    /\ InCode
    /\ Len(loops) < MaxLoops
    /\ map' = [map EXCEPT ![m].locks = @ + 1]
    /\ loops' = Append(loops, [map |-> m, i |-> 0, end |-> Used(map[m]),
                               saved |-> map[m].locks, inBody |-> FALSE,
                               from |-> KeysFrom(map[m], 0), seen |-> <<>>,
                               replaced |-> FALSE])
    /\ UNCHANGED failed

\* The loop comes to its next entry, and skips it if it is not live.
Pass ==
    /\ ~failed /\ loops # <<>>
    /\ ~Top.inBody /\ Top.i < Top.end
    /\ LET M == map[Top.map] IN
       loops' = IF LiveAt(M, Top.i)
                THEN [loops EXCEPT ![Len(loops)].inBody = TRUE,
                                   ![Len(loops)].seen = Append(@, Entry(M, Top.i).key)]
                ELSE [loops EXCEPT ![Len(loops)].i = @ + 1]
    /\ UNCHANGED <<map, failed>>

\* The body ends, or `continue`s.
EndBody ==
    /\ InCode /\ loops # <<>>
    /\ loops' = [loops EXCEPT ![Len(loops)].inBody = FALSE, ![Len(loops)].i = @ + 1]
    /\ UNCHANGED <<map, failed>>

\* After the last entry, or at a `break`, the lock count is what it was.
EndLoop ==
    /\ ~failed /\ loops # <<>>
    /\ Top.inBody \/ Top.i >= Top.end
    /\ map' = [map EXCEPT ![Top.map].locks = Top.saved]
    /\ loops' = SubSeq(loops, 1, Len(loops) - 1)
    /\ UNCHANGED failed

\* `return` unlocks every map, innermost loop first (scopes.rs l.179-181),
\* so that what the outermost loop over a map saved is what is left.
SavedByInnermost(m, x) == \* seeded fault
    loops[x].map = m /\ \A y \in (x + 1)..Len(loops) : loops[y].map # m
SavedBy(m, x) == loops[x].map = m /\ \A y \in 1..(x - 1) : loops[y].map # m

Return ==
    /\ InCode /\ loops # <<>>
    /\ map' = [m \in Maps |->
                 IF \E x \in DOMAIN loops : SavedBy(m, x)
                 THEN [map[m] EXCEPT !.locks = loops[CHOOSE x \in DOMAIN loops : SavedBy(m, x)].saved]
                 ELSE map[m]]
    /\ loops' = <<>>
    /\ UNCHANGED failed

\* A failed program is over.
Over == failed /\ UNCHANGED vars

Next ==
    \/ \E m \in Maps :
        \/ \E k \in Keys, v \in Values : Set(m, k, v)
        \/ \E k \in Keys : Remove(m, k)
        \/ \E n \in Maps : Assign(m, n)
        \/ Clear(m) \/ BeginLoop(m)
    \/ \E x \in DOMAIN loops, v \in Values : SetItem(x, v)
    \/ Pass \/ EndBody \/ EndLoop \/ Return \/ Over

Spec == Init /\ [][Next]_vars
-----------------------------------------------------------------------------
(* Properties. *)

EntryType == [key : Keys, val : Values, live : BOOLEAN]

\* Every variable has its type; a slot names an entry in use, and a loop is
\* inside the entries it began with.
TypeOK ==
    /\ \A m \in Maps :
        LET M == map[m] IN
        /\ M.entries \in Seq(EntryType)
        /\ M.count \in Nat /\ M.cap \in 0..MaxCap /\ M.locks \in 0..MaxLoops
        /\ DOMAIN M.slots = 0..(SlotCount(M) - 1)
        /\ \A s \in DOMAIN M.slots : M.slots[s] \in Removed..(Used(M) - 1)
    /\ Len(loops) <= MaxLoops
    /\ \A x \in DOMAIN loops : loops[x].i \in 0..loops[x].end
    /\ failed \in BOOLEAN

\* Every live entry is found by its key, so no key is there twice; a key with
\* no live entry is not found; and every probe stops.
FindAgrees ==
    \A m \in Maps :
        LET M == map[m]
            live == {n \in 0..(Used(M) - 1) : Entry(M, n).live}
        IN  /\ SlotCount(M) > 0 => \A k \in Keys : Stops(M, k) # {}
            /\ \A n \in live : Find(M, Entry(M, n).key) = n
            /\ \A k \in Keys \ {Entry(M, n).key : n \in live} : Find(M, k) = NoEntry

\* l.119: "at most `cap` slots are taken, out of at least `2 * cap`", however
\* keys are added, removed and copied; a table's size is a power of two (the
\* mask of l.116), and count is the number of live entries.
TableHasRoom ==
    \A m \in Maps :
        LET M == map[m] IN
        /\ M.count = Len(Live(M.entries))
        /\ Used(M) <= M.cap /\ 2 * M.cap <= SlotCount(M)
        /\ Cardinality({s \in DOMAIN M.slots : M.slots[s] # Empty}) <= Used(M)
        /\ SlotCount(M) > 0 => \E i \in 0..SlotCount(M) : SlotCount(M) = 2^i

\* l.287-288: a loop may remove keys.  Unless its map is replaced, a loop comes to
\* the keys of its map in their order, each at most once, none that was added
\* meanwhile, and it misses only keys that were removed.
LoopVisitsInOrder ==
    \A x \in DOMAIN loops : ~loops[x].replaced =>
        LET L == loops[x]
            path == L.seen \o KeysFrom(map[L.map], IF L.inBody THEN L.i + 1 ELSE L.i)
            place(k) == CHOOSE p \in DOMAIN L.from : L.from[p] = k
        IN  /\ \A p \in DOMAIN path : \E q \in DOMAIN L.from : path[p] = L.from[q]
            /\ \A p, q \in DOMAIN path : p < q => place(path[p]) < place(path[q])
            /\ \A p \in DOMAIN L.from :
                 \/ \E q \in DOMAIN path : path[q] = L.from[p]
                 \/ Find(map[L.map], L.from[p]) = NoEntry

\* A map is locked as often as loops run over it, and not after the last one
\* has ended, by whatever way; replacing a map inside a loop unlocks it.
LocksMatchLoops ==
    \A m \in Maps :
        LET over == {x \in DOMAIN loops : loops[x].map = m} IN
        IF \E x \in over : loops[x].replaced
        THEN map[m].locks <= Cardinality(over)
        ELSE map[m].locks = Cardinality(over)

\* The entries of a map stay where they are under a loop that holds a pointer
\* to one of them (`v`), unless the map is replaced.
NothingMovesUnderALoop ==
    [][\A x \in DOMAIN loops \cap DOMAIN loops' :
         ~loops'[x].replaced =>
             LET m == loops[x].map IN
             /\ map'[m].cap = map[m].cap
             /\ Used(map'[m]) = Used(map[m])
             /\ \A n \in 0..(Used(map[m]) - 1) : Entry(map'[m], n).key = Entry(map[m], n).key]_vars

\* The table of a map keeps what its probes rely on, whatever was done to it.
TableSound == TypeOK /\ FindAgrees /\ TableHasRoom

\* A loop and its map: what the loop comes to, the locks it takes and gives
\* back, and the memory it points into.
LoopsHold == [](LoopVisitsInOrder /\ LocksMatchLoops) /\ NothingMovesUnderALoop

Pairs(es) ==
    LET live == Live(es)
    IN  [i \in DOMAIN live |-> [key |-> live[i].key, val |-> live[i].val]]

Ordered == INSTANCE OrderedMap WITH content <- [m \in Maps |-> Pairs(map[m].entries)]

\* The entries and the table implement the ordered map: a compaction, a move
\* to larger arrays or a copy changes no key, no value and no order.
ImplementsOrderedMap == Ordered!Spec
=============================================================================
