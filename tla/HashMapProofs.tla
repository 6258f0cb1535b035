--------------------------- MODULE HashMapProofs ---------------------------
(***************************************************************************)
(* Theorems about HashMap, for any maps, keys, hashes and bounds: the      *)
(* table of every map stays sound through adds, removals, compactions,     *)
(* growth, copies and clears, and the lock counts are those of the loops   *)
(* that are under way.  What the operations of one map do comes first, as  *)
(* lemmas about maps in general; the loops and the invariant follow.       *)
(*                                                                         *)
(* Then: nothing moves under a loop, it comes to the keys that were there  *)
(* when it began, in their order, and the entries with their table         *)
(* implement ordered maps.  That invariant relates each loop to the        *)
(* entries of its map: the keys that were there have places among them,    *)
(* which those seen and those to come share out.  The refinement rests on  *)
(* what is kept of an array of entries when one is added, marked dead or   *)
(* given a value.                                                          *)
(*                                                                         *)
(* Last, the loops over a list that removes its items: whatever its room   *)
(* and whatever programs run, the list is whole when such a loop is left.  *)
(* Two invariants carry that, one of every program (an item is in one      *)
(* place, and none that is reached was freed) and one of the programs that *)
(* nobody disturbs (what was kept lies at the front of the list, what was  *)
(* not reached behind a gap of zeros).                                     *)
(***************************************************************************)
EXTENDS Collections, WellFoundedInduction, FiniteSetTheorems, SequenceTheorems, TLAPS
(* Numbers. *)

LEMMA LeastExists ==
    ASSUME NEW S, S \subseteq Nat, S # {}
    PROVE  LeastOf(S) \in S /\ \A x \in S : LeastOf(S) <= x
<1> DEFINE R == OpToRel(<, Nat)
<1>1. PICK x \in S : \A y \in S : ~(<<y, x>> \in R)
  BY NatLessThanWellFounded, WFMin, Zenon
<1>2. \A y \in S : ~(y < x)
  BY <1>1 DEF OpToRel
<1>3. \E y \in S : \A z \in S : y <= z
  BY <1>2
<1> QED
  BY <1>3 DEF LeastOf

LEMMA UpTo ==
    ASSUME NEW n \in Nat, NEW S, 0 \in S, \A i \in 0..(n - 1) : i \in S => i + 1 \in S
    PROVE  0..n \subseteq S
<1> DEFINE T == {i \in 0..n : i \notin S}
<1> SUFFICES ASSUME T # {}  PROVE FALSE
  OBVIOUS
<1>1. LeastOf(T) \in T /\ \A i \in T : LeastOf(T) <= i
  BY LeastExists
<1>2. LeastOf(T) - 1 \in 0..(n - 1) /\ LeastOf(T) - 1 \notin T
  BY <1>1
<1> QED
  BY <1>1, <1>2

\* A definition by recursion over 0..n has a solution.
Solves(g, m, X, x, F) ==
    g \in [0..m -> X] /\ \A i \in 0..m : g[i] = IF i = 0 THEN x ELSE F[i][g[i - 1]]

LEMMA RecursionExists ==
    ASSUME NEW n \in Nat, NEW X, NEW x \in X, NEW F \in [1..n -> [X -> X]]
    PROVE  \E g : Solves(g, n, X, x, F)
<1> DEFINE S == {m \in 0..n : \E g : Solves(g, m, X, x, F)}
<1>1. 0 \in S
  <2>1. Solves([i \in 0..0 |-> x], 0, X, x, F)
    BY DEF Solves
  <2> QED
    BY <2>1
<1>2. ASSUME NEW m \in 0..(n - 1), m \in S  PROVE m + 1 \in S
  <2>1. PICK g : Solves(g, m, X, x, F)
    BY <1>2
  <2> DEFINE h == [i \in 0..(m + 1) |-> IF i <= m THEN g[i] ELSE F[m + 1][g[m]]]
  <2>2. g[m] \in X /\ F[m + 1][g[m]] \in X
    BY <2>1 DEF Solves
  <2>3. h \in [0..(m + 1) -> X]
    BY <2>1, <2>2 DEF Solves
  <2>4. \A i \in 0..(m + 1) : h[i] = IF i = 0 THEN x ELSE F[i][h[i - 1]]
    BY <2>1 DEF Solves
  <2>5. Solves(h, m + 1, X, x, F)
    BY <2>3, <2>4 DEF Solves
  <2> QED
    BY <2>5
<1>3. n \in S
  <2> HIDE DEF S
  <2>1. 0..n \subseteq S
    BY <1>1, <1>2, UpTo
  <2> QED
    BY <2>1
<1> QED
  BY <1>3

LEMMA ModSum ==
    ASSUME NEW n \in Nat \ {0}, NEW q \in Nat, NEW s \in 0..(n - 1)
    PROVE  (q * n + s) % n = s
OBVIOUS

\* A probe comes to every slot.
LEMMA ProbeComesTo ==
    ASSUME NEW n \in Nat \ {0}, NEW h \in Nat, NEW s \in 0..(n - 1)
    PROVE  \E d \in 0..(n - 1) : (h + d) % n = s
<1> DEFINE q == h \div n
           r == h % n
<1>1. q \in Nat /\ r \in 0..(n - 1) /\ h = q * n + r
  OBVIOUS
<1> HIDE DEF q, r
<1>2. CASE r <= s
  <2>1. h + (s - r) = q * n + s /\ s - r \in 0..(n - 1)
    BY <1>1, <1>2
  <2> QED
    BY <1>1, <2>1, ModSum
<1>3. CASE s < r
  <2>1. q * n + n = (q + 1) * n
    BY <1>1
  <2>2. h + (s - r + n) = (q + 1) * n + s /\ s - r + n \in 0..(n - 1) /\ q + 1 \in Nat
    BY <1>1, <1>3, <2>1
  <2> QED
    BY <2>2, ModSum
<1> QED
  BY <1>1, <1>2, <1>3

LEMMA SlotInTable ==
    ASSUME NEW n \in Nat \ {0}, NEW h \in Nat, NEW d \in 0..(n - 1)
    PROVE  (h + d) % n \in 0..(n - 1)
OBVIOUS
-----------------------------------------------------------------------------
(* Live entries. *)

LEMMA KeptIs ==
    ASSUME NEW E, NEW es \in Seq(E)
    PROVE  /\ Kept(es) \in [0..Len(es) -> Seq(E)]
           /\ Kept(es)[0] = <<>>
           /\ \A i \in 1..Len(es) :
                Kept(es)[i] = IF es[i].live THEN Append(Kept(es)[i - 1], es[i]) ELSE Kept(es)[i - 1]
<1> DEFINE n == Len(es)
           X == Seq(E)
           F == [i \in 1..n |-> [s \in X |-> IF es[i].live THEN Append(s, es[i]) ELSE s]]
           Is(g) == g = [i \in 0..n |-> IF i = 0 THEN <<>>
                                        ELSE IF es[i].live THEN Append(g[i - 1], es[i]) ELSE g[i - 1]]
<1>1. n \in Nat /\ <<>> \in X
  OBVIOUS
<1>2. F \in [1..n -> [X -> X]]
  <2>1. ASSUME NEW i \in 1..n, NEW s \in X  PROVE (IF es[i].live THEN Append(s, es[i]) ELSE s) \in X
    OBVIOUS
  <2> QED
    BY <2>1
<1>3. PICK g : Solves(g, n, X, <<>>, F)
  <2> HIDE DEF n, X, F
  <2> QED
    BY <1>1, <1>2, RecursionExists
<1>4. Is(g)
  <2>1. g = [i \in 0..n |-> g[i]]
    BY <1>3 DEF Solves
  <2>3. /\ \A i \in 0..n : g[i] \in X /\ g[i] = IF i = 0 THEN <<>> ELSE F[i][g[i - 1]]
        /\ 0 \in 0..n /\ \A i \in 1..n : i \in 0..n /\ i - 1 \in 0..n /\ i # 0
    <3> HIDE DEF X, F
    <3> QED
      BY <1>3 DEF Solves
  <2>2. \A i \in 0..n : g[i] = IF i = 0 THEN <<>>
                              ELSE IF es[i].live THEN Append(g[i - 1], es[i]) ELSE g[i - 1]
    <3>1. ASSUME NEW i \in 1..n
          PROVE  g[i] = IF es[i].live THEN Append(g[i - 1], es[i]) ELSE g[i - 1]
      <4>1. g[i - 1] \in X /\ g[i] = F[i][g[i - 1]]
        BY <2>3, Zenon
      <4>2. F[i] = [s \in X |-> IF es[i].live THEN Append(s, es[i]) ELSE s]
        OBVIOUS
      <4> HIDE DEF X, F
      <4> QED
        BY <4>1, <4>2
    <3>2. g[0] = <<>>
      BY <2>3, Zenon
    <3>3. \A i \in 0..n : i = 0 \/ i \in 1..n
      OBVIOUS
    <3> QED
      BY <3>1, <3>2, <3>3
  <2> QED
    BY <2>1, <2>2, Zenon
<1>5. Is(Kept(es))
  <2>1. Kept(es) = CHOOSE h : Is(h)
    BY DEF Kept
  <2> QED
    BY <1>4, <2>1
<1> DEFINE S == {i \in 0..n : Kept(es)[i] \in X}
<1>6. \A i \in 0..n : Kept(es)[i] = IF i = 0 THEN <<>>
                                    ELSE IF es[i].live THEN Append(Kept(es)[i - 1], es[i]) ELSE Kept(es)[i - 1]
  BY <1>5
<1>7. 0..n \subseteq S
  <2>1. 0 \in S
    <3>1. 0 \in 0..n
      OBVIOUS
    <3>2. Kept(es)[0] = <<>>
      BY <1>6, <3>1
    <3> QED
      BY <1>1, <3>1, <3>2
  <2>2. ASSUME NEW i \in 0..(n - 1), i \in S  PROVE i + 1 \in S
    <3>1. i + 1 \in 0..n /\ i + 1 # 0 /\ i + 1 - 1 = i /\ es[i + 1] \in E /\ Kept(es)[i] \in X
      BY <2>2
    <3>2. Kept(es)[i + 1] = IF es[i + 1].live THEN Append(Kept(es)[i], es[i + 1]) ELSE Kept(es)[i]
      BY <1>6, <3>1
    <3>3. Kept(es)[i + 1] \in X
      BY <3>1, <3>2
    <3> QED
      BY <3>1, <3>3
  <2> HIDE DEF S
  <2> QED
    BY <1>1, <2>1, <2>2, UpTo
<1>8. Kept(es) = [i \in 0..n |-> Kept(es)[i]]
  BY <1>5
<1>9. 0 \in 0..n /\ \A i \in 1..n : i \in 0..n /\ i # 0
  OBVIOUS
<1>10. \A i \in 0..n : Kept(es)[i] \in X
  BY <1>7
<1>11. Kept(es) \in [0..n -> X]
  BY <1>8, <1>10, Zenon
<1> HIDE DEF X
<1>12. Kept(es)[0] = <<>>
  BY <1>6, <1>9
<1>13. \A i \in 1..n : Kept(es)[i] = IF es[i].live THEN Append(Kept(es)[i - 1], es[i]) ELSE Kept(es)[i - 1]
  BY <1>6, <1>9
<1> QED
  BY <1>11, <1>12, <1>13 DEF X

LEMMA KeptStep ==
    ASSUME NEW E, NEW es \in Seq(E), NEW j \in 0..(Len(es) - 1)
    PROVE  /\ Kept(es)[j] \in Seq(E) /\ es[j + 1] \in E
           /\ Kept(es)[j + 1] = IF es[j + 1].live THEN Append(Kept(es)[j], es[j + 1]) ELSE Kept(es)[j]
<1>1. j \in 0..Len(es) /\ j + 1 \in 1..Len(es) /\ j + 1 - 1 = j
  OBVIOUS
<1>2. Kept(es)[j] \in Seq(E) /\ es[j + 1] \in E
  BY <1>1, KeptIs
<1>3. Kept(es)[j + 1] = IF es[j + 1].live THEN Append(Kept(es)[j], es[j + 1]) ELSE Kept(es)[j]
  <2>1. \A i \in 1..Len(es) :
            Kept(es)[i] = IF es[i].live THEN Append(Kept(es)[i - 1], es[i]) ELSE Kept(es)[i - 1]
    BY KeptIs
  <2> QED
    BY <1>1, <2>1
<1> QED
  BY <1>2, <1>3

\* What is kept of the first i entries: live ones, all of them, and no more.
LEMMA KeptOf ==
    ASSUME NEW E, NEW es \in Seq(E), NEW i \in 0..Len(es)
    PROVE  /\ Len(Kept(es)[i]) \in 0..i
           /\ \A p \in 1..Len(Kept(es)[i]) : \E q \in 1..i : es[q].live /\ Kept(es)[i][p] = es[q]
           /\ \A q \in 1..i : es[q].live => \E p \in 1..Len(Kept(es)[i]) : Kept(es)[i][p] = es[q]
<1> DEFINE n == Len(es)
           K == Kept(es)
           S == {j \in 0..n :
                   /\ Len(K[j]) \in 0..j
                   /\ \A p \in 1..Len(K[j]) : \E q \in 1..j : es[q].live /\ K[j][p] = es[q]
                   /\ \A q \in 1..j : es[q].live => \E p \in 1..Len(K[j]) : K[j][p] = es[q]}
<1>1. 0 \in S /\ n \in Nat
  BY KeptIs
<1>2. ASSUME NEW j \in 0..(n - 1), j \in S  PROVE j + 1 \in S
  <2>1. /\ K[j] \in Seq(E) /\ j + 1 \in 1..n /\ es[j + 1] \in E
        /\ K[j + 1] = IF es[j + 1].live THEN Append(K[j], es[j + 1]) ELSE K[j]
    <3>1. j \in 0..n /\ j + 1 \in 1..n
      OBVIOUS
    <3> QED
      BY <3>1, KeptStep
  <2> HIDE DEF K, n
  <2>4. /\ Len(K[j]) \in 0..j
        /\ \A p \in 1..Len(K[j]) : \E q \in 1..j : es[q].live /\ K[j][p] = es[q]
        /\ \A q \in 1..j : es[q].live => \E p \in 1..Len(K[j]) : K[j][p] = es[q]
    BY <1>2
  <2>5. /\ j + 1 \in 0..n /\ j \in Nat /\ 0..j \subseteq 0..(j + 1) /\ 1..j \subseteq 1..(j + 1)
        /\ j + 1 \in 1..(j + 1) /\ \A q \in 1..(j + 1) : q \in 1..j \/ q = j + 1
    BY <1>1
  <2>2. CASE ~es[j + 1].live
    <3>1. K[j + 1] = K[j]
      BY <2>1, <2>2
    <3>2. \A p \in 1..Len(K[j + 1]) : \E q \in 1..(j + 1) : es[q].live /\ K[j + 1][p] = es[q]
      BY <2>4, <2>5, <3>1
    <3>3. \A q \in 1..(j + 1) : es[q].live => \E p \in 1..Len(K[j + 1]) : K[j + 1][p] = es[q]
      BY <2>2, <2>4, <2>5, <3>1
    <3>4. Len(K[j + 1]) \in 0..(j + 1)
      BY <2>4, <2>5, <3>1
    <3> QED
      BY <2>5, <3>2, <3>3, <3>4
  <2>3. CASE es[j + 1].live
    <3>1. K[j + 1] = Append(K[j], es[j + 1]) /\ Len(K[j + 1]) = Len(K[j]) + 1
      BY <2>1, <2>3
    <3>2. K[j + 1][Len(K[j]) + 1] = es[j + 1] /\ \A p \in 1..Len(K[j]) : K[j + 1][p] = K[j][p]
      BY <2>1, <3>1
    <3>3. \A p \in 1..Len(K[j + 1]) : \E q \in 1..(j + 1) : es[q].live /\ K[j + 1][p] = es[q]
      BY <2>3, <2>4, <2>5, <3>1, <3>2
    <3>4. \A q \in 1..(j + 1) : es[q].live => \E p \in 1..Len(K[j + 1]) : K[j + 1][p] = es[q]
      <4> SUFFICES ASSUME NEW q \in 1..(j + 1), es[q].live
                   PROVE  \E p \in 1..Len(K[j + 1]) : K[j + 1][p] = es[q]
        OBVIOUS
      <4>3. /\ 1..Len(K[j]) \subseteq 1..Len(K[j + 1]) /\ Len(K[j]) + 1 \in 1..Len(K[j + 1])
        BY <2>4, <3>1
      <4>1. CASE q = j + 1
        BY <3>2, <4>1, <4>3
      <4>2. CASE q \in 1..j
        <5>1. PICK p \in 1..Len(K[j]) : K[j][p] = es[q]
          BY <2>4, <4>2
        <5> QED
          BY <3>2, <4>3, <5>1
      <4> QED
        BY <2>5, <4>1, <4>2
    <3>5. Len(K[j + 1]) \in 0..(j + 1)
      BY <2>4, <2>5, <3>1
    <3> QED
      BY <2>5, <3>3, <3>4, <3>5
  <2> QED
    BY <2>2, <2>3
<1>3. 0..n \subseteq S
  <2> HIDE DEF S
  <2> QED
    BY <1>1, <1>2, UpTo
<1> QED
  BY <1>3

LEMMA LiveIs ==
    ASSUME NEW E, NEW es \in Seq(E)
    PROVE  /\ Live(es) \in Seq(E) /\ Len(Live(es)) \in 0..Len(es)
           /\ \A p \in 1..Len(Live(es)) : \E q \in 1..Len(es) : es[q].live /\ Live(es)[p] = es[q]
           /\ \A q \in 1..Len(es) : es[q].live => \E p \in 1..Len(Live(es)) : Live(es)[p] = es[q]
<1>1. Len(es) \in 0..Len(es)
  OBVIOUS
<1>2. Live(es) = Kept(es)[Len(es)] /\ Kept(es)[Len(es)] \in Seq(E)
  BY <1>1, KeptIs DEF Live
<1> QED
  <2>1. /\ Len(Kept(es)[Len(es)]) \in 0..Len(es)
        /\ \A p \in 1..Len(Kept(es)[Len(es)]) : \E q \in 1..Len(es) : es[q].live /\ Kept(es)[Len(es)][p] = es[q]
        /\ \A q \in 1..Len(es) : es[q].live => \E p \in 1..Len(Kept(es)[Len(es)]) : Kept(es)[Len(es)][p] = es[q]
    BY <1>1, KeptOf
  <2> QED
    BY <1>2, <2>1

\* What is kept of the first entries depends on them alone.
LEMMA KeptPrefix ==
    ASSUME NEW E, NEW es \in Seq(E), NEW fs \in Seq(E), NEW n \in Nat, n <= Len(es), n <= Len(fs),
           \A q \in 1..n : es[q] = fs[q]
    PROVE  Kept(es)[n] = Kept(fs)[n]
<1> DEFINE S == {j \in 0..n : Kept(es)[j] = Kept(fs)[j]}
<1>1. 0 \in S
  BY KeptIs
<1>2. ASSUME NEW j \in 0..(n - 1), j \in S  PROVE j + 1 \in S
  <2>1. j + 1 \in 1..n /\ j + 1 \in 0..n /\ j + 1 \in 1..Len(es) /\ j + 1 \in 1..Len(fs) /\ j + 1 - 1 = j
    OBVIOUS
  <2>2. /\ Kept(es)[j + 1] = IF es[j + 1].live THEN Append(Kept(es)[j], es[j + 1]) ELSE Kept(es)[j]
        /\ Kept(fs)[j + 1] = IF fs[j + 1].live THEN Append(Kept(fs)[j], fs[j + 1]) ELSE Kept(fs)[j]
    <3>1. j \in 0..(Len(es) - 1) /\ j \in 0..(Len(fs) - 1)
      BY <2>1
    <3> QED
      BY <3>1, KeptStep
  <2> QED
    BY <1>2, <2>1, <2>2
<1>3. 0..n \subseteq S
  <2> HIDE DEF S
  <2> QED
    BY <1>1, <1>2, UpTo
<1> QED
  BY <1>3

LEMMA LiveAppend ==
    ASSUME NEW E, NEW es \in Seq(E), NEW e \in E
    PROVE  Live(Append(es, e)) = IF e.live THEN Append(Live(es), e) ELSE Live(es)
<1> DEFINE n == Len(es)
           fs == Append(es, e)
<1>1. fs \in Seq(E) /\ Len(fs) = n + 1 /\ n \in Nat /\ fs[n + 1] = e /\ \A q \in 1..n : fs[q] = es[q]
  OBVIOUS
<1> HIDE DEF fs, n
<1>2. Kept(fs)[n] = Kept(es)[n]
  BY <1>1, KeptPrefix DEF n
<1>3. Kept(fs)[n + 1] = IF e.live THEN Append(Kept(fs)[n], e) ELSE Kept(fs)[n]
  <2>1. n + 1 \in 1..Len(fs) /\ n + 1 - 1 = n
    BY <1>1
  <2> QED
    BY <1>1, <2>1, KeptIs
<1> QED
  BY <1>1, <1>2, <1>3 DEF Live, fs, n

\* No two live entries have one key.
Distinct(es) ==
    \A q, r \in 1..Len(es) : es[q].live /\ es[r].live /\ es[q].key = es[r].key => q = r

LEMMA LiveDistinct ==
    ASSUME NEW E, NEW es \in Seq(E), Distinct(es)
    PROVE  Distinct(Live(es))
<1> DEFINE n == Len(es)
           K == Kept(es)
           S == {j \in 0..n : \A p, r \in 1..Len(K[j]) : K[j][p].key = K[j][r].key => p = r}
<1>1. 0 \in S /\ n \in Nat
  BY KeptIs
<1>2. ASSUME NEW j \in 0..(n - 1), j \in S  PROVE j + 1 \in S
  <2>1. j \in 0..n /\ j + 1 \in 0..n /\ j + 1 \in 1..n /\ j + 1 - 1 = j /\ 1..j \subseteq 1..n /\ j + 1 \notin 1..j
    OBVIOUS
  <2>2. /\ K[j] \in Seq(E)
        /\ K[j + 1] = IF es[j + 1].live THEN Append(K[j], es[j + 1]) ELSE K[j]
    BY KeptStep
  <2>3. \A p \in 1..Len(K[j]) : \E q \in 1..j : es[q].live /\ K[j][p] = es[q]
    BY <2>1, KeptOf
  <2> HIDE DEF K
  <2>4. CASE ~es[j + 1].live
    BY <1>2, <2>1, <2>2, <2>4
  <2>5. CASE es[j + 1].live
    <3>1. /\ Len(K[j + 1]) = Len(K[j]) + 1 /\ K[j + 1][Len(K[j]) + 1] = es[j + 1]
          /\ \A p \in 1..Len(K[j]) : K[j + 1][p] = K[j][p]
          /\ \A p \in 1..Len(K[j + 1]) : p \in 1..Len(K[j]) \/ p = Len(K[j]) + 1
      BY <2>1, <2>2, <2>5
    <3>2. \A p \in 1..Len(K[j]) : K[j][p].key # es[j + 1].key
      <4>1. \A q \in 1..j : q \in 1..n /\ q # j + 1
        BY <2>1
      <4>2. \A q \in 1..j : es[q].live => es[q].key # es[j + 1].key
        BY <2>1, <2>5, <4>1 DEF Distinct
      <4> QED
        BY <2>3, <4>2
    <3>3. \A p, r \in 1..Len(K[j]) : K[j][p].key = K[j][r].key => p = r
      BY <1>2
    <3>4. \A p, r \in 1..Len(K[j + 1]) : K[j + 1][p].key = K[j + 1][r].key => p = r
      BY <3>1, <3>2, <3>3
    <3> QED
      BY <2>1, <3>4
  <2> QED
    BY <2>4, <2>5
<1>3. 0..n \subseteq S
  <2> HIDE DEF S
  <2> QED
    BY <1>1, <1>2, UpTo
<1>4. n \in S
  BY <1>1, <1>3
<1> QED
  BY <1>4 DEF Live, Distinct

\* How many are live: the same after a value is set, one less after one is
\* marked dead, all when nothing is dead.
LEMMA LiveLenSame ==
    ASSUME NEW E, NEW es \in Seq(E), NEW fs \in Seq(E), Len(fs) = Len(es),
           \A q \in 1..Len(es) : fs[q].live <=> es[q].live
    PROVE  Len(Live(fs)) = Len(Live(es))
<1> DEFINE n == Len(es)
           S == {j \in 0..n : Len(Kept(fs)[j]) = Len(Kept(es)[j])}
<1>1. 0 \in S /\ n \in Nat
  BY KeptIs
<1>2. ASSUME NEW j \in 0..(n - 1), j \in S  PROVE j + 1 \in S
  <2>1. /\ j \in 0..n /\ j + 1 \in 0..n /\ j + 1 \in 1..n /\ j + 1 - 1 = j
        /\ j \in 0..Len(fs) /\ j + 1 \in 1..Len(fs) /\ es[j + 1] \in E /\ fs[j + 1] \in E
    OBVIOUS
  <2>2. /\ Kept(es)[j] \in Seq(E) /\ Kept(fs)[j] \in Seq(E)
        /\ Kept(es)[j + 1] = IF es[j + 1].live THEN Append(Kept(es)[j], es[j + 1]) ELSE Kept(es)[j]
        /\ Kept(fs)[j + 1] = IF fs[j + 1].live THEN Append(Kept(fs)[j], fs[j + 1]) ELSE Kept(fs)[j]
    <3>1. j \in 0..(Len(es) - 1) /\ j \in 0..(Len(fs) - 1)
      BY <2>1
    <3> QED
      BY <3>1, KeptStep
  <2>3. Len(Kept(fs)[j]) = Len(Kept(es)[j]) /\ (fs[j + 1].live <=> es[j + 1].live)
    BY <1>2, <2>1
  <2>4. Len(Kept(fs)[j + 1]) = Len(Kept(es)[j + 1])
    <3> HIDE DEF n
    <3>1. CASE es[j + 1].live
      BY <2>1, <2>2, <2>3, <3>1
    <3>2. CASE ~es[j + 1].live
      BY <2>2, <2>3, <3>2
    <3> QED
      BY <3>1, <3>2
  <2> QED
    BY <2>1, <2>4
<1>3. 0..n \subseteq S
  <2> HIDE DEF S
  <2> QED
    BY <1>1, <1>2, UpTo
<1> QED
  BY <1>1, <1>3 DEF Live

LEMMA LiveLenDropped ==
    ASSUME NEW E, NEW es \in Seq(E), NEW fs \in Seq(E), Len(fs) = Len(es), NEW d \in 1..Len(es),
           es[d].live, ~fs[d].live, \A q \in 1..Len(es) : q # d => fs[q] = es[q]
    PROVE  Len(Live(fs)) = Len(Live(es)) - 1
<1> DEFINE n == Len(es)
           S == {j \in 0..n : Len(Kept(fs)[j]) = IF j >= d THEN Len(Kept(es)[j]) - 1 ELSE Len(Kept(es)[j])}
<1>1. 0 \in S /\ n \in Nat
  BY KeptIs
<1>2. ASSUME NEW j \in 0..(n - 1), j \in S  PROVE j + 1 \in S
  <2>1. /\ j \in 0..n /\ j + 1 \in 0..n /\ j + 1 \in 1..n /\ j + 1 - 1 = j
        /\ j \in 0..Len(fs) /\ j + 1 \in 1..Len(fs) /\ es[j + 1] \in E /\ fs[j + 1] \in E
    OBVIOUS
  <2>2. /\ Kept(es)[j] \in Seq(E) /\ Kept(fs)[j] \in Seq(E)
        /\ Kept(es)[j + 1] = IF es[j + 1].live THEN Append(Kept(es)[j], es[j + 1]) ELSE Kept(es)[j]
        /\ Kept(fs)[j + 1] = IF fs[j + 1].live THEN Append(Kept(fs)[j], fs[j + 1]) ELSE Kept(fs)[j]
    <3>1. j \in 0..(Len(es) - 1) /\ j \in 0..(Len(fs) - 1)
      BY <2>1
    <3> QED
      BY <3>1, KeptStep
  <2>3. Len(Kept(fs)[j]) = IF j >= d THEN Len(Kept(es)[j]) - 1 ELSE Len(Kept(es)[j])
    BY <1>2
  <2>4. CASE j + 1 = d
    <3>1. Kept(es)[j + 1] = Append(Kept(es)[j], es[j + 1]) /\ Kept(fs)[j + 1] = Kept(fs)[j]
      BY <2>2, <2>4
    <3>2. Len(Kept(es)[j + 1]) = Len(Kept(es)[j]) + 1 /\ Len(Kept(es)[j]) \in Nat
      BY <2>1, <2>2, <3>1
    <3> QED
      <4>1. j + 1 >= d /\ ~(j >= d)
        BY <2>1, <2>4
      <4> QED
        <5>1. Len(Kept(fs)[j + 1]) = Len(Kept(es)[j + 1]) - 1
          BY <2>3, <3>1, <3>2, <4>1
        <5> HIDE DEF n
        <5> QED
          BY <2>1, <4>1, <5>1
  <2>5. CASE j + 1 # d
    <3>1. es[j + 1] = fs[j + 1] /\ (j + 1 >= d <=> j >= d)
      BY <2>1, <2>5
    <3>2. CASE es[j + 1].live
      <4>1. Kept(es)[j + 1] = Append(Kept(es)[j], es[j + 1]) /\ Kept(fs)[j + 1] = Append(Kept(fs)[j], fs[j + 1])
        BY <2>2, <3>1, <3>2
      <4>2. /\ Len(Kept(es)[j + 1]) = Len(Kept(es)[j]) + 1 /\ Len(Kept(fs)[j + 1]) = Len(Kept(fs)[j]) + 1
            /\ Len(Kept(es)[j]) \in Nat /\ Len(Kept(fs)[j]) \in Nat
        BY <2>1, <2>2, <4>1
      <4> QED
        BY <2>1, <2>3, <3>1, <4>2
    <3>3. CASE ~es[j + 1].live
      BY <2>1, <2>2, <2>3, <3>1, <3>3
    <3> QED
      BY <3>2, <3>3
  <2> QED
    BY <2>4, <2>5
<1>3. 0..n \subseteq S
  <2> HIDE DEF S
  <2> QED
    BY <1>1, <1>2, UpTo
<1> QED
  BY <1>1, <1>3 DEF Live

LEMMA LiveOfLive ==
    ASSUME NEW E, NEW es \in Seq(E), \A q \in 1..Len(es) : es[q].live
    PROVE  Live(es) = es
<1> DEFINE n == Len(es)
           S == {j \in 0..n : Kept(es)[j] = SubSeq(es, 1, j)}
<1>1. 0 \in S /\ n \in Nat
  BY KeptIs
<1>2. ASSUME NEW j \in 0..(n - 1), j \in S  PROVE j + 1 \in S
  <2>1. j \in 0..n /\ j + 1 \in 0..n /\ j + 1 \in 1..n /\ j + 1 - 1 = j
    OBVIOUS
  <2>2. Kept(es)[j + 1] = Append(SubSeq(es, 1, j), es[j + 1])
    <3>1. Kept(es)[j] = SubSeq(es, 1, j) /\ es[j + 1].live
      BY <1>2, <2>1
    <3> QED
      BY <3>1, KeptStep
  <2>3. SubSeq(es, 1, j + 1) = Append(SubSeq(es, 1, j), es[j + 1])
    OBVIOUS
  <2> QED
    BY <2>1, <2>2, <2>3
<1>3. 0..n \subseteq S
  <2> HIDE DEF S
  <2> QED
    BY <1>1, <1>2, UpTo
<1>4. SubSeq(es, 1, n) = es
  OBVIOUS
<1> QED
  BY <1>1, <1>3, <1>4 DEF Live
-----------------------------------------------------------------------------
(* Powers of two: a set of n elements has 2^n subsets. *)

LEMMA SubsetsOf ==
    ASSUME NEW n \in Nat
    PROVE  /\ IsFiniteSet(SUBSET (1..n)) /\ Cardinality(SUBSET (1..n)) = 2^n /\ 2^n \in Nat
<1>1. IsFiniteSet(1..n) /\ Cardinality(1..n) = n
  BY FS_Interval
<1>2. IsFiniteSet(SUBSET (1..n)) /\ Cardinality(SUBSET (1..n)) = 2^n
  BY <1>1, FS_SUBSET
<1> QED
  BY <1>2, FS_CardinalityType

LEMMA PowerOfTwo ==
    ASSUME NEW n \in Nat
    PROVE  2^n \in Nat /\ 2^(n + 1) = 2 * 2^n
<1> DEFINE A == SUBSET (1..n)
           B == {U \cup {n + 1} : U \in A}
           f == [U \in A |-> U \cup {n + 1}]
<1>1. \A U \in A : n + 1 \notin U
  OBVIOUS
<1>2. SUBSET (1..(n + 1)) = A \cup B
  <2>1. 1..(n + 1) = (1..n) \cup {n + 1}
    OBVIOUS
  <2>2. ASSUME NEW V \in SUBSET (1..(n + 1)), n + 1 \in V  PROVE V \in B
    <3>1. V \ {n + 1} \in A /\ V = (V \ {n + 1}) \cup {n + 1}
      BY <2>1, <2>2
    <3> QED
      BY <3>1
  <2>3. ASSUME NEW V \in SUBSET (1..(n + 1)), n + 1 \notin V  PROVE V \in A
    BY <2>1, <2>3
  <2>4. A \subseteq SUBSET (1..(n + 1)) /\ B \subseteq SUBSET (1..(n + 1))
    BY <2>1
  <2> QED
    BY <2>2, <2>3, <2>4
<1>3. IsFiniteSet(A) /\ Cardinality(A) = 2^n /\ 2^n \in Nat
  BY SubsetsOf
<1>4. Cardinality(A \cup B) = 2^(n + 1)
  <2>1. n + 1 \in Nat
    OBVIOUS
  <2> QED
    BY <1>2, <2>1, SubsetsOf
<1>5. f \in Bijection(A, B)
  <2>1. f \in Surjection(A, B)
    BY DEF Surjection
  <2>2. \A U, V \in A : f[U] = f[V] => U = V
    BY <1>1
  <2>3. f \in Injection(A, B)
    <3>1. f \in [A -> B]
      OBVIOUS
    <3> HIDE DEF A, B, f
    <3> QED
      BY <2>2, <3>1 DEF Injection, IsInjective
  <2> QED
    BY <2>1, <2>3 DEF Bijection
<1> HIDE DEF A, f
<1>6. IsFiniteSet(B) /\ Cardinality(B) = 2^n
  <2>1. ExistsBijection(A, B)
    BY <1>5 DEF ExistsBijection
  <2> HIDE DEF B
  <2> QED
    BY <1>3, <2>1, FS_Bijection
<1>7. A \cap B = {}
  BY <1>1
<1> HIDE DEF B
<1>8. Cardinality(A \cup B) = Cardinality(A) + Cardinality(B) - Cardinality({})
  BY <1>3, <1>6, <1>7, FS_Union
<1>9. Cardinality({}) = 0
  BY FS_EmptySet
<1>10. Cardinality(A \cup B) = 2^n + 2^n
  BY <1>3, <1>6, <1>8, <1>9
<1> QED
  BY <1>3, <1>4, <1>10

LEMMA PowerAbove ==
    ASSUME NEW n \in Nat
    PROVE  2^n > n
<1> DEFINE S == {i \in 0..n : 2^i > i}
<1>1. 0 \in S
  <2>1. 2^0 = 1
    OBVIOUS
  <2> QED
    BY <2>1
<1>2. ASSUME NEW i \in 0..(n - 1), i \in S  PROVE i + 1 \in S
  <2>1. 2^i \in Nat /\ 2^(i + 1) = 2 * 2^i /\ 2^i > i
    BY <1>2, PowerOfTwo
  <2>2. 2^(i + 1) > i + 1
    BY <2>1
  <2> QED
    BY <2>2
<1>3. 0..n \subseteq S
  <2> HIDE DEF S
  <2> QED
    BY <1>1, <1>2, UpTo
<1>4. n \in S
  BY <1>3
<1> QED
  BY <1>4

IsPower(n) == \E i \in 0..n : n = 2^i

LEMMA NextPower ==
    ASSUME NEW n \in Nat
    PROVE  NextPowerOfTwo(n) \in Nat /\ NextPowerOfTwo(n) >= n /\ IsPower(NextPowerOfTwo(n))
<1> DEFINE P == {2^i : i \in 0..n}
           S == {p \in P : p >= n}
<1>1. \A i \in 0..n : 2^i \in Nat /\ 2^i > i
  BY PowerOfTwo, PowerAbove
<1>2. S \subseteq Nat
  BY <1>1
<1>3. 2^n \in S
  <2>1. n \in 0..n
    OBVIOUS
  <2> QED
    BY <1>1, <2>1
<1>4. NextPowerOfTwo(n) = LeastOf(S)
  BY DEF NextPowerOfTwo
<1>5. LeastOf(S) \in S
  <2> HIDE DEF S
  <2> QED
    BY <1>2, <1>3, LeastExists
<1>6. PICK i \in 0..n : LeastOf(S) = 2^i /\ 2^i >= n
  BY <1>5
<1> HIDE DEF S
<1>7. 2^i \in Nat /\ i \in 0..(2^i)
  BY <1>1
<1> QED
  BY <1>4, <1>6, <1>7 DEF IsPower
-----------------------------------------------------------------------------
(* Tables. *)

Place(n, k, d) == (Hash[k] + d) % n

\* A probe for the i-th entry's key comes to its number, and not earlier to
\* an empty slot.
Reached(es, n, slots, i) ==
    \E d \in 0..(n - 1) :
        /\ slots[Place(n, es[i].key, d)] = i - 1
        /\ \A e \in 0..(d - 1) : slots[Place(n, es[i].key, e)] \notin {Empty, i - 1}

Taken(n, slots) == {s \in 0..(n - 1) : slots[s] # Empty}

\* A table of n slots for the first m entries.
TableFor(es, m, n, slots) ==
    /\ slots \in [0..(n - 1) -> Removed..(m - 1)]
    /\ \A s \in 0..(n - 1) : slots[s] >= 0 => es[slots[s] + 1].live
    /\ \A s, t \in 0..(n - 1) : slots[s] >= 0 /\ slots[s] = slots[t] => s = t
    /\ \A i \in 1..m : es[i].live => Reached(es, n, slots, i)
    /\ Cardinality(Taken(n, slots)) <= m

LEMMA PlaceIn ==
    ASSUME NEW n \in Nat \ {0}, NEW k \in Keys, NEW d \in 0..(n - 1)
    PROVE  Place(n, k, d) \in 0..(n - 1)
BY SlotInTable, HashAssumption DEF Place

LEMMA TakenFinite ==
    ASSUME NEW n \in Nat, NEW slots
    PROVE  IsFiniteSet(Taken(n, slots)) /\ Cardinality(Taken(n, slots)) \in Nat
<1>1. IsFiniteSet(0..(n - 1)) /\ Taken(n, slots) \subseteq 0..(n - 1)
  BY FS_Interval DEF Taken
<1> QED
  BY <1>1, FS_Subset, FS_CardinalityType

\* A table with more slots than entries has an empty slot, and every probe
\* comes to one.
LEMMA EmptyComes ==
    ASSUME NEW es, NEW m \in Nat, NEW n \in Nat, m < n, NEW slots,
           TableFor(es, m, n, slots), NEW k \in Keys
    PROVE  \E d \in 0..(n - 1) : slots[Place(n, k, d)] = Empty
<1>1. PICK s \in 0..(n - 1) : slots[s] = Empty
  <2> SUFFICES ASSUME \A s \in 0..(n - 1) : slots[s] # Empty  PROVE FALSE
    OBVIOUS
  <2>1. Taken(n, slots) = 0..(n - 1)
    BY DEF Taken
  <2>2. Cardinality(0..(n - 1)) = n
    BY FS_Interval
  <2> QED
    BY <2>1, <2>2 DEF TableFor
<1>2. n \in Nat \ {0} /\ Hash[k] \in Nat
  BY HashAssumption
<1> QED
  BY <1>1, <1>2, ProbeComesTo DEF Place

\* A table depends on the entries' keys and on which are live.
LEMMA TableSame ==
    ASSUME NEW es, NEW fs, NEW m \in Nat, NEW n \in Nat, NEW slots, TableFor(es, m, n, slots),
           \A i \in 1..m : (fs[i].live <=> es[i].live) /\ fs[i].key = es[i].key
    PROVE  TableFor(fs, m, n, slots)
<1>1. \A s \in 0..(n - 1) : slots[s] >= 0 => slots[s] + 1 \in 1..m
  BY DEF TableFor, Removed
<1>2. \A i \in 1..m : Reached(es, n, slots, i) <=> Reached(fs, n, slots, i)
  BY DEF Reached
<1> QED
  BY <1>1, <1>2 DEF TableFor

\* The next entry goes into a slot of its probe that holds none.
LEMMA TableWith ==
    ASSUME NEW es, NEW m \in Nat, NEW n \in Nat \ {0}, NEW slots, TableFor(es, m, n, slots),
           es[m + 1].live, \A i \in 1..(m + 1) : es[i].key \in Keys, NEW d \in 0..(n - 1), NEW s,
           s = Place(n, es[m + 1].key, d), slots[s] < 0,
           \A e \in 0..(d - 1) : /\ slots[Place(n, es[m + 1].key, e)] # Empty
                                 /\ Place(n, es[m + 1].key, e) # s
    PROVE  TableFor(es, m + 1, n, [slots EXCEPT ![s] = m])
<1> DEFINE new == [slots EXCEPT ![s] = m]
<1>1. s \in 0..(n - 1)
  BY PlaceIn
<1>2. /\ new \in [0..(n - 1) -> Removed..(m + 1 - 1)] /\ new[s] = m
      /\ \A t \in 0..(n - 1) : t # s => new[t] = slots[t]
      /\ \A t \in 0..(n - 1) : slots[t] \in Removed..(m - 1) /\ slots[t] # m
      /\ m # Empty
  BY <1>1 DEF TableFor, Removed, Empty
<1> HIDE DEF new
<1>3. \A t \in 0..(n - 1) : new[t] >= 0 => es[new[t] + 1].live
  BY <1>1, <1>2 DEF TableFor
<1>4. \A t, u \in 0..(n - 1) : new[t] >= 0 /\ new[t] = new[u] => t = u
  BY <1>1, <1>2 DEF TableFor
<1>5. ASSUME NEW i \in 1..m, es[i].live  PROVE Reached(es, n, new, i)
  <2>1. PICK b \in 0..(n - 1) :
             /\ slots[Place(n, es[i].key, b)] = i - 1
             /\ \A e \in 0..(b - 1) : slots[Place(n, es[i].key, e)] \notin {Empty, i - 1}
    BY <1>5 DEF TableFor, Reached
  <2>2. \A e \in 0..(n - 1) : Place(n, es[i].key, e) \in 0..(n - 1)
    BY PlaceIn
  <2>3. Place(n, es[i].key, b) # s /\ i - 1 # m /\ \A e \in 0..(b - 1) : e \in 0..(n - 1)
    BY <2>1
  <2>4. new[Place(n, es[i].key, b)] = i - 1
    BY <1>2, <2>1, <2>2, <2>3
  <2>5. \A e \in 0..(b - 1) : new[Place(n, es[i].key, e)] \notin {Empty, i - 1}
    BY <1>2, <2>1, <2>2, <2>3
  <2> QED
    BY <2>4, <2>5 DEF Reached
<1>6. Reached(es, n, new, m + 1)
  <2>1. \A e \in 0..(d - 1) : new[Place(n, es[m + 1].key, e)] \notin {Empty, m}
    <3>1. \A e \in 0..(d - 1) : e \in 0..(n - 1) /\ Place(n, es[m + 1].key, e) \in 0..(n - 1)
      BY PlaceIn
    <3> QED
      BY <1>2, <3>1
  <2> QED
    BY <1>2, <2>1 DEF Reached
<1>7. Cardinality(Taken(n, new)) <= m + 1
  <2>1. Taken(n, new) \subseteq Taken(n, slots) \cup {s}
    BY <1>2 DEF Taken
  <2>2. /\ IsFiniteSet(Taken(n, slots) \cup {s})
        /\ Cardinality(Taken(n, slots) \cup {s}) <= Cardinality(Taken(n, slots)) + 1
    <3>1. Cardinality(Taken(n, slots) \cup {s}) =
            IF s \in Taken(n, slots) THEN Cardinality(Taken(n, slots)) ELSE Cardinality(Taken(n, slots)) + 1
      BY TakenFinite, FS_AddElement
    <3> QED
      BY <3>1, TakenFinite, FS_AddElement
  <2>3. Cardinality(Taken(n, new)) <= Cardinality(Taken(n, slots) \cup {s})
    BY <2>1, <2>2, FS_Subset
  <2>4. Cardinality(Taken(n, slots)) <= m
    BY DEF TableFor
  <2>5. /\ Cardinality(Taken(n, slots)) \in Nat /\ Cardinality(Taken(n, new)) \in Nat
        /\ Cardinality(Taken(n, slots) \cup {s}) \in Nat
    BY <2>2, TakenFinite, FS_CardinalityType
  <2> QED
    BY <2>2, <2>3, <2>4, <2>5
<1>8. \A i \in 1..(m + 1) : es[i].live => Reached(es, n, new, i)
  <2>1. \A i \in 1..(m + 1) : i \in 1..m \/ i = m + 1
    OBVIOUS
  <2> QED
    BY <1>5, <1>6, <2>1
<1>9. TableFor(es, m + 1, n, new)
  BY <1>2, <1>3, <1>4, <1>7, <1>8 DEF TableFor
<1> QED
  BY <1>9 DEF new

\* An entry is marked dead and its slot removed.
LEMMA TableWithout ==
    ASSUME NEW es, NEW fs, NEW m \in Nat, NEW n \in Nat \ {0}, NEW slots, TableFor(es, m, n, slots),
           \A i \in 1..m : es[i].key \in Keys, NEW s \in 0..(n - 1), slots[s] >= 0,
           \A i \in 1..m : fs[i].key = es[i].key /\ (fs[i].live <=> es[i].live /\ i # slots[s] + 1)
    PROVE  TableFor(fs, m, n, [slots EXCEPT ![s] = Removed])
<1> DEFINE new == [slots EXCEPT ![s] = Removed]
<1>1. /\ new \in [0..(n - 1) -> Removed..(m - 1)] /\ new[s] = Removed
      /\ \A t \in 0..(n - 1) : t # s => new[t] = slots[t]
      /\ \A t \in 0..(n - 1) : slots[t] \in Removed..(m - 1)
      /\ Removed < 0 /\ Removed # Empty
  BY DEF TableFor, Removed, Empty
<1>0. /\ \A t \in 0..(n - 1) : slots[t] >= 0 => es[slots[t] + 1].live
      /\ \A t, u \in 0..(n - 1) : slots[t] >= 0 /\ slots[t] = slots[u] => t = u
      /\ \A i \in 1..m : es[i].live => Reached(es, n, slots, i)
  BY DEF TableFor
<1> HIDE DEF new
<1>2. \A t \in 0..(n - 1) : new[t] >= 0 => fs[new[t] + 1].live
  <2> SUFFICES ASSUME NEW t \in 0..(n - 1), new[t] >= 0  PROVE fs[new[t] + 1].live
    OBVIOUS
  <2>0. ~(new[s] >= 0) /\ (t # s => new[t] = slots[t])
    BY <1>1
  <2>1. t # s /\ new[t] = slots[t]
    BY <2>0
  <2>2. es[slots[t] + 1].live /\ slots[t] # slots[s]
    BY <1>0, <2>1
  <2>3. slots[t] \in 0..(m - 1) /\ slots[s] \in 0..(m - 1)
    BY <1>1, <2>1
  <2>4. slots[t] + 1 \in 1..m /\ slots[t] + 1 # slots[s] + 1
    BY <2>2, <2>3
  <2> QED
    BY <2>1, <2>2, <2>4
<1>3. \A t, u \in 0..(n - 1) : new[t] >= 0 /\ new[t] = new[u] => t = u
  <2> SUFFICES ASSUME NEW t \in 0..(n - 1), NEW u \in 0..(n - 1), new[t] >= 0, new[t] = new[u]
               PROVE  t = u
    OBVIOUS
  <2>1. ~(new[s] >= 0) /\ (t # s => new[t] = slots[t]) /\ (u # s => new[u] = slots[u])
    BY <1>1
  <2>2. slots[t] >= 0 /\ slots[t] = slots[u]
    BY <2>1
  <2> QED
    BY <1>0, <2>2
<1>4. ASSUME NEW i \in 1..m, fs[i].live  PROVE Reached(fs, n, new, i)
  <2>0. es[i].live /\ i # slots[s] + 1 /\ es[i].key \in Keys
    BY <1>4
  <2>1. PICK b \in 0..(n - 1) :
             /\ slots[Place(n, es[i].key, b)] = i - 1
             /\ \A e \in 0..(b - 1) : slots[Place(n, es[i].key, e)] \notin {Empty, i - 1}
    BY <1>0, <2>0 DEF Reached
  <2>2. \A e \in 0..(n - 1) : Place(n, es[i].key, e) \in 0..(n - 1)
    BY <2>0, PlaceIn
  <2>6. slots[s] # i - 1 /\ \A e \in 0..(b - 1) : e \in 0..(n - 1)
    BY <1>1, <2>0
  <2>3. /\ Place(n, es[i].key, b) # s /\ i - 1 # Removed /\ fs[i].key = es[i].key
        /\ \A e \in 0..(b - 1) : e \in 0..(n - 1)
    BY <2>1, <2>6 DEF Removed
  <2>4. new[Place(n, fs[i].key, b)] = i - 1
    BY <1>1, <2>1, <2>2, <2>3
  <2>5. \A e \in 0..(b - 1) : new[Place(n, fs[i].key, e)] \notin {Empty, i - 1}
    BY <1>1, <2>1, <2>2, <2>3
  <2> QED
    BY <2>4, <2>5 DEF Reached
<1>5. Cardinality(Taken(n, new)) <= m
  <2>1. Taken(n, new) \subseteq Taken(n, slots)
    BY <1>1 DEF Taken, Empty
  <2>2. Cardinality(Taken(n, new)) <= Cardinality(Taken(n, slots))
    BY <2>1, TakenFinite, FS_Subset
  <2>3. Cardinality(Taken(n, slots)) <= m
    BY DEF TableFor
  <2> QED
    BY <2>2, <2>3, TakenFinite
<1> QED
  BY <1>1, <1>2, <1>3, <1>4, <1>5 DEF TableFor, new

LEMMA ExceptStays ==
    ASSUME NEW A, NEW B, NEW f \in [A -> B], NEW a, NEW b \in B
    PROVE  [f EXCEPT ![a] = b] \in [A -> B]
OBVIOUS

\* What the recursion says of the tables t of es.
TablesOf(es, n, t) ==
    /\ t[0] = [s \in 0..(n - 1) |-> Empty]
    /\ \A i \in 1..Len(es) :
         /\ t[i - 1] \in [0..(n - 1) -> Int]
         /\ t[i] = [t[i - 1] EXCEPT ![FirstEmpty(t[i - 1], n, es[i].key)] = i - 1]

LEMMA TablesAre ==
    ASSUME NEW E, NEW es \in Seq(E), NEW n \in Nat
    PROVE  TablesOf(es, n, Tables(es, n))
<1> DEFINE m == Len(es)
           X == [0..(n - 1) -> Int]
           x == [s \in 0..(n - 1) |-> Empty]
           F == [i \in 1..m |-> [t \in X |-> [t EXCEPT ![FirstEmpty(t, n, es[i].key)] = i - 1]]]
           Is(g) == g = [i \in 0..m |-> IF i = 0 THEN x
                                        ELSE [g[i - 1] EXCEPT ![FirstEmpty(g[i - 1], n, es[i].key)] = i - 1]]
<1>1. m \in Nat /\ x \in X
  BY DEF Empty
<1>2. F \in [1..m -> [X -> X]]
  <2>1. ASSUME NEW i \in 1..m, NEW t \in X
        PROVE  [t EXCEPT ![FirstEmpty(t, n, es[i].key)] = i - 1] \in X
    <3>1. i - 1 \in Int
      OBVIOUS
    <3> QED
      BY <3>1, ExceptStays, Zenon
  <2> HIDE DEF X
  <2> QED
    BY <2>1
<1>3. PICK g : Solves(g, m, X, x, F)
  <2> HIDE DEF m, X, x, F
  <2> QED
    BY <1>1, <1>2, RecursionExists
<1>4. Is(g)
  <2>1. g = [i \in 0..m |-> g[i]]
    BY <1>3 DEF Solves
  <2>2. /\ \A i \in 0..m : g[i] \in X /\ g[i] = IF i = 0 THEN x ELSE F[i][g[i - 1]]
        /\ 0 \in 0..m /\ \A i \in 1..m : i \in 0..m /\ i - 1 \in 0..m /\ i # 0
    <3> HIDE DEF X, F, x
    <3> QED
      BY <1>3 DEF Solves
  <2>3. \A i \in 0..m : g[i] = IF i = 0 THEN x
                              ELSE [g[i - 1] EXCEPT ![FirstEmpty(g[i - 1], n, es[i].key)] = i - 1]
    <3>1. ASSUME NEW i \in 1..m
          PROVE  g[i] = [g[i - 1] EXCEPT ![FirstEmpty(g[i - 1], n, es[i].key)] = i - 1]
      <4>1. g[i - 1] \in X /\ g[i] = F[i][g[i - 1]]
        BY <2>2, Zenon
      <4>2. F[i] = [t \in X |-> [t EXCEPT ![FirstEmpty(t, n, es[i].key)] = i - 1]]
        OBVIOUS
      <4> HIDE DEF X, F
      <4> QED
        BY <4>1, <4>2
    <3>2. g[0] = x
      BY <2>2, Zenon
    <3>3. \A i \in 0..m : i = 0 \/ i \in 1..m
      OBVIOUS
    <3> HIDE DEF x
    <3> QED
      BY <2>2, <3>1, <3>2, <3>3
  <2> QED
    BY <2>1, <2>3, Zenon
<1>5. Is(Tables(es, n))
  <2>1. Tables(es, n) = CHOOSE h : Is(h)
    BY DEF Tables
  <2> QED
    BY <1>4, <2>1
<1>6. \A i \in 0..m : Tables(es, n)[i] =
        IF i = 0 THEN x
        ELSE [Tables(es, n)[i - 1] EXCEPT ![FirstEmpty(Tables(es, n)[i - 1], n, es[i].key)] = i - 1]
  <2> HIDE DEF x
  <2> QED
    BY <1>5
<1> DEFINE S == {i \in 0..m : Tables(es, n)[i] \in X}
<1>7. 0 \in 0..m /\ \A i \in 1..m : i \in 0..m /\ i # 0 /\ i - 1 \in 0..m
  OBVIOUS
<1>8. Tables(es, n)[0] = x
  BY <1>6, <1>7
<1>9. \A i \in 1..m : Tables(es, n)[i] =
        [Tables(es, n)[i - 1] EXCEPT ![FirstEmpty(Tables(es, n)[i - 1], n, es[i].key)] = i - 1]
  BY <1>6, <1>7
<1>10. 0..m \subseteq S
  <2>1. 0 \in S
    BY <1>1, <1>7, <1>8
  <2>2. ASSUME NEW i \in 0..(m - 1), i \in S  PROVE i + 1 \in S
    <3>1. i + 1 \in 0..m /\ i + 1 \in 1..m /\ i + 1 - 1 = i
      OBVIOUS
    <3>2. Tables(es, n)[i + 1] = [Tables(es, n)[i] EXCEPT ![FirstEmpty(Tables(es, n)[i], n, es[i + 1].key)] = i]
      BY <1>9, <3>1
    <3>3. Tables(es, n)[i] \in X
      BY <2>2
    <3>4. Tables(es, n)[i + 1] \in X
      <4>1. i \in Int
        OBVIOUS
      <4> QED
        BY <3>2, <3>3, <4>1, ExceptStays, Zenon
    <3> QED
      BY <3>1, <3>4
  <2> HIDE DEF S
  <2> QED
    BY <1>1, <2>1, <2>2, UpTo
<1>11. \A i \in 1..m : Tables(es, n)[i - 1] \in X
  BY <1>7, <1>10
<1> QED
  BY <1>8, <1>9, <1>11 DEF TablesOf

LEMMA TableStep ==
    ASSUME NEW E, NEW es \in Seq(E), NEW n \in Nat, NEW i \in 0..(Len(es) - 1)
    PROVE  Tables(es, n)[i + 1] = [Tables(es, n)[i] EXCEPT
                                     ![FirstEmpty(Tables(es, n)[i], n, es[i + 1].key)] = i]
<1>1. i + 1 \in 1..Len(es) /\ i + 1 - 1 = i
  OBVIOUS
<1>2. TablesOf(es, n, Tables(es, n))
  BY TablesAre
<1> QED
  BY <1>1, <1>2 DEF TablesOf

\* A rebuilt table is one for its entries, however they collide.
LEMMA RebuiltTable ==
    ASSUME NEW E, NEW es \in Seq(E), NEW n \in Nat, Len(es) <= n,
           \A i \in 1..Len(es) : es[i].live /\ es[i].key \in Keys,
           Distinct(es)
    PROVE  TableFor(es, Len(es), n, Rebuilt(es, n))
<1> DEFINE m == Len(es)
           T == Tables(es, n)
           S == {i \in 0..m : TableFor(es, i, n, T[i])}
<1>1. m \in Nat /\ m <= n
  OBVIOUS
<1>2. 0 \in S
  <2>1. T[0] = [s \in 0..(n - 1) |-> Empty]
    BY TablesAre DEF TablesOf
  <2>2. Taken(n, T[0]) = {}
    BY <2>1 DEF Taken
  <2>3. TableFor(es, 0, n, T[0])
    <3>1. Cardinality(Taken(n, T[0])) = 0
      BY <2>2, FS_EmptySet
    <3> QED
      BY <2>1, <3>1 DEF TableFor, Empty, Removed
  <2> QED
    BY <1>1, <2>3
<1>3. ASSUME NEW i \in 0..(m - 1), i \in S  PROVE i + 1 \in S
  <2>1. i \in Nat /\ i < n /\ n \in Nat \ {0} /\ i + 1 \in 1..m /\ i + 1 \in 0..m /\ i + 1 - 1 = i
    BY <1>1
  <2> DEFINE t == T[i]
             k == es[i + 1].key
             D == {d \in 0..(n - 1) : t[(Hash[k] + d) % n] = Empty}
             s == FirstEmpty(t, n, k)
  <2>2. T[i + 1] = [t EXCEPT ![s] = i]
    BY TableStep
  <2>3. TableFor(es, i, n, t) /\ k \in Keys /\ es[i + 1].live /\ \A j \in 1..(i + 1) : es[j].key \in Keys
    BY <1>3, <2>1
  <2> HIDE DEF T, t, k
  <2>4. \E d \in 0..(n - 1) : t[Place(n, k, d)] = Empty
    BY <2>1, <2>3, EmptyComes
  <2>5. D # {} /\ D \subseteq Nat
    BY <2>4 DEF Place
  <2>6. LeastOf(D) \in D /\ \A d \in D : LeastOf(D) <= d
    <3> HIDE DEF D
    <3> QED
      BY <2>5, LeastExists
  <2>7. s = Place(n, k, LeastOf(D))
    BY DEF FirstEmpty, Place
  <2>8. \A e \in 0..(LeastOf(D) - 1) : e \in 0..(n - 1) /\ t[Place(n, k, e)] # Empty
    BY <2>6 DEF Place
  <2>9. LeastOf(D) \in 0..(n - 1) /\ t[s] = Empty
    BY <2>6, <2>7 DEF Place
  <2> HIDE DEF D, s
  <2>10. t[s] < 0 /\ \A e \in 0..(LeastOf(D) - 1) : t[Place(n, k, e)] # Empty /\ Place(n, k, e) # s
    BY <2>8, <2>9 DEF Empty
  <2>11. TableFor(es, i + 1, n, [t EXCEPT ![s] = i])
    BY <2>1, <2>3, <2>7, <2>9, <2>10, TableWith DEF k
  <2> QED
    BY <2>1, <2>2, <2>11
<1>4. 0..m \subseteq S
  <2> HIDE DEF S
  <2> QED
    BY <1>1, <1>2, <1>3, UpTo
<1>5. m \in S
  BY <1>1, <1>4
<1> QED
  BY <1>5 DEF Rebuilt
-----------------------------------------------------------------------------
(* What every map keeps. *)

MapType ==
    [entries : Seq(EntryType), count : Nat, cap : 0..MaxCap,
     slots : UNION {[0..(n - 1) -> Int] : n \in Nat}, locks : Nat]

MapSound(M) ==
    /\ M \in MapType
    /\ TableFor(M.entries, Used(M), SlotCount(M), M.slots)
    /\ Distinct(M.entries)
    /\ M.count = Len(Live(M.entries))
    /\ Used(M) <= M.cap /\ 2 * M.cap <= SlotCount(M)
    /\ SlotCount(M) > 0 => IsPower(SlotCount(M))

LEMMA SlotCountIs ==
    ASSUME NEW M, NEW n \in Nat, DOMAIN M.slots = 0..(n - 1)
    PROVE  SlotCount(M) = n
<1>1. Cardinality(0..(n - 1)) = n
  BY FS_Interval
<1> QED
  BY <1>1 DEF SlotCount

LEMMA Counts ==
    ASSUME NEW M, M \in MapType
    PROVE  /\ SlotCount(M) \in Nat /\ DOMAIN M.slots = 0..(SlotCount(M) - 1)
           /\ Used(M) \in Nat /\ M.cap \in Nat
<1>1. PICK n \in Nat : M.slots \in [0..(n - 1) -> Int]
  BY DEF MapType
<1>2. SlotCount(M) = n
  BY <1>1, SlotCountIs
<1> QED
  BY <1>1, <1>2, CapAssumption DEF Used, MapType

\* The facts about one map that the lemmas on probing use.
LEMMA MapFacts ==
    ASSUME NEW M, MapSound(M)
    PROVE  /\ SlotCount(M) \in Nat /\ DOMAIN M.slots = 0..(SlotCount(M) - 1)
           /\ Used(M) \in Nat /\ M.cap \in 0..MaxCap /\ M.count \in 0..Used(M) /\ M.locks \in Nat
           /\ SlotCount(M) > 0 => Used(M) < SlotCount(M)
           /\ SlotCount(M) = 0 => Used(M) = 0 /\ M.cap = 0
           /\ M.entries \in Seq(EntryType) /\ Used(M) = Len(M.entries)
           /\ \A i \in 1..Used(M) : M.entries[i] \in EntryType
<1>1. /\ SlotCount(M) \in Nat /\ DOMAIN M.slots = 0..(SlotCount(M) - 1) /\ Used(M) \in Nat
      /\ M.cap \in 0..MaxCap /\ M.entries \in Seq(EntryType) /\ Used(M) = Len(M.entries) /\ M.locks \in Nat
      /\ Used(M) <= M.cap /\ 2 * M.cap <= SlotCount(M)
  BY Counts DEF MapSound, MapType, Used
<1>2. M.count \in 0..Used(M)
  BY <1>1, LiveIs DEF MapSound
<1>3. \A i \in 1..Used(M) : M.entries[i] \in EntryType
  BY <1>1
<1> QED
  BY <1>1, <1>2, <1>3, CapAssumption

LEMMA EntriesAre ==
    ASSUME NEW M, MapSound(M), NEW i \in 1..Used(M)
    PROVE  M.entries[i] \in EntryType /\ M.entries[i].key \in Keys /\ M.entries[i].live \in BOOLEAN
BY MapFacts DEF EntryType

\* A probe stops, at the first empty slot or the slot of its key.
LEMMA ProbeStops ==
    ASSUME NEW M, MapSound(M), SlotCount(M) > 0, NEW k \in Keys
    PROVE  /\ Stops(M, k) # {} /\ LeastOf(Stops(M, k)) \in Stops(M, k)
           /\ \A d \in Stops(M, k) : LeastOf(Stops(M, k)) <= d
<1> DEFINE n == SlotCount(M)
<1>1. n \in Nat /\ Used(M) \in Nat /\ Used(M) < n
  BY MapFacts
<1>2. PICK d \in 0..(n - 1) : M.slots[Place(n, k, d)] = Empty
  BY <1>1, EmptyComes DEF MapSound
<1>3. d \in Stops(M, k)
  BY <1>2 DEF Stops, At, Place
<1>4. Stops(M, k) \subseteq Nat
  BY <1>1 DEF Stops
<1> QED
  BY <1>3, <1>4, LeastExists

\* A slot that holds k holds the number of the live entry of k.
LEMMA HoldsLive ==
    ASSUME NEW M, MapSound(M), NEW s \in 0..(SlotCount(M) - 1), NEW k, Holds(M, s, k)
    PROVE  /\ M.slots[s] + 1 \in 1..Used(M) /\ M.slots[s] \in Nat
           /\ M.entries[M.slots[s] + 1].live /\ M.entries[M.slots[s] + 1].key = k
<1>1. M.slots[s] \in Removed..(Used(M) - 1) /\ (M.slots[s] >= 0 => M.entries[M.slots[s] + 1].live)
  BY DEF MapSound, TableFor
<1> QED
  BY <1>1, MapFacts DEF Holds, Entry, Removed

LEMMA ProbeFinds ==
    ASSUME NEW M, MapSound(M), NEW i \in 1..Used(M), M.entries[i].live
    PROVE  LET p == Probe(M, M.entries[i].key)
           IN  p.found /\ p.slot \in 0..(SlotCount(M) - 1) /\ M.slots[p.slot] = i - 1
<1> DEFINE n == SlotCount(M)
           k == M.entries[i].key
           stop == LeastOf(Stops(M, k))
<1>1. n \in Nat \ {0} /\ k \in Keys /\ i - 1 >= 0 /\ n > 0
  <2>1. n > 0
    BY MapFacts
  <2> QED
    BY <2>1, EntriesAre, MapFacts
<1>2. PICK d \in 0..(n - 1) :
           /\ M.slots[Place(n, k, d)] = i - 1
           /\ \A e \in 0..(d - 1) : M.slots[Place(n, k, e)] \notin {Empty, i - 1}
  BY DEF MapSound, TableFor, Reached
<1>3. d \in Stops(M, k)
  <2>1. At(M, k, d) = Place(n, k, d)
    BY DEF At, Place
  <2>2. Entry(M, i - 1) = M.entries[i]
    <3>1. i - 1 + 1 = i
      BY MapFacts
    <3> QED
      BY <3>1 DEF Entry
  <2>3. Holds(M, At(M, k, d), k)
    BY <1>1, <1>2, <2>1, <2>2 DEF Holds
  <2> QED
    BY <2>3 DEF Stops
<1>4. stop \in Stops(M, k) /\ stop <= d /\ stop \in 0..(n - 1)
  <2>1. stop \in Stops(M, k) /\ \A e \in Stops(M, k) : stop <= e
    BY <1>1, ProbeStops
  <2>2. Stops(M, k) \subseteq 0..(n - 1)
    BY DEF Stops
  <2> QED
    BY <1>3, <2>1, <2>2
<1>5. At(M, k, stop) = Place(n, k, stop) /\ At(M, k, stop) \in 0..(n - 1)
  BY <1>1, <1>4, PlaceIn DEF At, Place
<1> HIDE DEF stop, n, k
<1>6. M.slots[At(M, k, stop)] # Empty
  <2>1. CASE stop = d
    BY <1>1, <1>2, <1>5, <2>1 DEF Empty
  <2>2. CASE stop < d
    BY <1>2, <1>4, <1>5, <2>2
  <2> QED
    BY <1>4, <2>1, <2>2
<1>7. Holds(M, At(M, k, stop), k)
  BY <1>4, <1>6 DEF Stops
<1>8. M.slots[At(M, k, stop)] = i - 1
  <2>1. /\ M.slots[At(M, k, stop)] + 1 \in 1..Used(M) /\ M.slots[At(M, k, stop)] \in Nat
        /\ M.entries[M.slots[At(M, k, stop)] + 1].live /\ M.entries[M.slots[At(M, k, stop)] + 1].key = k
    BY <1>5, <1>7, HoldsLive DEF n
  <2>2. M.slots[At(M, k, stop)] + 1 = i
    BY <2>1, MapFacts DEF MapSound, Distinct, k
  <2> QED
    BY <2>1, <2>2
<1>9. Probe(M, k) = [slot |-> At(M, k, stop), found |-> TRUE]
  BY <1>7 DEF Probe, stop
<1> QED
  BY <1>5, <1>8, <1>9 DEF k, n

\* No live entry has the key k.
Lacks(M, k) == \A i \in 1..Used(M) : M.entries[i].live => M.entries[i].key # k

\* The slot s can take a new entry for k.
Takes(M, k, s) ==
    \E d \in 0..(SlotCount(M) - 1) :
        /\ s = Place(SlotCount(M), k, d) /\ M.slots[s] < 0
        /\ \A e \in 0..(d - 1) : /\ M.slots[Place(SlotCount(M), k, e)] # Empty
                                 /\ Place(SlotCount(M), k, e) # s

LEMMA ProbeMisses ==
    ASSUME NEW M, MapSound(M), SlotCount(M) > 0, NEW k \in Keys, Lacks(M, k)
    PROVE  LET p == Probe(M, k) IN p.found = FALSE /\ Takes(M, k, p.slot)
<1> DEFINE n == SlotCount(M)
           stop == LeastOf(Stops(M, k))
           free == {d \in 0..(stop - 1) : M.slots[At(M, k, d)] = Removed}
<1>1. n \in Nat \ {0} /\ n > 0
  BY MapFacts
<1>2. stop \in Stops(M, k) /\ (\A e \in Stops(M, k) : stop <= e) /\ stop \in 0..(n - 1)
  <2>1. stop \in Stops(M, k) /\ \A e \in Stops(M, k) : stop <= e
    BY ProbeStops
  <2>2. Stops(M, k) \subseteq 0..(n - 1)
    BY DEF Stops
  <2> QED
    BY <2>1, <2>2
<1>3. \A d \in 0..(n - 1) : At(M, k, d) = Place(n, k, d) /\ At(M, k, d) \in 0..(n - 1)
  BY <1>1, PlaceIn DEF At, Place
<1>4. \A s \in 0..(n - 1) : ~Holds(M, s, k)
  BY HoldsLive DEF Lacks
<1>5. M.slots[At(M, k, stop)] = Empty
  BY <1>2, <1>3, <1>4 DEF Stops
<1>6. \A e \in 0..(stop - 1) : e \in 0..(n - 1) /\ M.slots[At(M, k, e)] # Empty
  <2>1. \A e \in 0..(stop - 1) : e \in 0..(n - 1) /\ ~(stop <= e)
    BY <1>1, <1>2
  <2> QED
    BY <1>2, <2>1 DEF Stops
<1> HIDE DEF stop, n
<1>7. CASE free = {}
  <2>1. Probe(M, k) = [slot |-> At(M, k, stop), found |-> FALSE]
    BY <1>2, <1>3, <1>4, <1>7 DEF Probe, stop
  <2>2. \A e \in 0..(stop - 1) : M.slots[Place(n, k, e)] # Empty /\ Place(n, k, e) # At(M, k, stop)
    BY <1>3, <1>5, <1>6
  <2>3. M.slots[At(M, k, stop)] < 0 /\ At(M, k, stop) = Place(n, k, stop)
    BY <1>2, <1>3, <1>5 DEF Empty
  <2>4. Takes(M, k, At(M, k, stop))
    BY <1>2, <2>2, <2>3 DEF Takes, n
  <2> QED
    BY <2>1, <2>4
<1>8. CASE free # {}
  <2> DEFINE f == LeastOf(free)
  <2>1. f \in free /\ \A e \in free : f <= e
    <3>1. free \subseteq Nat
      BY <1>1, <1>2
    <3> HIDE DEF free
    <3> QED
      BY <1>8, <3>1, LeastExists
  <2>2. Probe(M, k) = [slot |-> At(M, k, f), found |-> FALSE]
    BY <1>2, <1>3, <1>4, <1>8 DEF Probe, stop
  <2>3. f \in 0..(stop - 1) /\ f \in 0..(n - 1) /\ M.slots[At(M, k, f)] = Removed
    BY <1>6, <2>1
  <2>4. \A e \in 0..(f - 1) : e \in 0..(stop - 1) /\ M.slots[At(M, k, e)] # Removed
    <3>1. \A e \in 0..(f - 1) : e \in 0..(stop - 1) /\ ~(f <= e)
      BY <1>2, <2>3
    <3> QED
      BY <2>1, <3>1
  <2> HIDE DEF f, free
  <2>5. \A e \in 0..(f - 1) : M.slots[Place(n, k, e)] # Empty /\ Place(n, k, e) # At(M, k, f)
    BY <1>3, <1>6, <2>3, <2>4
  <2>6. M.slots[At(M, k, f)] < 0 /\ At(M, k, f) = Place(n, k, f)
    BY <1>3, <2>3 DEF Removed
  <2>7. Takes(M, k, At(M, k, f))
    BY <2>3, <2>5, <2>6 DEF Takes, n
  <2> QED
    BY <2>2, <2>7
<1> QED
  BY <1>7, <1>8

\* What find and insert make of a key: it has one live entry, and both come
\* to its slot, or none, and neither finds it.
FoundAt(M, k, i) ==
    /\ M.entries[i].live /\ M.entries[i].key = k
    /\ Present(M, k) /\ Find(M, k) = i - 1
    /\ Probe(M, k).slot \in 0..(SlotCount(M) - 1) /\ M.slots[Probe(M, k).slot] = i - 1

LEMMA FindIs ==
    ASSUME NEW M, MapSound(M), NEW k \in Keys
    PROVE  \/ Lacks(M, k) /\ Find(M, k) = NoEntry /\ ~Present(M, k)
           \/ \E i \in 1..Used(M) : FoundAt(M, k, i)
<1>1. CASE Lacks(M, k)
  <2>1. CASE SlotCount(M) = 0
    <3>1. M.count = 0
      BY <2>1, MapFacts
    <3> QED
      BY <1>1, <2>1, <3>1 DEF Find, Present
  <2>2. CASE SlotCount(M) > 0
    <3>1. Probe(M, k).found = FALSE
      BY <1>1, <2>2, ProbeMisses
    <3> QED
      BY <1>1, <3>1 DEF Find, Present
  <2> QED
    BY <2>1, <2>2, MapFacts
<1>2. CASE ~Lacks(M, k)
  <2>1. PICK i \in 1..Used(M) : M.entries[i].live /\ M.entries[i].key = k
    BY <1>2 DEF Lacks
  <2>2. Probe(M, k).found /\ Probe(M, k).slot \in 0..(SlotCount(M) - 1) /\ M.slots[Probe(M, k).slot] = i - 1
    BY <2>1, ProbeFinds
  <2>3. M.count > 0 /\ SlotCount(M) > 0
    <3>1. M.count \in Nat /\ M.entries \in Seq(EntryType) /\ Used(M) = Len(M.entries) /\ SlotCount(M) \in Nat
      BY MapFacts
    <3>2. PICK p \in 1..Len(Live(M.entries)) : Live(M.entries)[p] = M.entries[i]
      BY <2>1, <3>1, LiveIs
    <3>3. M.count = Len(Live(M.entries))
      BY DEF MapSound
    <3>4. SlotCount(M) > 0
      BY <2>1, MapFacts
    <3> QED
      BY <3>1, <3>2, <3>3, <3>4
  <2>4. Find(M, k) = i - 1 /\ Present(M, k)
    BY <2>2, <2>3 DEF Find, Present
  <2> QED
    BY <2>1, <2>2, <2>4 DEF FoundAt
<1> QED
  BY <1>1, <1>2

LEMMA SoundIf ==
    ASSUME NEW N, N \in MapType, NEW n \in Nat, n > 0 => IsPower(n),
           TableFor(N.entries, Len(N.entries), n, N.slots), Distinct(N.entries),
           N.count = Len(Live(N.entries)), Len(N.entries) <= N.cap, 2 * N.cap <= n
    PROVE  MapSound(N) /\ SlotCount(N) = n
<1>1. DOMAIN N.slots = 0..(n - 1)
  BY DEF TableFor
<1>2. SlotCount(N) = n
  BY <1>1, SlotCountIs
<1> QED
  BY <1>2 DEF MapSound, Used

\* The live entries of a sound map and a new table of n slots for them.
LEMMA LiveTable ==
    ASSUME NEW M, MapSound(M), NEW n \in Nat, M.count <= n
    PROVE  /\ Live(M.entries) \in Seq(EntryType) /\ Len(Live(M.entries)) = M.count
           /\ Distinct(Live(M.entries)) /\ Live(Live(M.entries)) = Live(M.entries)
           /\ TableFor(Live(M.entries), M.count, n, Rebuilt(Live(M.entries), n))
           /\ Rebuilt(Live(M.entries), n) \in [0..(n - 1) -> Int]
<1> DEFINE es == M.entries
           fs == Live(es)
<1>1. /\ es \in Seq(EntryType) /\ Len(fs) = M.count /\ Distinct(es) /\ fs \in Seq(EntryType)
  BY MapFacts, LiveIs DEF MapSound
<1>2. Distinct(fs)
  BY <1>1, LiveDistinct
<1>3. \A p \in 1..Len(fs) : fs[p].live /\ fs[p].key \in Keys
  <2>1. \A p \in 1..Len(fs) : \E q \in 1..Len(es) : es[q].live /\ fs[p] = es[q]
    BY <1>1, LiveIs
  <2>2. \A p \in 1..Len(fs) : fs[p] \in EntryType
    BY <1>1
  <2> QED
    BY <2>1, <2>2 DEF EntryType
<1>4. Live(fs) = fs
  BY <1>1, <1>3, LiveOfLive
<1>5. TableFor(fs, Len(fs), n, Rebuilt(fs, n))
  <2> HIDE DEF fs
  <2> QED
    BY <1>1, <1>2, <1>3, RebuiltTable
<1>6. Rebuilt(fs, n) \in [0..(n - 1) -> Int]
  <2>1. Removed..(Len(fs) - 1) \subseteq Int
    OBVIOUS
  <2> QED
    BY <1>5, <2>1 DEF TableFor
<1> QED
  BY <1>1, <1>2, <1>4, <1>5, <1>6

LEMMA NewMapSound == MapSound(NewMap) /\ Used(NewMap) = 0
<1>1. NewMap \in MapType
  <2>1. <<>> \in [0..(0 - 1) -> Int]
    OBVIOUS
  <2> QED
    BY <2>1, CapAssumption DEF NewMap, MapType
<1>2. Live(<<>>) = <<>>
  <2>1. <<>> \in Seq(EntryType) /\ \A q \in 1..Len(<<>>) : <<>>[q].live
    OBVIOUS
  <2> QED
    BY <2>1, LiveOfLive, Zenon
<1>3. TableFor(<<>>, 0, 0, <<>>)
  <2>1. Taken(0, <<>>) = {}
    BY DEF Taken
  <2>2. Cardinality(Taken(0, <<>>)) = 0
    BY <2>1, FS_EmptySet
  <2> QED
    BY <2>2 DEF TableFor
<1> QED
  BY <1>1, <1>2, <1>3, SoundIf DEF NewMap, Distinct, Used

LEMMA ReallocatedSound ==
    ASSUME NEW M, MapSound(M), NEW cap \in 1..MaxCap, M.count <= cap
    PROVE  /\ MapSound(Reallocated(M, cap)) /\ Reallocated(M, cap).entries = Live(M.entries)
           /\ Used(Reallocated(M, cap)) = M.count /\ Reallocated(M, cap).count = M.count
           /\ Reallocated(M, cap).cap = cap /\ Reallocated(M, cap).locks = M.locks
<1> DEFINE n == NextPowerOfTwo(2 * cap)
           fs == Live(M.entries)
           t == Rebuilt(fs, n)
           N == [M EXCEPT !.entries = fs, !.cap = cap, !.slots = t]
<1>1. n \in Nat /\ n >= 2 * cap /\ IsPower(n) /\ cap \in Nat
  BY CapAssumption, NextPower
<1>2. M.count \in Nat /\ M.count <= n
  BY <1>1, MapFacts
<1>3. /\ fs \in Seq(EntryType) /\ Len(fs) = M.count /\ Distinct(fs) /\ Live(fs) = fs
      /\ TableFor(fs, M.count, n, t) /\ t \in [0..(n - 1) -> Int]
  BY <1>1, <1>2, LiveTable
<1>4. Reallocated(M, cap) = N
  BY DEF Reallocated, MapSound, MapType
<1>5. t \in UNION {[0..(i - 1) -> Int] : i \in Nat}
  BY <1>1, <1>3
<1>6. M \in MapType
  BY DEF MapSound
<1> HIDE DEF n, fs, t
<1>7. /\ N.entries = fs /\ N.cap = cap /\ N.slots = t /\ N.count = M.count /\ N.locks = M.locks
      /\ N \in MapType
  <2>1. cap \in 0..MaxCap
    BY CapAssumption
  <2> QED
    BY <1>3, <1>5, <1>6, <2>1 DEF MapType
<1> HIDE DEF N
<1>8. MapSound(N)
  BY <1>1, <1>3, <1>7, SoundIf
<1> QED
  BY <1>3, <1>4, <1>7, <1>8 DEF Used, fs

LEMMA CompactedSound ==
    ASSUME NEW M, MapSound(M), HalfRemoved(M)
    PROVE  /\ MapSound(Compacted(M)) /\ Compacted(M).entries = Live(M.entries)
           /\ Used(Compacted(M)) = M.count /\ Compacted(M).count = M.count /\ M.count < M.cap
           /\ Compacted(M).cap = M.cap /\ Compacted(M).locks = M.locks
<1> DEFINE n == SlotCount(M)
           fs == Live(M.entries)
           t == Rebuilt(fs, n)
           N == [M EXCEPT !.entries = fs, !.slots = t]
<1>1. /\ n \in Nat /\ 2 * M.cap <= n /\ (n > 0 => IsPower(n)) /\ M.cap \in Nat /\ Used(M) <= M.cap
      /\ M.count \in 0..Used(M) /\ Used(M) \in Nat
  BY CapAssumption, MapFacts DEF MapSound
<1>2. M.count <= n /\ M.count < M.cap /\ M.count \in Nat
  BY <1>1 DEF HalfRemoved
<1>3. /\ fs \in Seq(EntryType) /\ Len(fs) = M.count /\ Distinct(fs) /\ Live(fs) = fs
      /\ TableFor(fs, M.count, n, t) /\ t \in [0..(n - 1) -> Int]
  BY <1>1, <1>2, LiveTable
<1>4. Compacted(M) = N
  BY DEF Compacted, MapSound, MapType
<1>5. t \in UNION {[0..(i - 1) -> Int] : i \in Nat}
  BY <1>1, <1>3
<1>6. M \in MapType
  BY DEF MapSound
<1> HIDE DEF n, fs, t
<1>7. /\ N.entries = fs /\ N.cap = M.cap /\ N.slots = t /\ N.count = M.count /\ N.locks = M.locks
      /\ N \in MapType
  BY <1>3, <1>5, <1>6 DEF MapType
<1> HIDE DEF N
<1>8. MapSound(N)
  <2>1. Len(N.entries) <= N.cap /\ 2 * N.cap <= n
    BY <1>1, <1>2, <1>3, <1>7
  <2> QED
    BY <1>1, <1>3, <1>7, <2>1, SoundIf
<1> QED
  BY <1>2, <1>3, <1>4, <1>7, <1>8 DEF Used, fs

\* Room is made for one entry, and the live entries stay in their order.
Roomy(M) == IF Used(M) = M.cap THEN MakeRoom(M) ELSE M

LEMMA RoomySound ==
    ASSUME NEW M, MapSound(M), ~TooLarge(M)
    PROVE  /\ MapSound(Roomy(M)) /\ Used(Roomy(M)) < Roomy(M).cap /\ Roomy(M).locks = M.locks
           /\ Roomy(M).count = M.count /\ Live(Roomy(M).entries) = Live(M.entries)
<1>1. /\ Used(M) \in Nat /\ M.cap \in 0..MaxCap /\ MaxCap \in Nat /\ Used(M) <= M.cap
      /\ M.count \in 0..Used(M)
  BY MapFacts, CapAssumption DEF MapSound
<1>2. Live(Live(M.entries)) = Live(M.entries)
  BY <1>1, LiveTable
<1>3. CASE Used(M) # M.cap
  BY <1>1, <1>3 DEF Roomy
<1>4. CASE Used(M) = M.cap /\ HalfRemoved(M)
  <2>1. Roomy(M) = Compacted(M)
    BY <1>4 DEF Roomy, MakeRoom
  <2>2. /\ MapSound(Roomy(M)) /\ Roomy(M).entries = Live(M.entries) /\ Used(Roomy(M)) = M.count
        /\ Roomy(M).count = M.count /\ M.count < M.cap /\ Roomy(M).cap = M.cap /\ Roomy(M).locks = M.locks
    BY <1>4, <2>1, CompactedSound
  <2> QED
    BY <1>2, <2>2
<1>5. CASE Used(M) = M.cap /\ ~HalfRemoved(M)
  <2>1. Roomy(M) = Reallocated(M, Doubled(M))
    BY <1>5 DEF Roomy, MakeRoom
  <2>2. Doubled(M) \in 1..MaxCap /\ M.count < Doubled(M)
    <3>1. Doubled(M) <= MaxCap
      BY <1>1, <1>5, CapAssumption DEF TooLarge, Doubled
    <3>2. Doubled(M) \in Nat /\ Doubled(M) >= 1 /\ M.cap < Doubled(M)
      BY <1>1, CapAssumption DEF Doubled
    <3> QED
      BY <1>1, <3>1, <3>2
  <2>3. M.count <= Doubled(M)
    BY <1>1, <2>2
  <2>4. /\ MapSound(Roomy(M)) /\ Roomy(M).entries = Live(M.entries) /\ Used(Roomy(M)) = M.count
        /\ Roomy(M).count = M.count /\ Roomy(M).cap = Doubled(M) /\ Roomy(M).locks = M.locks
    BY <2>1, <2>2, <2>3, ReallocatedSound
  <2> QED
    BY <1>2, <2>2, <2>4
<1> QED
  BY <1>3, <1>4, <1>5

\* The keys of the live entries, read off Live.
LEMMA LacksLive ==
    ASSUME NEW M, MapSound(M), NEW N, MapSound(N), Live(N.entries) = Live(M.entries), NEW k, Lacks(M, k)
    PROVE  Lacks(N, k)
<1>1. /\ M.entries \in Seq(EntryType) /\ N.entries \in Seq(EntryType)
      /\ Used(M) = Len(M.entries) /\ Used(N) = Len(N.entries)
  BY MapFacts
<1>2. \A p \in 1..Len(Live(M.entries)) : Live(M.entries)[p].key # k
  <2>1. \A p \in 1..Len(Live(M.entries)) :
            \E q \in 1..Len(M.entries) : M.entries[q].live /\ Live(M.entries)[p] = M.entries[q]
    BY <1>1, LiveIs
  <2> QED
    BY <1>1, <2>1 DEF Lacks
<1>3. \A q \in 1..Len(N.entries) : N.entries[q].live =>
            \E p \in 1..Len(Live(N.entries)) : Live(N.entries)[p] = N.entries[q]
  BY <1>1, LiveIs
<1> QED
  BY <1>1, <1>2, <1>3 DEF Lacks

NewEntry(k, v) == [key |-> k, val |-> v, live |-> TRUE]

LEMMA AddedSound ==
    ASSUME NEW M, MapSound(M), ~TooLarge(M), NEW k \in Keys, NEW v \in Values, Lacks(M, k)
    PROVE  /\ MapSound(Added(M, k, v)) /\ Added(M, k, v).locks = M.locks
           /\ Added(M, k, v).entries = Append(Roomy(M).entries, NewEntry(k, v))
<1> DEFINE R == Roomy(M)
           n == SlotCount(R)
           m == Used(R)
           e == NewEntry(k, v)
           s == Probe(R, k).slot
           fs == Append(R.entries, e)
           t == [R.slots EXCEPT ![s] = m]
           N == [R EXCEPT !.entries = fs, !.count = R.count + 1, !.slots = t]
<1>1. MapSound(R) /\ m < R.cap /\ R.locks = M.locks /\ Live(R.entries) = Live(M.entries)
  BY RoomySound
<1> HIDE DEF R
<1>2. Lacks(R, k)
  BY <1>1, LacksLive
<1>3. /\ n \in Nat /\ m \in Nat /\ R.cap \in 0..MaxCap /\ R.count \in 0..m /\ 2 * R.cap <= n
      /\ R.entries \in Seq(EntryType) /\ Len(R.entries) = m /\ MaxCap \in Nat
      /\ R.slots \in [0..(n - 1) -> Int] /\ DOMAIN R.slots = 0..(n - 1)
      /\ R \in MapType
  <2>1. R.slots \in [0..(n - 1) -> Int]
    <3>1. Removed..(m - 1) \subseteq Int /\ R.slots \in [0..(n - 1) -> Removed..(m - 1)]
      BY <1>1 DEF MapSound, TableFor
    <3> QED
      BY <3>1
  <2> QED
    BY <1>1, <2>1, MapFacts, CapAssumption DEF MapSound
<1>4. n \in Nat \ {0} /\ IsPower(n) /\ n > 0
  BY <1>1, <1>3 DEF MapSound
<1>5. Takes(R, k, s)
  BY <1>1, <1>2, <1>4, ProbeMisses
<1>6. /\ e \in EntryType /\ e.live /\ e.key = k
      /\ fs \in Seq(EntryType) /\ Len(fs) = m + 1 /\ fs[m + 1] = e
      /\ \A i \in 1..m : fs[i] = R.entries[i]
  BY <1>3 DEF NewEntry, EntryType
<1>7. TableFor(fs, m + 1, n, t)
  <2>1. TableFor(R.entries, m, n, R.slots)
    BY <1>1 DEF MapSound
  <2>2. TableFor(fs, m, n, R.slots)
    <3>1. \A i \in 1..m : (fs[i].live <=> R.entries[i].live) /\ fs[i].key = R.entries[i].key
      BY <1>6
    <3> HIDE DEF m, n, fs
    <3> QED
      BY <1>3, <2>1, <3>1, TableSame
  <2>3. PICK d \in 0..(n - 1) :
             /\ s = Place(n, k, d) /\ R.slots[s] < 0
             /\ \A i \in 0..(d - 1) : R.slots[Place(n, k, i)] # Empty /\ Place(n, k, i) # s
    BY <1>5 DEF Takes
  <2>4. fs[m + 1].live /\ fs[m + 1].key = k /\ \A i \in 1..(m + 1) : fs[i].key \in Keys
    <3>1. \A i \in 1..(m + 1) : fs[i] \in EntryType
      BY <1>6
    <3> QED
      BY <1>6, <3>1 DEF EntryType
  <2> HIDE DEF m, n, fs, s
  <2> QED
    BY <1>3, <1>4, <2>2, <2>3, <2>4, TableWith
<1>8. Distinct(fs)
  <2>1. Distinct(R.entries) /\ \A i \in 1..m : R.entries[i].live => R.entries[i].key # k
    BY <1>1, <1>2 DEF MapSound, Lacks
  <2>2. \A i \in 1..(m + 1) : i \in 1..m \/ i = m + 1
    BY <1>3
  <2>3. \A p, q \in 1..m : R.entries[p].live /\ R.entries[q].live /\ R.entries[p].key = R.entries[q].key => p = q
    BY <1>3, <2>1 DEF Distinct
  <2> HIDE DEF fs, m, e, n
  <2>4. \A p, q \in 1..(m + 1) : fs[p].live /\ fs[q].live /\ fs[p].key = fs[q].key => p = q
    BY <1>6, <2>1, <2>2, <2>3
  <2> QED
    BY <1>6, <2>4 DEF Distinct
<1>9. Len(Live(fs)) = R.count + 1
  <2>1. Live(fs) = Append(Live(R.entries), e)
    BY <1>3, <1>6, LiveAppend
  <2>2. Live(R.entries) \in Seq(EntryType) /\ Len(Live(R.entries)) = R.count
    BY <1>1, <1>3, LiveIs DEF MapSound
  <2> QED
    BY <2>1, <2>2
<1>10. Added(M, k, v) = N
  BY <1>3 DEF Added, R, Roomy, NewEntry, MapType
<1>11. t \in [0..(n - 1) -> Int] /\ t \in UNION {[0..(i - 1) -> Int] : i \in Nat}
  <2>1. m \in Int
    BY <1>3
  <2>2. t \in [0..(n - 1) -> Int]
    BY <1>3, <2>1, ExceptStays, Zenon
  <2> QED
    BY <1>3, <2>2
<1>12. R.count + 1 \in Nat
  BY <1>3
<1> HIDE DEF n, fs, t, m, e
<1>13. /\ N.entries = fs /\ N.cap = R.cap /\ N.slots = t /\ N.count = R.count + 1 /\ N.locks = R.locks
       /\ N \in MapType
  BY <1>3, <1>6, <1>11, <1>12 DEF MapType
<1> HIDE DEF N
<1>14. MapSound(N)
  <2>1. Len(N.entries) <= N.cap /\ 2 * N.cap <= n
    BY <1>1, <1>3, <1>6, <1>13
  <2> QED
    BY <1>3, <1>4, <1>6, <1>7, <1>8, <1>9, <1>13, <2>1, SoundIf
<1> QED
  BY <1>1, <1>10, <1>13, <1>14 DEF fs, e, R

LEMMA DroppedSound ==
    ASSUME NEW M, MapSound(M), NEW k \in Keys, NEW i \in 1..Used(M), FoundAt(M, k, i)
    PROVE  /\ MapSound(Dropped(M, k)) /\ Dropped(M, k).locks = M.locks /\ Dropped(M, k).cap = M.cap
           /\ Dropped(M, k).entries = [M.entries EXCEPT ![i].live = FALSE]
<1> DEFINE n == SlotCount(M)
           m == Used(M)
           es == M.entries
           fs == [es EXCEPT ![i].live = FALSE]
           s == Probe(M, k).slot
           t == [M.slots EXCEPT ![s] = Removed]
           N == [M EXCEPT !.slots = t, !.entries = fs, !.count = M.count - 1]
<1>1. /\ n \in Nat /\ m \in Nat /\ M.cap \in 0..MaxCap /\ M.count \in 0..m /\ M \in MapType
      /\ es \in Seq(EntryType) /\ Len(es) = m /\ DOMAIN M.slots = 0..(n - 1)
      /\ \A j \in 1..m : es[j] \in EntryType
      /\ m <= M.cap /\ 2 * M.cap <= n /\ (n > 0 => IsPower(n))
  BY MapFacts DEF MapSound
<1>2. es[i].live /\ es[i].key = k /\ s \in 0..(n - 1) /\ M.slots[s] = i - 1 /\ n \in Nat \ {0}
  <2>1. es[i].live /\ es[i].key = k /\ s \in 0..(n - 1) /\ M.slots[s] = i - 1
    BY DEF FoundAt
  <2> QED
    BY <1>1, <2>1
<1>3. /\ fs \in Seq(EntryType) /\ Len(fs) = m /\ ~fs[i].live /\ fs[i].key = k
      /\ \A j \in 1..m : j # i => fs[j] = es[j]
  <2>1. [es[i] EXCEPT !.live = FALSE] \in EntryType
    BY <1>1 DEF EntryType
  <2>2. fs \in [1..m -> EntryType]
    BY <1>1, <2>1
  <2>3. fs \in Seq(EntryType) /\ Len(fs) = m
    BY <1>1, <2>2
  <2>4. fs[i] = [es[i] EXCEPT !.live = FALSE] /\ \A j \in 1..m : j # i => fs[j] = es[j]
    BY <1>1
  <2>5. ~fs[i].live /\ fs[i].key = es[i].key
    BY <1>1, <2>4 DEF EntryType
  <2> QED
    BY <1>2, <2>3, <2>4, <2>5
<1>4. \A j \in 1..m : fs[j].key = es[j].key /\ (fs[j].live <=> es[j].live /\ j # i)
  BY <1>2, <1>3
<1> HIDE DEF fs, s
<1>5. TableFor(fs, m, n, t)
  <2>1. \A j \in 1..m : es[j].key \in Keys
    BY <1>1 DEF EntryType
  <2>2. TableFor(es, m, n, M.slots) /\ M.slots[s] >= 0 /\ M.slots[s] + 1 = i
    BY <1>1, <1>2 DEF MapSound
  <2>3. \A j \in 1..m : fs[j].key = es[j].key /\ (fs[j].live <=> es[j].live /\ j # M.slots[s] + 1)
    BY <1>4, <2>2
  <2> HIDE DEF m, n, es
  <2> QED
    BY <1>1, <1>2, <2>1, <2>2, <2>3, TableWithout
<1>6. Distinct(fs)
  BY <1>1, <1>3, <1>4 DEF Distinct, MapSound
<1>7. Len(Live(fs)) = M.count - 1 /\ M.count - 1 \in Nat
  <2>1. Len(Live(fs)) = Len(Live(es)) - 1
    <3>1. \A j \in 1..Len(es) : j # i => fs[j] = es[j]
      BY <1>1, <1>3
    <3>2. i \in 1..Len(es) /\ Len(fs) = Len(es)
      BY <1>1, <1>3
    <3> HIDE DEF es
    <3> QED
      BY <1>1, <1>2, <1>3, <3>1, <3>2, LiveLenDropped
  <2>2. Len(Live(fs)) \in Nat
    BY <1>3, LiveIs
  <2> QED
    BY <1>1, <2>1, <2>2 DEF MapSound
<1>8. Dropped(M, k) = N
  <2>1. Dropped(M, k) = [M EXCEPT !.slots = [M.slots EXCEPT ![s] = Removed],
                                  !.entries = [M.entries EXCEPT ![M.slots[s] + 1].live = FALSE],
                                  !.count = M.count - 1]
    BY <1>1 DEF Dropped, MapType, s
  <2>2. M.slots[s] + 1 = i
    BY <1>1, <1>2
  <2> QED
    BY <2>1, <2>2 DEF fs
<1>9. t \in UNION {[0..(j - 1) -> Int] : j \in Nat}
  <2>1. Removed..(m - 1) \subseteq Int /\ t \in [0..(n - 1) -> Removed..(m - 1)]
    BY <1>5 DEF TableFor
  <2>2. t \in [0..(n - 1) -> Int]
    BY <2>1
  <2> QED
    BY <1>1, <2>2
<1> HIDE DEF n, t, m, es
<1>10. /\ N.entries = fs /\ N.cap = M.cap /\ N.slots = t /\ N.count = M.count - 1 /\ N.locks = M.locks
       /\ N \in MapType
  BY <1>1, <1>3, <1>7, <1>9 DEF MapType
<1> HIDE DEF N
<1>11. MapSound(N)
  BY <1>1, <1>3, <1>5, <1>6, <1>7, <1>10, SoundIf
<1> QED
  BY <1>8, <1>10, <1>11 DEF fs, es

LEMMA ValueSound ==
    ASSUME NEW M, MapSound(M), NEW i \in 1..Used(M), NEW v \in Values
    PROVE  /\ MapSound([M EXCEPT !.entries[i].val = v]) /\ [M EXCEPT !.entries[i].val = v].locks = M.locks
           /\ [M EXCEPT !.entries[i].val = v].cap = M.cap
           /\ [M EXCEPT !.entries[i].val = v].entries = [M.entries EXCEPT ![i].val = v]
<1> DEFINE n == SlotCount(M)
           m == Used(M)
           es == M.entries
           fs == [es EXCEPT ![i].val = v]
           N == [M EXCEPT !.entries = fs]
<1>1. /\ n \in Nat /\ m \in Nat /\ M \in MapType
      /\ es \in Seq(EntryType) /\ Len(es) = m
      /\ \A j \in 1..m : es[j] \in EntryType
      /\ m <= M.cap /\ 2 * M.cap <= n /\ (n > 0 => IsPower(n))
  BY MapFacts DEF MapSound
<1>2. /\ fs \in Seq(EntryType) /\ Len(fs) = m
      /\ \A j \in 1..m : fs[j].key = es[j].key /\ (fs[j].live <=> es[j].live)
  <2>1. [es[i] EXCEPT !.val = v] \in EntryType
    BY <1>1 DEF EntryType
  <2>2. fs \in [1..m -> EntryType]
    BY <1>1, <2>1
  <2>3. fs \in Seq(EntryType) /\ Len(fs) = m
    BY <1>1, <2>2
  <2>4. fs[i] = [es[i] EXCEPT !.val = v] /\ \A j \in 1..m : j # i => fs[j] = es[j]
    BY <1>1
  <2>5. (fs[i].live <=> es[i].live) /\ fs[i].key = es[i].key
    BY <1>1, <2>4 DEF EntryType
  <2> QED
    BY <2>3, <2>4, <2>5
<1> HIDE DEF fs
<1>3. TableFor(fs, m, n, M.slots)
  <2>1. TableFor(es, m, n, M.slots)
    BY DEF MapSound
  <2> HIDE DEF m, n, es
  <2> QED
    BY <1>1, <1>2, <2>1, TableSame
<1>4. Distinct(fs)
  BY <1>1, <1>2 DEF Distinct, MapSound
<1>5. Len(Live(fs)) = M.count
  <2>1. \A j \in 1..Len(es) : fs[j].live <=> es[j].live
    BY <1>1, <1>2
  <2>2. Len(Live(fs)) = Len(Live(es))
    <3>1. Len(fs) = Len(es)
      BY <1>1, <1>2
    <3> HIDE DEF es
    <3> QED
      BY <1>1, <1>2, <2>1, <3>1, LiveLenSame
  <2> QED
    BY <2>2 DEF MapSound
<1>6. [M EXCEPT !.entries[i].val = v] = N
  BY <1>1 DEF fs, MapType
<1> HIDE DEF n, m, es
<1>7. /\ N.entries = fs /\ N.cap = M.cap /\ N.slots = M.slots /\ N.count = M.count /\ N.locks = M.locks
      /\ N \in MapType
  BY <1>1, <1>2 DEF MapType
<1> HIDE DEF N
<1>8. MapSound(N)
  BY <1>1, <1>2, <1>3, <1>4, <1>5, <1>7, SoundIf
<1> QED
  BY <1>6, <1>7, <1>8 DEF fs, es

LEMMA LocksSound ==
    ASSUME NEW M, MapSound(M), NEW l \in Nat
    PROVE  /\ MapSound([M EXCEPT !.locks = l]) /\ [M EXCEPT !.locks = l].locks = l
           /\ [M EXCEPT !.locks = l].entries = M.entries /\ [M EXCEPT !.locks = l].cap = M.cap
<1> DEFINE N == [M EXCEPT !.locks = l]
<1>1. M \in MapType
  BY DEF MapSound
<1>2. /\ N \in MapType /\ N.locks = l /\ N.entries = M.entries /\ N.cap = M.cap
      /\ N.slots = M.slots /\ N.count = M.count
  BY <1>1 DEF MapType
<1> HIDE DEF N
<1>3. MapSound(N)
  BY <1>2 DEF MapSound, Used, SlotCount
<1> QED
  BY <1>2, <1>3 DEF N

LEMMA DupSound ==
    ASSUME NEW M, MapSound(M)
    PROVE  /\ MapSound(Dup(M)) /\ Dup(M).locks = 0
           /\ Dup(M).entries = Live(M.entries)
<1>1. CASE M.count = 0
  <2>1. Live(M.entries) = <<>>
    <3>1. Live(M.entries) \in Seq(EntryType) /\ Len(Live(M.entries)) = 0
      BY <1>1, MapFacts, LiveIs DEF MapSound
    <3> QED
      BY <3>1
  <2> QED
    BY <1>1, <2>1, NewMapSound DEF Dup, NewMap
<1>2. CASE M.count # 0
  <2>1. M.count \in 1..MaxCap /\ M.count <= M.count
    <3>1. Used(M) <= M.cap
      BY DEF MapSound
    <3> QED
      BY <1>2, <3>1, MapFacts, CapAssumption
  <2>2. MapSound(Reallocated(M, M.count)) /\ Reallocated(M, M.count).entries = Live(M.entries)
    BY <2>1, ReallocatedSound
  <2>3. 0 \in Nat
    OBVIOUS
  <2>4. Dup(M) = [Reallocated(M, M.count) EXCEPT !.locks = 0]
    BY <1>2 DEF Dup
  <2> QED
    BY <2>2, <2>3, <2>4, LocksSound
<1> QED
  BY <1>1, <1>2

LEMMA CopyIntoSound ==
    ASSUME NEW D, MapSound(D), NEW S, MapSound(S), Fits(D, S)
    PROVE  /\ MapSound(CopyInto(D, S)) /\ CopyInto(D, S).locks = 0
           /\ CopyInto(D, S).entries = Live(S.entries)
<1> DEFINE n == SlotCount(D)
           es == Live(S.entries)
           t == IF n > 0 THEN Rebuilt(es, n) ELSE D.slots
           N == [D EXCEPT !.entries = es, !.count = S.count, !.slots = t]
<1>1. /\ n \in Nat /\ D.cap \in Nat /\ S.count \in Nat /\ D \in MapType /\ D.locks = 0
      /\ S.count <= D.cap /\ 2 * D.cap <= n /\ (n > 0 => IsPower(n))
  BY MapFacts, CapAssumption DEF MapSound, Fits
<1>2. S.count <= n
  BY <1>1
<1>3. /\ es \in Seq(EntryType) /\ Len(es) = S.count /\ Distinct(es) /\ Live(es) = es
      /\ TableFor(es, S.count, n, Rebuilt(es, n)) /\ Rebuilt(es, n) \in [0..(n - 1) -> Int]
  BY <1>1, <1>2, LiveTable
<1>4. CopyInto(D, S) = N
  BY <1>1, <1>3 DEF CopyInto, MapType
<1> HIDE DEF es
<1>5. TableFor(es, S.count, n, t) /\ t \in UNION {[0..(i - 1) -> Int] : i \in Nat}
  <2>1. CASE n > 0
    <3>1. t = Rebuilt(es, n)
      BY <2>1
    <3> HIDE DEF t
    <3> QED
      BY <1>1, <1>3, <3>1
  <2>2. CASE n = 0
    <3>1. t = D.slots /\ Used(D) = 0 /\ S.count = 0
      BY <1>1, <2>2, MapFacts
    <3>2. TableFor(D.entries, 0, n, D.slots)
      BY <3>1 DEF MapSound
    <3>3. TableFor(es, 0, n, D.slots)
      <4>1. \A i \in 1..0 : (es[i].live <=> D.entries[i].live) /\ es[i].key = D.entries[i].key
        OBVIOUS
      <4>2. 0 \in Nat
        OBVIOUS
      <4> HIDE DEF n, t
      <4> QED
        BY <1>1, <3>2, <4>1, <4>2, TableSame, Zenon
    <3>4. D.slots \in UNION {[0..(i - 1) -> Int] : i \in Nat}
      BY <1>1 DEF MapType
    <3> HIDE DEF t
    <3> QED
      BY <3>1, <3>3, <3>4
  <2> QED
    BY <1>1, <2>1, <2>2
<1> HIDE DEF n, t
<1>6. /\ N.entries = es /\ N.cap = D.cap /\ N.slots = t /\ N.count = S.count /\ N.locks = D.locks
      /\ N \in MapType
  BY <1>1, <1>3, <1>5 DEF MapType
<1> HIDE DEF N
<1>7. MapSound(N)
  BY <1>1, <1>3, <1>5, <1>6, SoundIf
<1> QED
  BY <1>1, <1>4, <1>6, <1>7 DEF es

\* What MapSound says in the words of FindAgrees and TableHasRoom.
LEMMA SoundFinds ==
    ASSUME NEW M, MapSound(M)
    PROVE  LET live == {n \in 0..(Used(M) - 1) : Entry(M, n).live}
           IN  /\ SlotCount(M) > 0 => \A k \in Keys : Stops(M, k) # {}
               /\ \A n \in live : Find(M, Entry(M, n).key) = n
               /\ \A k \in Keys \ {Entry(M, n).key : n \in live} : Find(M, k) = NoEntry
<1> DEFINE live == {n \in 0..(Used(M) - 1) : Entry(M, n).live}
<1>1. SlotCount(M) > 0 => \A k \in Keys : Stops(M, k) # {}
  BY ProbeStops
<1>2. ASSUME NEW n \in live  PROVE Find(M, Entry(M, n).key) = n
  <2>1. n + 1 \in 1..Used(M) /\ M.entries[n + 1].live /\ Entry(M, n) = M.entries[n + 1] /\ n + 1 - 1 = n
    BY MapFacts DEF Entry
  <2>2. M.entries[n + 1].key \in Keys
    BY <2>1, EntriesAre
  <2>3. ~Lacks(M, M.entries[n + 1].key)
    BY <2>1 DEF Lacks
  <2>4. PICK i \in 1..Used(M) : FoundAt(M, M.entries[n + 1].key, i)
    BY <2>2, <2>3, FindIs
  <2>5. i = n + 1
    BY <2>1, <2>4, MapFacts DEF FoundAt, MapSound, Distinct
  <2> QED
    BY <2>1, <2>4, <2>5 DEF FoundAt
<1>3. ASSUME NEW k \in Keys \ {Entry(M, n).key : n \in live}  PROVE Find(M, k) = NoEntry
  <2>1. ASSUME NEW i \in 1..Used(M), M.entries[i].live  PROVE M.entries[i].key # k
    <3>1. i - 1 \in 0..(Used(M) - 1) /\ Entry(M, i - 1) = M.entries[i]
      <4>1. i - 1 + 1 = i
        BY MapFacts
      <4> QED
        BY <4>1, MapFacts DEF Entry
    <3>2. i - 1 \in live
      BY <2>1, <3>1
    <3> QED
      BY <3>1, <3>2
  <2>2. Lacks(M, k)
    BY <2>1 DEF Lacks
  <2>3. \A i \in 1..Used(M) : ~FoundAt(M, k, i)
    BY <2>1 DEF FoundAt
  <2> QED
    BY <2>3, FindIs
<1> QED
  BY <1>1, <1>2, <1>3

LEMMA SoundHasRoom ==
    ASSUME NEW M, MapSound(M)
    PROVE  /\ M.count = Len(Live(M.entries))
           /\ Used(M) <= M.cap /\ 2 * M.cap <= SlotCount(M)
           /\ Cardinality({s \in DOMAIN M.slots : M.slots[s] # Empty}) <= Used(M)
           /\ SlotCount(M) > 0 => \E i \in 0..SlotCount(M) : SlotCount(M) = 2^i
<1>1. {s \in DOMAIN M.slots : M.slots[s] # Empty} = Taken(SlotCount(M), M.slots)
  BY MapFacts DEF Taken
<1> QED
  BY <1>1 DEF MapSound, TableFor, IsPower
-----------------------------------------------------------------------------
(* The loops. *)

LoopType ==
    [map : Maps, i : Nat, end : Nat, saved : Nat, inBody : BOOLEAN,
     from : Seq(Keys), seen : Seq(Keys), replaced : BOOLEAN]

\* Of the first n loops, those over m, and those whose map was not replaced.
LoopsOver(ls, m, n)    == {x \in 1..n : ls[x].map = m}
Holding(ls, m, n) == {x \in LoopsOver(ls, m, n) : ~ls[x].replaced}

MapsSound == map \in [Maps -> MapType] /\ \A m \in Maps : MapSound(map[m])

LoopsInside ==
    /\ loops \in Seq(LoopType) /\ Len(loops) <= MaxLoops /\ failed \in BOOLEAN
    /\ \A x \in 1..Len(loops) : /\ loops[x].i <= loops[x].end
                                /\ loops[x].inBody => loops[x].i < loops[x].end

\* A lock count is at least the loops that still hold the map, and at most
\* all loops over it; what a loop saved is that count when it began.
LocksBetween ==
    /\ \A m \in Maps : /\ Cardinality(Holding(loops, m, Len(loops))) <= map[m].locks
                       /\ map[m].locks <= Cardinality(LoopsOver(loops, m, Len(loops)))
    /\ \A x \in 1..Len(loops) :
         /\ Cardinality(Holding(loops, loops[x].map, x - 1)) <= loops[x].saved
         /\ loops[x].saved <= Cardinality(LoopsOver(loops, loops[x].map, x - 1))

Inv == MapsSound /\ LoopsInside /\ LocksBetween

LEMMA OverFinite ==
    ASSUME NEW ls, NEW m, NEW n \in Nat
    PROVE  /\ IsFiniteSet(LoopsOver(ls, m, n)) /\ Cardinality(LoopsOver(ls, m, n)) \in 0..n
           /\ IsFiniteSet(Holding(ls, m, n)) /\ Cardinality(Holding(ls, m, n)) \in Nat
           /\ Cardinality(Holding(ls, m, n)) <= Cardinality(LoopsOver(ls, m, n))
<1>1. IsFiniteSet(1..n) /\ Cardinality(1..n) = n /\ LoopsOver(ls, m, n) \subseteq 1..n
  BY FS_Interval DEF LoopsOver
<1>2. IsFiniteSet(LoopsOver(ls, m, n)) /\ Cardinality(LoopsOver(ls, m, n)) <= n /\ Cardinality(LoopsOver(ls, m, n)) \in Nat
  BY <1>1, FS_Subset, FS_CardinalityType
<1>3. Holding(ls, m, n) \subseteq LoopsOver(ls, m, n)
  BY DEF Holding
<1>4. IsFiniteSet(Holding(ls, m, n)) /\ Cardinality(Holding(ls, m, n)) <= Cardinality(LoopsOver(ls, m, n))
  BY <1>2, <1>3, FS_Subset
<1> QED
  BY <1>2, <1>4, FS_CardinalityType

LEMMA OverOneMore ==
    ASSUME NEW ls, NEW m, NEW n \in Nat
    PROVE  /\ ls[n + 1].map # m => /\ LoopsOver(ls, m, n + 1) = LoopsOver(ls, m, n)
                                   /\ Holding(ls, m, n + 1) = Holding(ls, m, n)
           /\ ls[n + 1].map = m =>
                /\ Cardinality(LoopsOver(ls, m, n + 1)) = Cardinality(LoopsOver(ls, m, n)) + 1
                /\ Cardinality(Holding(ls, m, n + 1)) <= Cardinality(Holding(ls, m, n)) + 1
                /\ Cardinality(Holding(ls, m, n)) <= Cardinality(Holding(ls, m, n + 1))
<1>1. 1..(n + 1) = (1..n) \cup {n + 1} /\ n + 1 \notin 1..n
  OBVIOUS
<1>2. CASE ls[n + 1].map # m
  BY <1>1, <1>2 DEF LoopsOver, Holding
<1>3. CASE ls[n + 1].map = m
  <2>1. LoopsOver(ls, m, n + 1) = LoopsOver(ls, m, n) \cup {n + 1} /\ n + 1 \notin LoopsOver(ls, m, n)
    BY <1>1, <1>3 DEF LoopsOver
  <2>2. Cardinality(LoopsOver(ls, m, n + 1)) = Cardinality(LoopsOver(ls, m, n)) + 1
    BY <2>1, OverFinite, FS_AddElement
  <2>3. /\ Holding(ls, m, n) \subseteq Holding(ls, m, n + 1)
        /\ Holding(ls, m, n + 1) \subseteq Holding(ls, m, n) \cup {n + 1}
        /\ n + 1 \notin Holding(ls, m, n)
    BY <2>1 DEF Holding
  <2>4. /\ IsFiniteSet(Holding(ls, m, n) \cup {n + 1})
        /\ Cardinality(Holding(ls, m, n) \cup {n + 1}) = Cardinality(Holding(ls, m, n)) + 1
    BY <2>3, OverFinite, FS_AddElement
  <2>5. Cardinality(Holding(ls, m, n + 1)) <= Cardinality(Holding(ls, m, n) \cup {n + 1})
    BY <2>3, <2>4, FS_Subset
  <2>6. Cardinality(Holding(ls, m, n)) <= Cardinality(Holding(ls, m, n + 1))
    <3>1. IsFiniteSet(Holding(ls, m, n + 1))
      BY OverFinite
    <3> QED
      BY <2>3, <3>1, FS_Subset
  <2> QED
    BY <1>3, <2>2, <2>4, <2>5, <2>6
<1> QED
  BY <1>2, <1>3

\* They are read off the first n loops' maps and marks.
LEMMA OverSame ==
    ASSUME NEW ls, NEW ks, NEW m, NEW n \in Nat,
           \A x \in 1..n : ks[x].map = ls[x].map /\ ks[x].replaced = ls[x].replaced
    PROVE  LoopsOver(ks, m, n) = LoopsOver(ls, m, n) /\ Holding(ks, m, n) = Holding(ls, m, n)
BY DEF LoopsOver, Holding

LEMMA LocksTyped ==
    ASSUME Inv
    PROVE  \A m \in Maps : map[m].locks \in 0..MaxLoops
<1> SUFFICES ASSUME NEW m \in Maps  PROVE map[m].locks \in 0..MaxLoops
  OBVIOUS
<1>1. Len(loops) \in Nat /\ Len(loops) <= MaxLoops
  BY DEF Inv, LoopsInside
<1>2. map[m].locks \in Nat
  BY MapFacts DEF Inv, MapsSound
<1>3. map[m].locks <= Cardinality(LoopsOver(loops, m, Len(loops)))
  BY DEF Inv, LocksBetween
<1>4. Cardinality(LoopsOver(loops, m, Len(loops))) \in 0..Len(loops)
  BY <1>1, OverFinite
<1> QED
  BY <1>1, <1>2, <1>3, <1>4, LoopsAssumption

\* The invariant gives what the runs check.
LEMMA InvSound ==
    ASSUME Inv
    PROVE  TableSound
<1>1. TypeOK
  <2>1. ASSUME NEW m \in Maps
        PROVE  LET M == map[m] IN
               /\ M.entries \in Seq(EntryType)
               /\ M.count \in Nat /\ M.cap \in 0..MaxCap /\ M.locks \in 0..MaxLoops
               /\ DOMAIN M.slots = 0..(SlotCount(M) - 1)
               /\ \A s \in DOMAIN M.slots : M.slots[s] \in Removed..(Used(M) - 1)
    <3>1. MapSound(map[m])
      BY DEF Inv, MapsSound
    <3>2. map[m].locks \in 0..MaxLoops
      BY LocksTyped
    <3>3. /\ map[m].entries \in Seq(EntryType) /\ map[m].cap \in 0..MaxCap
          /\ map[m].count \in Nat /\ DOMAIN map[m].slots = 0..(SlotCount(map[m]) - 1)
      BY <3>1, MapFacts
    <3>4. \A s \in 0..(SlotCount(map[m]) - 1) : map[m].slots[s] \in Removed..(Used(map[m]) - 1)
      BY <3>1 DEF MapSound, TableFor
    <3> QED
      BY <3>2, <3>3, <3>4
  <2>2. \A x \in DOMAIN loops : loops[x].i \in 0..loops[x].end
    <3>1. DOMAIN loops = 1..Len(loops) /\ \A x \in 1..Len(loops) : loops[x] \in LoopType /\ loops[x].i <= loops[x].end
      BY DEF Inv, LoopsInside
    <3>2. \A x \in 1..Len(loops) : loops[x].i \in Nat /\ loops[x].end \in Nat
      BY <3>1 DEF LoopType
    <3> QED
      BY <3>1, <3>2
  <2> QED
    BY <2>1, <2>2 DEF TypeOK, Inv, LoopsInside
<1>2. \A m \in Maps : MapSound(map[m])
  BY DEF Inv, MapsSound
<1>3. FindAgrees
  BY <1>2, SoundFinds DEF FindAgrees
<1>4. TableHasRoom
  BY <1>2, SoundHasRoom DEF TableHasRoom
<1> QED
  BY <1>1, <1>3, <1>4 DEF TableSound

LEMMA InvLocks ==
    ASSUME Inv
    PROVE  LocksMatchLoops
<1> SUFFICES ASSUME NEW m \in Maps
             PROVE  LET over == {x \in DOMAIN loops : loops[x].map = m} IN
                    IF \E x \in over : loops[x].replaced
                    THEN map[m].locks <= Cardinality(over)
                    ELSE map[m].locks = Cardinality(over)
  BY DEF LocksMatchLoops
<1>1. DOMAIN loops = 1..Len(loops) /\ Len(loops) \in Nat
  BY DEF Inv, LoopsInside
<1>2. {x \in DOMAIN loops : loops[x].map = m} = LoopsOver(loops, m, Len(loops))
  BY <1>1 DEF LoopsOver
<1>3. /\ Cardinality(Holding(loops, m, Len(loops))) <= map[m].locks
      /\ map[m].locks <= Cardinality(LoopsOver(loops, m, Len(loops)))
  BY DEF Inv, LocksBetween
<1>4. CASE \A x \in LoopsOver(loops, m, Len(loops)) : ~loops[x].replaced
  <2>1. Holding(loops, m, Len(loops)) = LoopsOver(loops, m, Len(loops))
    BY <1>4 DEF Holding
  <2>2. Cardinality(LoopsOver(loops, m, Len(loops))) \in Nat /\ map[m].locks \in Nat
    BY <1>1, OverFinite, MapFacts DEF Inv, MapsSound
  <2>3. map[m].locks = Cardinality(LoopsOver(loops, m, Len(loops)))
    BY <1>3, <2>1, <2>2
  <2> QED
    BY <1>2, <1>4, <2>3
<1> QED
  BY <1>2, <1>3, <1>4
-----------------------------------------------------------------------------
(* Steps. *)

LEMMA MapsKept ==
    ASSUME MapsSound, NEW m \in Maps, NEW N, MapSound(N), map' = [map EXCEPT ![m] = N]
    PROVE  MapsSound'
<1>1. N \in MapType
  BY DEF MapSound
<1>2. /\ map' \in [Maps -> MapType] /\ map'[m] = N
      /\ \A x \in Maps : x # m => map'[x] = map[x]
  BY <1>1 DEF MapsSound
<1> QED
  BY <1>2 DEF MapsSound

\* The loops, the maps they run over and the locks are the same.
LEMMA LocksKept ==
    ASSUME LocksBetween, loops \in Seq(LoopType), Len(loops') = Len(loops),
           \A x \in 1..Len(loops) : /\ loops'[x].map = loops[x].map
                                    /\ loops'[x].replaced = loops[x].replaced
                                    /\ loops'[x].saved = loops[x].saved,
           \A m \in Maps : map'[m].locks = map[m].locks
    PROVE  LocksBetween'
<1>1. ASSUME NEW m, NEW n \in 0..Len(loops)
      PROVE  LoopsOver(loops, m, n)' = LoopsOver(loops, m, n) /\ Holding(loops, m, n)' = Holding(loops, m, n)
  <2>1. \A x \in 1..n : loops'[x].map = loops[x].map /\ loops'[x].replaced = loops[x].replaced
    OBVIOUS
  <2> QED
    BY <2>1 DEF LoopsOver, Holding
<1>2. Len(loops) \in 0..Len(loops) /\ \A x \in 1..Len(loops) : x - 1 \in 0..Len(loops)
  OBVIOUS
<1> QED
  BY <1>1, <1>2 DEF LocksBetween

LEMMA SetStep ==
    ASSUME Inv, NEW m \in Maps, NEW k \in Keys, NEW v \in Values, Set(m, k, v)
    PROVE  Inv'
<1>1. /\ MapSound(map[m]) /\ map \in [Maps -> MapType] /\ MapsSound /\ LocksBetween /\ LoopsInside
      /\ loops \in Seq(LoopType) /\ UNCHANGED loops
  BY DEF Inv, MapsSound, LoopsInside, Set
<1>2. CASE Present(map[m], k) /\ map' = [map EXCEPT ![m].entries[Find(map[m], k) + 1].val = v]
           /\ UNCHANGED failed
  <2>1. PICK i \in 1..Used(map[m]) : FoundAt(map[m], k, i)
    BY <1>1, <1>2, FindIs
  <2>2. Find(map[m], k) + 1 = i
    BY <1>1, <2>1, MapFacts DEF FoundAt
  <2> DEFINE N == [map[m] EXCEPT !.entries[i].val = v]
  <2>3. map' = [map EXCEPT ![m] = N]
    BY <1>1, <1>2, <2>2
  <2>4. MapSound(N) /\ N.locks = map[m].locks
    BY <1>1, ValueSound
  <2> HIDE DEF N
  <2>5. MapsSound'
    BY <1>1, <2>3, <2>4, MapsKept
  <2>6. \A x \in Maps : map'[x].locks = map[x].locks
    BY <1>1, <2>3, <2>4
  <2>7. LocksBetween'
    BY <1>1, <2>6, LocksKept
  <2> QED
    BY <1>1, <1>2, <2>5, <2>7 DEF Inv, LoopsInside
<1>3. CASE ~Present(map[m], k) /\ ~TooLarge(map[m]) /\ map' = [map EXCEPT ![m] = Added(map[m], k, v)]
           /\ UNCHANGED failed
  <2>1. Lacks(map[m], k)
    <3>1. \A i \in 1..Used(map[m]) : ~FoundAt(map[m], k, i)
      BY <1>3 DEF FoundAt
    <3> QED
      BY <1>1, <3>1, FindIs
  <2> DEFINE N == Added(map[m], k, v)
  <2>2. MapSound(N) /\ N.locks = map[m].locks
    BY <1>1, <1>3, <2>1, AddedSound
  <2>3. map' = [map EXCEPT ![m] = N]
    BY <1>3
  <2> HIDE DEF N
  <2>5. MapsSound'
    BY <1>1, <2>2, <2>3, MapsKept
  <2>6. \A x \in Maps : map'[x].locks = map[x].locks
    BY <1>1, <2>2, <2>3
  <2>7. LocksBetween'
    BY <1>1, <2>6, LocksKept
  <2> QED
    BY <1>1, <1>3, <2>5, <2>7 DEF Inv, LoopsInside
<1>4. CASE failed' = TRUE /\ UNCHANGED map
  <2>1. MapsSound' /\ LocksBetween'
    BY <1>1, <1>4 DEF MapsSound, LocksBetween, LoopsOver, Holding
  <2> QED
    BY <1>1, <1>4, <2>1 DEF Inv, LoopsInside
<1> QED
  BY <1>2, <1>3, <1>4 DEF Set

LEMMA RemoveStep ==
    ASSUME Inv, NEW m \in Maps, NEW k \in Keys, Remove(m, k)
    PROVE  Inv'
<1>1. /\ MapSound(map[m]) /\ map \in [Maps -> MapType] /\ MapsSound /\ LocksBetween /\ LoopsInside
      /\ loops \in Seq(LoopType) /\ UNCHANGED loops
  BY DEF Inv, MapsSound, LoopsInside, Remove
<1>2. PICK i \in 1..Used(map[m]) : FoundAt(map[m], k, i)
  BY <1>1, FindIs DEF Remove
<1> DEFINE N == Dropped(map[m], k)
<1>3. MapSound(N) /\ N.locks = map[m].locks
  BY <1>1, <1>2, DroppedSound
<1>4. map' = [map EXCEPT ![m] = N]
  BY DEF Remove
<1> HIDE DEF N
<1>5. MapsSound'
  BY <1>1, <1>3, <1>4, MapsKept
<1>6. \A x \in Maps : map'[x].locks = map[x].locks
  BY <1>1, <1>3, <1>4
<1>7. LocksBetween'
  BY <1>1, <1>6, LocksKept
<1> QED
  BY <1>1, <1>5, <1>7 DEF Inv, LoopsInside, Remove

\* A map is replaced: no loop holds it, and nothing is locked.
LEMMA ReplacedStep ==
    ASSUME Inv, NEW m \in Maps, NEW N, MapSound(N), N.locks = 0,
           map' = [map EXCEPT ![m] = N], Replaced(m), UNCHANGED failed
    PROVE  Inv'
<1>1. /\ map \in [Maps -> MapType] /\ MapsSound /\ LocksBetween
      /\ loops \in Seq(LoopType) /\ DOMAIN loops = 1..Len(loops) /\ Len(loops) \in Nat
      /\ Len(loops) <= MaxLoops
  BY DEF Inv, MapsSound, LoopsInside
<1>2. MapsSound'
  BY <1>1, MapsKept
<1>3. /\ loops' \in Seq(LoopType) /\ Len(loops') = Len(loops)
      /\ \A x \in 1..Len(loops) :
           /\ loops'[x].map = loops[x].map /\ loops'[x].saved = loops[x].saved
           /\ loops'[x].i = loops[x].i /\ loops'[x].end = loops[x].end
           /\ loops'[x].inBody = loops[x].inBody
           /\ loops'[x].replaced = (loops[x].replaced \/ loops[x].map = m)
  <2>1. loops' = [x \in 1..Len(loops) |->
                    IF loops[x].map = m THEN [loops[x] EXCEPT !.replaced = TRUE] ELSE loops[x]]
    BY <1>1 DEF Replaced
  <2>2. \A x \in 1..Len(loops) : loops[x] \in LoopType
    BY <1>1
  <2>3. \A x \in 1..Len(loops) :
           /\ loops'[x] \in LoopType
           /\ loops'[x].map = loops[x].map /\ loops'[x].saved = loops[x].saved
           /\ loops'[x].i = loops[x].i /\ loops'[x].end = loops[x].end
           /\ loops'[x].inBody = loops[x].inBody
           /\ loops'[x].replaced = (loops[x].replaced \/ loops[x].map = m)
    BY <2>1, <2>2 DEF LoopType
  <2>4. loops' \in [1..Len(loops) -> LoopType]
    BY <2>1, <2>3
  <2> QED
    BY <1>1, <2>3, <2>4
<1>4. LoopsInside'
  BY <1>1, <1>3 DEF Inv, LoopsInside
<1>5. ASSUME NEW n \in 0..Len(loops), NEW x
      PROVE  /\ LoopsOver(loops, x, n)' = LoopsOver(loops, x, n)
             /\ x # m => Holding(loops, x, n)' = Holding(loops, x, n)
             /\ Holding(loops, m, n)' = {}
  <2>1. \A y \in 1..n : /\ loops'[y].map = loops[y].map
                        /\ loops'[y].replaced = (loops[y].replaced \/ loops[y].map = m)
    BY <1>1, <1>3
  <2> QED
    BY <2>1 DEF LoopsOver, Holding
<1>6. /\ map'[m].locks = 0 /\ \A x \in Maps : x # m => map'[x].locks = map[x].locks
      /\ \A x \in Maps : map'[x].locks \in Nat
  BY <1>1 DEF MapsSound, MapSound, MapType
<1>7. Cardinality({}) = 0
  BY FS_EmptySet
<1>8. ASSUME NEW x \in Maps
      PROVE  /\ Cardinality(Holding(loops, x, Len(loops)))' <= map'[x].locks
             /\ map'[x].locks <= Cardinality(LoopsOver(loops, x, Len(loops)))'
  <2>1. Len(loops) \in 0..Len(loops) /\ Len(loops') = Len(loops)
    BY <1>1, <1>3
  <2>2. Cardinality(LoopsOver(loops, x, Len(loops))) \in Nat
    BY <1>1, OverFinite
  <2>3. LoopsOver(loops, x, Len(loops))' = LoopsOver(loops, x, Len(loops))
    BY <1>5, <2>1
  <2>4. CASE x = m
    <3>1. Holding(loops, x, Len(loops))' = {}
      BY <1>5, <2>1, <2>4
    <3> QED
      BY <1>6, <1>7, <2>2, <2>3, <2>4, <3>1
  <2>5. CASE x # m
    <3>1. Holding(loops, x, Len(loops))' = Holding(loops, x, Len(loops))
      BY <1>5, <2>1, <2>5
    <3> QED
      BY <1>1, <1>6, <2>3, <2>5, <3>1 DEF LocksBetween
  <2> QED
    BY <2>4, <2>5
<1>9. ASSUME NEW x \in 1..Len(loops)
      PROVE  /\ Cardinality(Holding(loops, loops[x].map, x - 1))' <= loops'[x].saved
             /\ loops'[x].saved <= Cardinality(LoopsOver(loops, loops[x].map, x - 1))'
  <2>1. x - 1 \in 0..Len(loops) /\ loops'[x].map = loops[x].map /\ loops'[x].saved = loops[x].saved
    BY <1>1, <1>3
  <2>2. LoopsOver(loops, loops[x].map, x - 1)' = LoopsOver(loops, loops[x].map, x - 1)
    BY <1>5, <2>1
  <2>3. loops[x].saved \in Nat /\ loops[x].saved <= Cardinality(LoopsOver(loops, loops[x].map, x - 1))
    <3>1. loops[x] \in LoopType
      BY <1>1
    <3> QED
      BY <1>1, <3>1 DEF LoopType, LocksBetween
  <2>4. CASE loops[x].map = m
    <3>1. Holding(loops, loops[x].map, x - 1)' = {}
      BY <1>5, <2>1, <2>4
    <3> QED
      <4>1. Cardinality(Holding(loops, loops[x].map, x - 1))' = 0
        BY <1>7, <3>1
      <4>2. Cardinality(LoopsOver(loops, loops[x].map, x - 1))' = Cardinality(LoopsOver(loops, loops[x].map, x - 1))
        BY <2>2
      <4> QED
        BY <2>1, <2>3, <4>1, <4>2
  <2>5. CASE loops[x].map # m
    <3>1. Holding(loops, loops[x].map, x - 1)' = Holding(loops, loops[x].map, x - 1)
      BY <1>5, <2>1, <2>5
    <3> QED
      BY <1>1, <2>1, <2>2, <3>1 DEF LocksBetween
  <2> QED
    BY <2>4, <2>5
<1>10. LocksBetween'
  <2>1. Len(loops') = Len(loops)
    BY <1>3
  <2> QED
    BY <1>8, <1>9, <2>1 DEF LocksBetween
<1> QED
  BY <1>2, <1>4, <1>10 DEF Inv

LEMMA AssignStep ==
    ASSUME Inv, NEW m \in Maps, NEW n \in Maps, Assign(m, n)
    PROVE  Inv'
<1>1. MapSound(map[m]) /\ MapSound(map[n])
  BY DEF Inv, MapsSound
<1> DEFINE N == IF Fits(map[m], map[n]) THEN CopyInto(map[m], map[n]) ELSE Dup(map[n])
<1>2. MapSound(N) /\ N.locks = 0
  BY <1>1, CopyIntoSound, DupSound
<1>3. map' = [map EXCEPT ![m] = N] /\ Replaced(m) /\ UNCHANGED failed
  BY DEF Assign
<1> HIDE DEF N
<1> QED
  BY <1>2, <1>3, ReplacedStep

LEMMA ClearStep ==
    ASSUME Inv, NEW m \in Maps, Clear(m)
    PROVE  Inv'
<1>1. MapSound(NewMap) /\ NewMap.locks = 0
  BY NewMapSound DEF NewMap
<1> QED
  BY <1>1, ReplacedStep DEF Clear

LEMMA SetItemStep ==
    ASSUME Inv, NEW x \in DOMAIN loops, NEW v \in Values, SetItem(x, v)
    PROVE  Inv'
<1> DEFINE m == loops[x].map
           i == loops[x].i
<1>1. /\ m \in Maps /\ i \in Nat /\ map \in [Maps -> MapType] /\ MapsSound /\ LocksBetween /\ LoopsInside
      /\ loops \in Seq(LoopType) /\ UNCHANGED loops
  <2>1. loops[x] \in LoopType
    BY DEF Inv, LoopsInside
  <2> QED
    BY <2>1 DEF Inv, MapsSound, LoopsInside, SetItem, LoopType
<1>2. MapSound(map[m])
  BY <1>1 DEF MapsSound
<1> DEFINE N == [map[m] EXCEPT !.entries[i + 1].val = v]
<1>3. CASE i < Used(map[m]) /\ map' = [map EXCEPT ![m].entries[i + 1].val = v] /\ UNCHANGED failed
  <2>1. i + 1 \in 1..Used(map[m])
    BY <1>1, <1>2, <1>3, MapFacts
  <2>2. MapSound(N) /\ N.locks = map[m].locks
    BY <1>2, <2>1, ValueSound
  <2>3. map' = [map EXCEPT ![m] = N]
    BY <1>1, <1>3
  <2> HIDE DEF N, m
  <2>5. MapsSound'
    BY <1>1, <2>2, <2>3, MapsKept
  <2>6. \A y \in Maps : map'[y].locks = map[y].locks
    BY <1>1, <2>2, <2>3
  <2>7. LocksBetween'
    BY <1>1, <2>6, LocksKept
  <2> QED
    BY <1>1, <1>3, <2>5, <2>7 DEF Inv, LoopsInside
<1>4. CASE failed' = TRUE /\ UNCHANGED map
  <2>1. MapsSound' /\ LocksBetween'
    BY <1>1, <1>4 DEF MapsSound, LocksBetween, LoopsOver, Holding
  <2> QED
    BY <1>1, <1>4, <2>1 DEF Inv, LoopsInside
<1> QED
  BY <1>3, <1>4 DEF SetItem

LEMMA KeysFromTyped ==
    ASSUME NEW M, MapSound(M), NEW i \in Nat
    PROVE  KeysFrom(M, i) \in Seq(Keys)
<1> DEFINE part == SubSeq(M.entries, i + 1, Used(M))
           es == Live(part)
<1>1. M.entries \in Seq(EntryType) /\ Used(M) = Len(M.entries)
  BY MapFacts
<1>2. part \in Seq(EntryType)
  BY <1>1
<1>3. es \in Seq(EntryType)
  BY <1>2, LiveIs
<1> HIDE DEF part
<1>4. \A x \in DOMAIN es : es[x].key \in Keys
  <2>1. \A x \in DOMAIN es : es[x] \in EntryType
    BY <1>3
  <2> QED
    BY <2>1 DEF EntryType
<1>5. DOMAIN es = 1..Len(es) /\ Len(es) \in Nat
  BY <1>3
<1> HIDE DEF es
<1>6. [x \in DOMAIN es |-> es[x].key] \in Seq(Keys)
  BY <1>4, <1>5
<1> QED
  BY <1>6 DEF KeysFrom, es, part

LEMMA BeginLoopStep ==
    ASSUME Inv, NEW m \in Maps, BeginLoop(m)
    PROVE  Inv'
<1> DEFINE n == Len(loops)
           new == [map |-> m, i |-> 0, end |-> Used(map[m]), saved |-> map[m].locks, inBody |-> FALSE,
                   from |-> KeysFrom(map[m], 0), seen |-> <<>>, replaced |-> FALSE]
           N == [map[m] EXCEPT !.locks = map[m].locks + 1]
<1>1. /\ map \in [Maps -> MapType] /\ MapsSound /\ LocksBetween /\ MapSound(map[m])
      /\ loops \in Seq(LoopType) /\ n \in Nat /\ n < MaxLoops /\ MaxLoops \in Nat
      /\ \A x \in 1..n : /\ loops[x].i <= loops[x].end
                         /\ loops[x].inBody => loops[x].i < loops[x].end
      /\ failed \in BOOLEAN /\ UNCHANGED failed
  BY LoopsAssumption DEF Inv, MapsSound, LoopsInside, BeginLoop
<1>2. map[m].locks \in Nat /\ Used(map[m]) \in Nat
  BY <1>1, MapFacts
<1>3. map' = [map EXCEPT ![m] = N] /\ loops' = Append(loops, new)
  BY <1>1 DEF BeginLoop
<1>4. MapSound(N) /\ N.locks = map[m].locks + 1
  <2>1. map[m].locks + 1 \in Nat
    BY <1>2
  <2> QED
    BY <1>1, <2>1, LocksSound
<1> HIDE DEF N
<1>5. MapsSound'
  BY <1>1, <1>3, <1>4, MapsKept
<1>6. new \in LoopType /\ new.map = m /\ new.saved = map[m].locks /\ new.i = 0 /\ new.end \in Nat
      /\ new.inBody = FALSE /\ new.replaced = FALSE
  <2>1. KeysFrom(map[m], 0) \in Seq(Keys) /\ <<>> \in Seq(Keys)
    BY <1>1, KeysFromTyped
  <2> QED
    BY <1>2, <2>1 DEF LoopType
<1> HIDE DEF new
<1>7. /\ loops' \in Seq(LoopType) /\ Len(loops') = n + 1 /\ loops'[n + 1] = new
      /\ \A x \in 1..n : loops'[x] = loops[x]
  BY <1>1, <1>3, <1>6
<1>8. \A x \in 1..(n + 1) : x \in 1..n \/ x = n + 1
  BY <1>1
<1>9. LoopsInside'
  BY <1>1, <1>6, <1>7, <1>8 DEF LoopsInside
<1>10. \A y \in 0..n : \A x : LoopsOver(loops', x, y) = LoopsOver(loops, x, y) /\ Holding(loops', x, y) = Holding(loops, x, y)
  <2> SUFFICES ASSUME NEW y \in 0..n, NEW x
               PROVE  LoopsOver(loops', x, y) = LoopsOver(loops, x, y) /\ Holding(loops', x, y) = Holding(loops, x, y)
    BY Zenon
  <2>1. \A z \in 1..y : loops'[z] = loops[z]
    BY <1>7
  <2>2. y \in Nat
    OBVIOUS
  <2> QED
    BY <2>1, <2>2, OverSame
<1>11. map'[m].locks = map[m].locks + 1 /\ \A x \in Maps : x # m => map'[x].locks = map[x].locks
  BY <1>1, <1>3, <1>4
<1>12. n \in 0..n /\ \A x \in 1..n : x - 1 \in 0..n
  BY <1>1
<1>13. ASSUME NEW x \in Maps
       PROVE  /\ Cardinality(Holding(loops', x, n + 1)) <= map'[x].locks
              /\ map'[x].locks <= Cardinality(LoopsOver(loops', x, n + 1))
  <2>1. /\ Cardinality(Holding(loops, x, n)) <= map[x].locks
        /\ map[x].locks <= Cardinality(LoopsOver(loops, x, n))
        /\ LoopsOver(loops', x, n) = LoopsOver(loops, x, n) /\ Holding(loops', x, n) = Holding(loops, x, n)
    BY <1>1, <1>10, <1>12 DEF LocksBetween
  <2>2. CASE x = m
    <3>1. /\ Cardinality(LoopsOver(loops', x, n + 1)) = Cardinality(LoopsOver(loops', x, n)) + 1
          /\ Cardinality(Holding(loops', x, n + 1)) <= Cardinality(Holding(loops', x, n)) + 1
      BY <1>1, <1>6, <1>7, <2>2, OverOneMore
    <3>2. /\ Cardinality(LoopsOver(loops', x, n)) \in Nat /\ Cardinality(Holding(loops', x, n)) \in Nat
          /\ Cardinality(Holding(loops', x, n + 1)) \in Nat
      <4>1. n + 1 \in Nat
        BY <1>1
      <4> QED
        BY <1>1, <4>1, OverFinite
    <3> QED
      BY <1>2, <1>11, <2>1, <2>2, <3>1, <3>2
  <2>3. CASE x # m
    <3>1. LoopsOver(loops', x, n + 1) = LoopsOver(loops', x, n) /\ Holding(loops', x, n + 1) = Holding(loops', x, n)
      BY <1>1, <1>6, <1>7, <2>3, OverOneMore
    <3> QED
      BY <1>11, <2>1, <2>3, <3>1
  <2> QED
    BY <2>2, <2>3
<1>14. ASSUME NEW x \in 1..(n + 1)
       PROVE  /\ Cardinality(Holding(loops', loops'[x].map, x - 1)) <= loops'[x].saved
              /\ loops'[x].saved <= Cardinality(LoopsOver(loops', loops'[x].map, x - 1))
  <2>1. CASE x \in 1..n
    BY <1>1, <1>7, <1>10, <1>12, <2>1 DEF LocksBetween
  <2>2. CASE x = n + 1
    <3>1. x - 1 = n /\ loops'[x].map = m /\ loops'[x].saved = map[m].locks
      BY <1>1, <1>6, <1>7, <2>2
    <3> QED
      BY <1>1, <1>10, <1>12, <3>1 DEF LocksBetween
  <2> QED
    BY <1>8, <2>1, <2>2
<1>15. LocksBetween'
  BY <1>7, <1>13, <1>14 DEF LocksBetween
<1> QED
  BY <1>5, <1>9, <1>15 DEF Inv

LEMMA LoopTyped ==
    ASSUME NEW L \in LoopType
    PROVE  /\ \A k \in Keys : [L EXCEPT !.inBody = TRUE, !.seen = Append(L.seen, k)] \in LoopType
           /\ [L EXCEPT !.inBody = FALSE, !.i = L.i + 1] \in LoopType
<1>1. ASSUME NEW b \in BOOLEAN  PROVE [L EXCEPT !.inBody = b] \in LoopType
  BY DEF LoopType
<1>2. ASSUME NEW J \in LoopType, NEW s \in Seq(Keys)  PROVE [J EXCEPT !.seen = s] \in LoopType
  BY DEF LoopType
<1>3. ASSUME NEW J \in LoopType, NEW i \in Nat  PROVE [J EXCEPT !.i = i] \in LoopType
  BY DEF LoopType
<1>4. (\A k \in Keys : Append(L.seen, k) \in Seq(Keys)) /\ L.i + 1 \in Nat
  BY DEF LoopType
<1>5. /\ \A k \in Keys : [[L EXCEPT !.inBody = TRUE] EXCEPT !.seen = Append(L.seen, k)] \in LoopType
      /\ [[L EXCEPT !.inBody = FALSE] EXCEPT !.i = L.i + 1] \in LoopType
  BY <1>1, <1>2, <1>3, <1>4
<1> QED
  BY <1>5

\* The steps that change a loop's place.
LEMMA PlaceStep ==
    ASSUME Inv, Pass \/ EndBody
    PROVE  Inv'
<1> DEFINE n == Len(loops)
           L == loops[n]
           K == loops'[n]
<1>1. /\ MapsSound /\ LocksBetween /\ LoopsInside /\ loops \in Seq(LoopType) /\ n \in Nat \ {0}
      /\ \A x \in 1..n : /\ loops[x].i <= loops[x].end
                         /\ loops[x].inBody => loops[x].i < loops[x].end
      /\ UNCHANGED <<map, failed>> /\ Top = L /\ L \in LoopType
  <2>1. loops # <<>> /\ UNCHANGED <<map, failed>>
    BY DEF Pass, EndBody
  <2>2. loops \in Seq(LoopType)
    BY DEF Inv, LoopsInside
  <2>3. n \in Nat \ {0}
    BY <2>1, <2>2
  <2> QED
    BY <2>1, <2>2, <2>3 DEF Inv, LoopsInside, Top
<1>0. L \in LoopType
  BY <1>1
<1>2. (L.inBody => L.i < L.end) /\ L = loops[n] /\ n = Len(loops) /\ L.i <= L.end
  BY <1>1
<1>3. /\ K \in LoopType /\ K.map = L.map /\ K.saved = L.saved /\ K.replaced = L.replaced
      /\ K.i <= K.end
      /\ K.inBody => K.i < K.end
      /\ loops' = [loops EXCEPT ![n] = K]
  <2>1. CASE Pass /\ LiveAt(map[L.map], L.i)
    <3> DEFINE k == Entry(map[L.map], L.i).key
               J == [L EXCEPT !.inBody = TRUE, !.seen = Append(L.seen, k)]
    <3>1. k \in Keys /\ L.i < L.end /\ ~L.inBody
      <4>1. MapSound(map[L.map]) /\ L.i \in Nat
        BY <1>1 DEF MapsSound, LoopType
      <4>2. L.i + 1 \in 1..Used(map[L.map])
        BY <2>1, <4>1, MapFacts DEF LiveAt
      <4> QED
        BY <1>1, <2>1, <4>1, <4>2, EntriesAre DEF Entry, Pass
    <3> HIDE DEF k, n, L
    <3>2. J \in LoopType
      BY <1>0, <3>1, LoopTyped
    <3>3. /\ J.map = L.map /\ J.saved = L.saved /\ J.replaced = L.replaced
          /\ J.i = L.i /\ J.end = L.end
      BY <1>1 DEF LoopType
    <3>4. J.inBody
      BY <1>1 DEF LoopType
    <3>5. loops' = [loops EXCEPT ![n] = J]
      BY <1>1, <1>2, <2>1 DEF Pass, k, LoopType
    <3> HIDE DEF J
    <3>6. loops'[n] = J
      BY <1>1, <1>2, <3>5
    <3>7. J.i <= J.end /\ (J.inBody => J.i < J.end)
      <4>1. L.i \in Nat /\ L.end \in Nat
        BY <1>1 DEF LoopType
      <4> QED
        BY <1>2, <3>1, <3>3, <3>4, <4>1
    <3> QED
      BY <3>2, <3>3, <3>5, <3>6, <3>7 DEF n
  <2>2. CASE Pass /\ ~LiveAt(map[L.map], L.i)
    <3> DEFINE J == [L EXCEPT !.i = L.i + 1]
    <3>1. L.i < L.end /\ ~L.inBody
      BY <1>1, <2>2 DEF Pass
    <3> HIDE DEF n, L
    <3>2. J \in LoopType
      BY <1>0 DEF LoopType
    <3>3. /\ J.map = L.map /\ J.saved = L.saved /\ J.replaced = L.replaced
          /\ J.i = L.i + 1 /\ J.end = L.end
      BY <1>1 DEF LoopType
    <3>4. J.inBody <=> L.inBody
      BY <1>1 DEF LoopType
    <3>5. loops' = [loops EXCEPT ![n] = J]
      BY <1>1, <1>2, <2>2 DEF Pass, LoopType
    <3> HIDE DEF J
    <3>6. loops'[n] = J
      BY <1>1, <1>2, <3>5
    <3>7. J.i <= J.end /\ (J.inBody => J.i < J.end)
      <4>1. L.i \in Nat /\ L.end \in Nat
        BY <1>1 DEF LoopType
      <4> QED
        BY <1>2, <3>1, <3>3, <3>4, <4>1
    <3> QED
      BY <3>2, <3>3, <3>5, <3>6, <3>7 DEF n
  <2>3. CASE EndBody
    <3> DEFINE J == [L EXCEPT !.inBody = FALSE, !.i = L.i + 1]
    <3>1. L.i < L.end
      BY <1>1, <1>2, <2>3 DEF EndBody, InCode
    <3> HIDE DEF n, L
    <3>2. J \in LoopType
      BY <1>0, LoopTyped
    <3>3. /\ J.map = L.map /\ J.saved = L.saved /\ J.replaced = L.replaced
          /\ J.i = L.i + 1 /\ J.end = L.end
      BY <1>1 DEF LoopType
    <3>4. ~J.inBody
      BY <1>1 DEF LoopType
    <3>5. loops' = [loops EXCEPT ![n] = J]
      BY <1>1, <1>2, <2>3 DEF EndBody, LoopType
    <3> HIDE DEF J
    <3>6. loops'[n] = J
      BY <1>1, <1>2, <3>5
    <3>7. J.i <= J.end /\ (J.inBody => J.i < J.end)
      <4>1. L.i \in Nat /\ L.end \in Nat
        BY <1>1 DEF LoopType
      <4> QED
        BY <1>2, <3>1, <3>3, <3>4, <4>1
    <3> QED
      BY <3>2, <3>3, <3>5, <3>6, <3>7 DEF n
  <2> QED
    BY <2>1, <2>2, <2>3
<1> HIDE DEF K
<1>4. /\ loops' \in Seq(LoopType) /\ Len(loops') = n /\ loops'[n] = K
      /\ \A x \in 1..n : x # n => loops'[x] = loops[x]
  BY <1>1, <1>3
<1>5. LoopsInside'
  BY <1>1, <1>3, <1>4 DEF LoopsInside
<1>6. LocksBetween'
  <2>1. \A x \in 1..n : /\ loops'[x].map = loops[x].map
                        /\ loops'[x].replaced = loops[x].replaced
                        /\ loops'[x].saved = loops[x].saved
    BY <1>3, <1>4
  <2>2. \A m \in Maps : map'[m].locks = map[m].locks
    BY <1>1
  <2> QED
    BY <1>1, <1>4, <2>1, <2>2, LocksKept
<1>7. MapsSound'
  BY <1>1 DEF MapsSound
<1> QED
  BY <1>5, <1>6, <1>7 DEF Inv

LEMMA EndLoopStep ==
    ASSUME Inv, EndLoop
    PROVE  Inv'
<1> DEFINE n == Len(loops)
           L == loops[n]
           N == [map[L.map] EXCEPT !.locks = L.saved]
<1>1. /\ MapsSound /\ LocksBetween /\ loops \in Seq(LoopType) /\ n \in Nat \ {0} /\ n <= MaxLoops
      /\ map \in [Maps -> MapType] /\ Top = L /\ L \in LoopType /\ MaxLoops \in Nat
      /\ \A x \in 1..n : /\ loops[x].i <= loops[x].end
                         /\ loops[x].inBody => loops[x].i < loops[x].end
      /\ failed \in BOOLEAN /\ UNCHANGED failed
  <2>1. loops # <<>> /\ UNCHANGED failed
    BY DEF EndLoop
  <2>2. loops \in Seq(LoopType)
    BY DEF Inv, LoopsInside
  <2>3. n \in Nat \ {0}
    BY <2>1, <2>2
  <2> QED
    BY <2>1, <2>2, <2>3, LoopsAssumption DEF Inv, MapsSound, LoopsInside, Top
<1>2. L.map \in Maps /\ L.saved \in Nat
  BY <1>1 DEF LoopType
<1>3. MapSound(N) /\ N.locks = L.saved
  BY <1>1, <1>2, LocksSound DEF MapsSound
<1>4. map' = [map EXCEPT ![L.map] = N] /\ loops' = SubSeq(loops, 1, n - 1)
  BY <1>1 DEF EndLoop
<1> HIDE DEF N
<1>5. MapsSound'
  BY <1>1, <1>2, <1>3, <1>4, MapsKept
<1>6. /\ loops' \in Seq(LoopType) /\ Len(loops') = n - 1 /\ \A x \in 1..(n - 1) : loops'[x] = loops[x]
  <2>1. n - 1 \in 0..n /\ n = Len(loops)
    BY <1>1
  <2> HIDE DEF n
  <2>2. \A x \in 1..(n - 1) : x \in 1..n /\ SubSeq(loops, 1, n - 1)[x] = loops[x]
    BY <1>1, <2>1
  <2>3. SubSeq(loops, 1, n - 1) \in Seq(LoopType) /\ Len(SubSeq(loops, 1, n - 1)) = n - 1
    BY <1>1, <2>1
  <2> QED
    BY <1>4, <2>2, <2>3
<1>7. LoopsInside'
  <2>1. \A x \in 1..(n - 1) : x \in 1..n
    BY <1>1
  <2> QED
    BY <1>1, <1>6, <2>1 DEF LoopsInside
<1>8. /\ map'[L.map].locks = L.saved
      /\ \A x \in Maps : x # L.map => map'[x].locks = map[x].locks
  BY <1>1, <1>2, <1>3, <1>4
<1>9. \A y \in 0..(n - 1) : \A x : /\ LoopsOver(loops', x, y) = LoopsOver(loops, x, y)
                                   /\ Holding(loops', x, y) = Holding(loops, x, y)
  <2> SUFFICES ASSUME NEW y \in 0..(n - 1), NEW x
               PROVE  LoopsOver(loops', x, y) = LoopsOver(loops, x, y) /\ Holding(loops', x, y) = Holding(loops, x, y)
    BY Zenon
  <2>1. \A z \in 1..y : loops'[z] = loops[z]
    BY <1>6
  <2>2. y \in Nat
    OBVIOUS
  <2> QED
    BY <2>1, <2>2, OverSame
<1>10. n - 1 \in 0..(n - 1) /\ n - 1 \in Nat /\ n - 1 + 1 = n /\ n \in 1..n
       /\ \A x \in 1..(n - 1) : x \in 1..n /\ x - 1 \in 0..(n - 1)
  BY <1>1
<1>11. ASSUME NEW x \in Maps
       PROVE  /\ Cardinality(Holding(loops', x, n - 1)) <= map'[x].locks
              /\ map'[x].locks <= Cardinality(LoopsOver(loops', x, n - 1))
  <2>1. LoopsOver(loops', x, n - 1) = LoopsOver(loops, x, n - 1) /\ Holding(loops', x, n - 1) = Holding(loops, x, n - 1)
    BY <1>9, <1>10
  <2>2. CASE x = L.map
    BY <1>1, <1>8, <1>10, <2>1, <2>2 DEF LocksBetween
  <2>3. CASE x # L.map
    <3>1. LoopsOver(loops, x, n) = LoopsOver(loops, x, n - 1) /\ Holding(loops, x, n) = Holding(loops, x, n - 1)
      <4>1. /\ LoopsOver(loops, x, n - 1 + 1) = LoopsOver(loops, x, n - 1)
            /\ Holding(loops, x, n - 1 + 1) = Holding(loops, x, n - 1)
        BY <1>10, <2>3, OverOneMore
      <4> QED
        BY <1>10, <4>1
    <3>2. /\ Cardinality(Holding(loops, x, n)) <= map[x].locks
          /\ map[x].locks <= Cardinality(LoopsOver(loops, x, n))
      BY <1>1 DEF LocksBetween
    <3> QED
      BY <1>8, <2>1, <2>3, <3>1, <3>2
  <2> QED
    BY <2>2, <2>3
<1>12. ASSUME NEW x \in 1..(n - 1)
       PROVE  /\ Cardinality(Holding(loops', loops'[x].map, x - 1)) <= loops'[x].saved
              /\ loops'[x].saved <= Cardinality(LoopsOver(loops', loops'[x].map, x - 1))
  BY <1>1, <1>6, <1>9, <1>10 DEF LocksBetween
<1>13. LocksBetween'
  BY <1>6, <1>11, <1>12 DEF LocksBetween
<1> QED
  BY <1>5, <1>7, <1>13 DEF Inv

\* The outermost loop over a map saved that nothing was locked.
LEMMA OutermostSaved ==
    ASSUME Inv, NEW m \in Maps, NEW x \in DOMAIN loops, SavedBy(m, x)
    PROVE  loops[x].saved = 0
<1>1. loops \in Seq(LoopType) /\ x \in 1..Len(loops) /\ loops[x] \in LoopType /\ x - 1 \in Nat
  BY DEF Inv, LoopsInside
<1>2. loops[x].saved \in Nat /\ loops[x].map = m
  BY <1>1 DEF LoopType, SavedBy
<1>3. LoopsOver(loops, m, x - 1) = {}
  BY DEF SavedBy, LoopsOver
<1>4. loops[x].saved <= Cardinality(LoopsOver(loops, m, x - 1))
  BY <1>1, <1>2 DEF Inv, LocksBetween
<1>5. Cardinality(LoopsOver(loops, m, x - 1)) = 0
  BY <1>3, FS_EmptySet
<1> QED
  BY <1>2, <1>4, <1>5

LEMMA ReturnStep ==
    ASSUME Inv, Return
    PROVE  Inv'
<1>1. /\ map \in [Maps -> MapType] /\ MapsSound /\ LocksBetween /\ loops \in Seq(LoopType)
      /\ failed \in BOOLEAN /\ UNCHANGED failed /\ loops' = <<>> /\ MaxLoops \in Nat
      /\ Len(loops) \in Nat /\ DOMAIN loops = 1..Len(loops)
  BY LoopsAssumption DEF Inv, MapsSound, LoopsInside, Return
<1>2. ASSUME NEW m \in Maps
      PROVE  MapSound(map'[m]) /\ map'[m].locks = 0
  <2>1. MapSound(map[m]) /\ 0 \in Nat
    BY <1>1 DEF MapsSound
  <2>2. CASE \E x \in DOMAIN loops : SavedBy(m, x)
    <3> DEFINE x == CHOOSE x \in DOMAIN loops : SavedBy(m, x)
    <3>1. x \in DOMAIN loops /\ SavedBy(m, x)
      BY <2>2
    <3>2. map'[m] = [map[m] EXCEPT !.locks = loops[x].saved]
      BY <2>2 DEF Return
    <3> HIDE DEF x
    <3>3. loops[x].saved = 0
      BY <3>1, OutermostSaved
    <3> QED
      BY <2>1, <3>2, <3>3, LocksSound
  <2>3. CASE ~\E x \in DOMAIN loops : SavedBy(m, x)
    <3>1. map'[m] = map[m]
      BY <2>3 DEF Return
    <3> DEFINE S == {x \in 1..Len(loops) : loops[x].map = m}
    <3>2. S = {}
      <4> SUFFICES ASSUME S # {}  PROVE FALSE
        OBVIOUS
      <4>1. LeastOf(S) \in S /\ \A x \in S : LeastOf(S) <= x
        BY LeastExists
      <4>2. \A y \in 1..(LeastOf(S) - 1) : y \in 1..Len(loops) /\ ~(LeastOf(S) <= y)
        BY <1>1, <4>1
      <4>3. SavedBy(m, LeastOf(S))
        BY <4>1, <4>2 DEF SavedBy
      <4> QED
        BY <1>1, <2>3, <4>1, <4>3
    <3>3. Cardinality(LoopsOver(loops, m, Len(loops))) = 0
      BY <3>2, FS_EmptySet DEF LoopsOver
    <3>4. map[m].locks <= Cardinality(LoopsOver(loops, m, Len(loops))) /\ map[m].locks \in Nat
      BY <1>1, <2>1, MapFacts DEF LocksBetween
    <3> QED
      BY <2>1, <3>1, <3>3, <3>4
  <2> QED
    BY <2>2, <2>3
<1>3. MapsSound'
  <2>1. map' = [m \in Maps |-> map'[m]]
    BY DEF Return
  <2>2. \A m \in Maps : map'[m] \in MapType
    BY <1>2 DEF MapSound
  <2> QED
    BY <1>2, <2>1, <2>2 DEF MapsSound
<1>4. LoopsInside'
  BY <1>1 DEF LoopsInside
<1>5. LocksBetween'
  <2>1. \A m : LoopsOver(loops', m, 0) = {} /\ Holding(loops', m, 0) = {}
    BY DEF LoopsOver, Holding
  <2>2. Cardinality({}) = 0 /\ Len(loops') = 0 /\ 1..Len(loops') = {}
    BY <1>1, FS_EmptySet
  <2>3. \A m \in Maps : /\ Cardinality(Holding(loops', m, Len(loops'))) <= map'[m].locks
                        /\ map'[m].locks <= Cardinality(LoopsOver(loops', m, Len(loops')))
    <3> SUFFICES ASSUME NEW m \in Maps
                 PROVE  /\ Cardinality(Holding(loops', m, Len(loops'))) <= map'[m].locks
                        /\ map'[m].locks <= Cardinality(LoopsOver(loops', m, Len(loops')))
      OBVIOUS
    <3>1. map'[m].locks = 0 /\ Holding(loops', m, Len(loops')) = {} /\ LoopsOver(loops', m, Len(loops')) = {}
      BY <1>2, <2>1, <2>2
    <3>2. /\ Cardinality(Holding(loops', m, Len(loops'))) = 0
          /\ Cardinality(LoopsOver(loops', m, Len(loops'))) = 0
      BY <2>2, <3>1, Zenon
    <3> QED
      BY <3>1, <3>2
  <2> QED
    BY <2>2, <2>3 DEF LocksBetween
<1> QED
  BY <1>3, <1>4, <1>5 DEF Inv

LEMMA InitInv == Init => Inv
<1> SUFFICES ASSUME Init  PROVE Inv
  OBVIOUS
<1>1. map = [m \in Maps |-> NewMap] /\ loops = <<>> /\ failed = FALSE
  BY DEF Init
<1>2. MapSound(NewMap) /\ NewMap \in MapType /\ NewMap.locks = 0
  BY NewMapSound DEF MapSound, NewMap
<1> HIDE DEF NewMap
<1>3. MapsSound /\ \A m \in Maps : map[m].locks = 0
  BY <1>1, <1>2 DEF MapsSound
<1>4. LoopsInside
  <2>1. <<>> \in Seq(LoopType) /\ Len(<<>>) = 0
    OBVIOUS
  <2>2. loops \in Seq(LoopType) /\ Len(loops) = 0 /\ failed \in BOOLEAN
    BY <1>1, <2>1, Zenon
  <2>3. Len(loops) <= MaxLoops /\ 1..Len(loops) = {}
    BY <2>2, LoopsAssumption
  <2> QED
    BY <2>2, <2>3 DEF LoopsInside
<1>5. LocksBetween
  <2>1. Len(loops) = 0 /\ 1..Len(loops) = {}
    BY <1>1
  <2>2. \A m : LoopsOver(loops, m, 0) = {} /\ Holding(loops, m, 0) = {}
    BY DEF LoopsOver, Holding
  <2>3. Cardinality({}) = 0
    BY FS_EmptySet
  <2>4. \A m \in Maps : /\ Cardinality(Holding(loops, m, Len(loops))) = 0
                        /\ Cardinality(LoopsOver(loops, m, Len(loops))) = 0
    BY <2>1, <2>2, <2>3, Zenon
  <2> QED
    BY <1>3, <2>1, <2>4 DEF LocksBetween
<1> QED
  BY <1>3, <1>4, <1>5 DEF Inv

LEMMA InvStep == Inv /\ [Next]_vars => Inv'
<1> SUFFICES ASSUME Inv, [Next]_vars  PROVE Inv'
  OBVIOUS
<1>1. ASSUME NEW m \in Maps, NEW k \in Keys, NEW v \in Values, Set(m, k, v)  PROVE Inv'
  BY <1>1, SetStep
<1>2. ASSUME NEW m \in Maps, NEW k \in Keys, Remove(m, k)  PROVE Inv'
  BY <1>2, RemoveStep
<1>3. ASSUME NEW m \in Maps, NEW n \in Maps, Assign(m, n)  PROVE Inv'
  BY <1>3, AssignStep
<1>4. ASSUME NEW m \in Maps, Clear(m)  PROVE Inv'
  BY <1>4, ClearStep
<1>5. ASSUME NEW m \in Maps, BeginLoop(m)  PROVE Inv'
  BY <1>5, BeginLoopStep
<1>6. ASSUME NEW x \in DOMAIN loops, NEW v \in Values, SetItem(x, v)  PROVE Inv'
  BY <1>6, SetItemStep
<1>7. CASE Pass \/ EndBody
  BY <1>7, PlaceStep
<1>8. CASE EndLoop
  BY <1>8, EndLoopStep
<1>9. CASE Return
  BY <1>9, ReturnStep
<1>10. CASE UNCHANGED vars
  BY <1>10 DEF Inv, MapsSound, LoopsInside, LocksBetween, vars
<1>11. CASE Over
  BY <1>10, <1>11 DEF Over
<1> QED
  BY <1>1, <1>2, <1>3, <1>4, <1>5, <1>6, <1>7, <1>8, <1>9, <1>10, <1>11 DEF Next

\* Inv is inductive.
THEOREM InvAlways == Spec => []Inv
BY InitInv, InvStep, PTL DEF Spec

\* Whatever keys collide, and however keys are set, removed and copied between
\* maps of any capacity, every live entry is found by its key and nothing else
\* is, every probe stops, at most half the slots are taken, and the count of
\* a map is that of its live entries.
THEOREM TablesAlwaysSound == Spec => []TableSound
<1>1. Inv => TableSound
  BY InvSound
<1> QED
  BY InvAlways, <1>1, PTL

\* A map is locked as often as loops run over it, by whatever way they end.
THEOREM LocksAlwaysMatch == Spec => []LocksMatchLoops
<1>1. Inv => LocksMatchLoops
  BY InvLocks
<1> QED
  BY InvAlways, <1>1, PTL
-----------------------------------------------------------------------------
(* Where the live entries are. *)

\* at gives the places in the first i entries of what is kept of them, s.
KeptAt(es, i, s, at) ==
    /\ at \in [1..Len(s) -> 1..i]
    /\ \A p \in 1..Len(s) : es[at[p]].live /\ s[p] = es[at[p]]
    /\ \A p, q \in 1..Len(s) : p < q => at[p] < at[q]
    /\ \A q \in 1..i : es[q].live => \E p \in 1..Len(s) : at[p] = q

LEMMA KeptAtNext ==
    ASSUME NEW E, NEW es \in Seq(E), NEW j \in Nat, NEW s \in Seq(E), NEW at, KeptAt(es, j, s, at),
           es[j + 1] \in E, es[j + 1].live
    PROVE  \E on : KeptAt(es, j + 1, Append(s, es[j + 1]), on)
<1> DEFINE l == Len(s)
           t == Append(s, es[j + 1])
           on == [p \in 1..(l + 1) |-> IF p <= l THEN at[p] ELSE j + 1]
<1>1. /\ l \in Nat /\ Len(t) = l + 1 /\ t[l + 1] = es[j + 1]
      /\ \A p \in 1..l : t[p] = s[p]
  OBVIOUS
<1>2. on[l + 1] = j + 1 /\ \A p \in 1..l : on[p] = at[p]
  BY <1>1
<1>0. DOMAIN on = 1..(l + 1) /\ on = [p \in 1..(l + 1) |-> on[p]]
  OBVIOUS
<1>9. \A p \in 1..l : at[p] \in 1..j /\ at[p] \in 1..(j + 1) /\ at[p] < j + 1
  BY DEF KeptAt
<1>3. \A p \in 1..(l + 1) : p \in 1..l \/ p = l + 1
  BY <1>1
<1> HIDE DEF on, t, l
<1>4. \A p \in 1..(l + 1) : on[p] \in 1..(j + 1)
  <2>1. j + 1 \in 1..(j + 1)
    OBVIOUS
  <2> QED
    BY <1>2, <1>3, <1>9, <2>1
<1>5. on \in [1..(l + 1) -> 1..(j + 1)]
  BY <1>0, <1>4
<1>6. \A p \in 1..(l + 1) : es[on[p]].live /\ t[p] = es[on[p]]
  <2>1. \A p \in 1..l : es[at[p]].live /\ s[p] = es[at[p]]
    BY DEF KeptAt, l
  <2> QED
    BY <1>1, <1>2, <1>3, <2>1
<1>7. \A p, q \in 1..(l + 1) : p < q => on[p] < on[q]
  <2> SUFFICES ASSUME NEW p \in 1..(l + 1), NEW q \in 1..(l + 1), p < q  PROVE on[p] < on[q]
    OBVIOUS
  <2>1. p \in 1..l
    BY <1>1
  <2>2. CASE q \in 1..l
    <3>1. at[p] < at[q]
      BY <2>1, <2>2 DEF KeptAt, l
    <3> QED
      BY <1>2, <2>1, <2>2, <3>1
  <2>3. CASE q = l + 1
    BY <1>2, <1>9, <2>1, <2>3
  <2> QED
    BY <1>3, <2>2, <2>3
<1>8. \A q \in 1..(j + 1) : es[q].live => \E p \in 1..(l + 1) : on[p] = q
  <2> SUFFICES ASSUME NEW q \in 1..(j + 1), es[q].live  PROVE \E p \in 1..(l + 1) : on[p] = q
    OBVIOUS
  <2>1. CASE q \in 1..j
    <3>1. PICK p \in 1..l : at[p] = q
      BY <2>1 DEF KeptAt, l
    <3>2. p \in 1..(l + 1)
      BY <1>1
    <3>3. on[p] = q
      BY <1>2, <3>1
    <3> QED
      BY <3>2, <3>3
  <2>2. CASE q = j + 1
    <3>1. l + 1 \in 1..(l + 1)
      BY <1>1
    <3> QED
      BY <1>2, <2>2, <3>1
  <2> QED
    BY <2>1, <2>2
<1>10. KeptAt(es, j + 1, t, on)
  BY <1>1, <1>5, <1>6, <1>7, <1>8 DEF KeptAt
<1> QED
  BY <1>10 DEF t

LEMMA LivePlaces ==
    ASSUME NEW E, NEW es \in Seq(E)
    PROVE  \E at : KeptAt(es, Len(es), Live(es), at)
<1> DEFINE n == Len(es)
           S == {j \in 0..n : \E at : KeptAt(es, j, Kept(es)[j], at)}
<1>1. 0 \in S /\ n \in Nat
  <2>1. Kept(es)[0] = <<>>
    BY KeptIs
  <2>2. KeptAt(es, 0, <<>>, <<>>)
    BY DEF KeptAt
  <2> QED
    BY <2>1, <2>2
<1>2. ASSUME NEW j \in 0..(n - 1), j \in S  PROVE j + 1 \in S
  <2>1. /\ Kept(es)[j] \in Seq(E) /\ es[j + 1] \in E /\ j \in Nat /\ j + 1 \in 0..n
        /\ Kept(es)[j + 1] = IF es[j + 1].live THEN Append(Kept(es)[j], es[j + 1]) ELSE Kept(es)[j]
    BY KeptStep
  <2>2. PICK at : KeptAt(es, j, Kept(es)[j], at)
    BY <1>2
  <2>3. \E on : KeptAt(es, j + 1, Kept(es)[j + 1], on)
    <3>1. CASE es[j + 1].live
      BY <2>1, <2>2, <3>1, KeptAtNext
    <3>2. CASE ~es[j + 1].live
      <4>1. /\ 1..j \subseteq 1..(j + 1) /\ \A q \in 1..(j + 1) : q \in 1..j \/ q = j + 1
        BY <2>1
      <4>2. at \in [1..Len(Kept(es)[j]) -> 1..(j + 1)]
        BY <2>2, <4>1 DEF KeptAt
      <4>3. KeptAt(es, j + 1, Kept(es)[j], at)
        BY <2>2, <3>2, <4>1, <4>2 DEF KeptAt
      <4> QED
        BY <2>1, <3>2, <4>3
    <3> QED
      BY <3>1, <3>2
  <2> QED
    BY <2>1, <2>3
<1>3. n \in S
  <2> HIDE DEF S
  <2>1. 0..n \subseteq S
    BY <1>1, <1>2, UpTo
  <2> QED
    BY <1>1, <2>1
<1> QED
  BY <1>3 DEF Live
-----------------------------------------------------------------------------
(* What a step leaves under a loop. *)

\* The entries of M are where they were in N, and none that was dead lives.
Stays(M, N) ==
    /\ N.cap = M.cap /\ Used(N) = Used(M)
    /\ \A i \in 1..Used(M) : /\ N.entries[i].key = M.entries[i].key
                             /\ N.entries[i].live => M.entries[i].live

LEMMA DroppedStays ==
    ASSUME NEW M, MapSound(M), NEW k \in Keys, NEW i \in 1..Used(M), FoundAt(M, k, i)
    PROVE  Stays(M, Dropped(M, k))
<1>1. /\ Dropped(M, k).cap = M.cap /\ Dropped(M, k).entries = [M.entries EXCEPT ![i].live = FALSE]
  BY DroppedSound
<1>2. M.entries \in Seq(EntryType) /\ Used(M) = Len(M.entries) /\ \A j \in 1..Used(M) : M.entries[j] \in EntryType
  BY MapFacts
<1>3. /\ Len([M.entries EXCEPT ![i].live = FALSE]) = Len(M.entries)
      /\ \A j \in 1..Used(M) : /\ [M.entries EXCEPT ![i].live = FALSE][j].key = M.entries[j].key
                               /\ [M.entries EXCEPT ![i].live = FALSE][j].live => M.entries[j].live
  BY <1>2 DEF EntryType
<1> QED
  BY <1>1, <1>2, <1>3 DEF Stays, Used

LEMMA ValueStays ==
    ASSUME NEW M, MapSound(M), NEW i \in 1..Used(M), NEW v \in Values
    PROVE  Stays(M, [M EXCEPT !.entries[i].val = v])
<1> DEFINE N == [M EXCEPT !.entries[i].val = v]
<1>1. N.cap = M.cap /\ N.entries = [M.entries EXCEPT ![i].val = v]
  BY ValueSound
<1> HIDE DEF N
<1>2. M.entries \in Seq(EntryType) /\ Used(M) = Len(M.entries) /\ \A j \in 1..Used(M) : M.entries[j] \in EntryType
  BY MapFacts
<1>3. /\ Len([M.entries EXCEPT ![i].val = v]) = Len(M.entries)
      /\ \A j \in 1..Used(M) : /\ [M.entries EXCEPT ![i].val = v][j].key = M.entries[j].key
                               /\ [M.entries EXCEPT ![i].val = v][j].live = M.entries[j].live
  BY <1>2 DEF EntryType
<1>4. Stays(M, N)
  BY <1>1, <1>2, <1>3 DEF Stays, Used
<1> QED
  BY <1>4 DEF N

LEMMA SameStays ==
    ASSUME NEW M, NEW N, N.cap = M.cap, N.entries = M.entries
    PROVE  Stays(M, N)
BY DEF Stays, Used

\* One map changes, in a way that leaves its entries.
LEMMA OneStays ==
    ASSUME MapsSound, NEW m \in Maps, NEW N, Stays(map[m], N), map' = [map EXCEPT ![m] = N]
    PROVE  \A n \in Maps : Stays(map[n], map'[n])
<1>1. map'[m] = N /\ \A n \in Maps : n # m => map'[n] = map[n]
  BY DEF MapsSound
<1> QED
  BY <1>1, SameStays

\* A map that a loop holds is locked.
LEMMA HeldIsLocked ==
    ASSUME Inv, NEW x \in 1..Len(loops), ~loops[x].replaced
    PROVE  loops[x].map \in Maps /\ Locked(map[loops[x].map])
<1> DEFINE m == loops[x].map
<1>0. loops \in Seq(LoopType) /\ loops[x] \in LoopType
  <2>1. loops \in Seq(LoopType)
    BY DEF Inv, LoopsInside
  <2> QED
    BY <2>1
<1>1. m \in Maps /\ Len(loops) \in Nat
  <2>1. Len(loops) \in Nat
    BY <1>0
  <2>2. m \in Maps
    BY <1>0 DEF LoopType
  <2> QED
    BY <2>1, <2>2
<1>2. x \in Holding(loops, m, Len(loops))
  BY DEF Holding, LoopsOver
<1>3. /\ IsFiniteSet(Holding(loops, m, Len(loops)))
      /\ Cardinality(Holding(loops, m, Len(loops))) \in Nat
  BY <1>1, OverFinite
<1>4. Cardinality(Holding(loops, m, Len(loops))) # 0
  BY <1>2, <1>3, FS_EmptySet
<1>5. Cardinality(Holding(loops, m, Len(loops))) <= map[m].locks /\ map[m].locks \in Nat
  BY <1>1, MapFacts DEF Inv, MapsSound, LocksBetween
<1> QED
  BY <1>1, <1>3, <1>4, <1>5 DEF Locked

\* In every step, a loop that goes on holding its map finds the entries of it
\* where they were.
HeldStays ==
    \A x \in 1..Len(loops) :
        x <= Len(loops') /\ ~loops'[x].replaced =>
            /\ ~loops[x].replaced /\ loops'[x].map = loops[x].map
            /\ loops[x].map \in Maps /\ Stays(map[loops[x].map], map'[loops[x].map])

LEMMA SetHeld ==
    ASSUME Inv, NEW m \in Maps, NEW k \in Keys, NEW v \in Values, Set(m, k, v)
    PROVE  HeldStays
<1>1. UNCHANGED loops /\ MapSound(map[m]) /\ MapsSound /\ map \in [Maps -> MapType]
  BY DEF Inv, MapsSound, Set
<1> SUFFICES ASSUME NEW x \in 1..Len(loops), ~loops[x].replaced
             PROVE  loops[x].map \in Maps /\ Stays(map[loops[x].map], map'[loops[x].map])
  BY <1>1 DEF HeldStays
<1>2. loops[x].map \in Maps /\ Locked(map[loops[x].map])
  BY HeldIsLocked
<1>3. CASE Present(map[m], k) /\ map' = [map EXCEPT ![m].entries[Find(map[m], k) + 1].val = v]
  <2>1. PICK i \in 1..Used(map[m]) : FoundAt(map[m], k, i)
    BY <1>1, <1>3, FindIs
  <2>2. Find(map[m], k) + 1 = i
    BY <1>1, <2>1, MapFacts DEF FoundAt
  <2> DEFINE N == [map[m] EXCEPT !.entries[i].val = v]
  <2>3. map' = [map EXCEPT ![m] = N]
    BY <1>1, <1>3, <2>2
  <2>4. Stays(map[m], N)
    BY <1>1, ValueStays
  <2> HIDE DEF N
  <2> QED
    BY <1>1, <1>2, <2>3, <2>4, OneStays
<1>4. CASE ~Locked(map[m]) /\ map' = [map EXCEPT ![m] = Added(map[m], k, v)]
  <2>1. loops[x].map # m
    BY <1>2, <1>4
  <2>2. map'[loops[x].map] = map[loops[x].map]
    BY <1>1, <1>2, <1>4, <2>1
  <2> QED
    BY <1>2, <2>2, SameStays
<1>5. CASE UNCHANGED map
  BY <1>2, <1>5, SameStays
<1> QED
  BY <1>3, <1>4, <1>5 DEF Set

LEMMA RemoveHeld ==
    ASSUME Inv, NEW m \in Maps, NEW k \in Keys, Remove(m, k)
    PROVE  HeldStays
<1>1. UNCHANGED loops /\ MapSound(map[m]) /\ MapsSound
  BY DEF Inv, MapsSound, Remove
<1>2. PICK i \in 1..Used(map[m]) : FoundAt(map[m], k, i)
  BY <1>1, FindIs DEF Remove
<1>3. Stays(map[m], Dropped(map[m], k)) /\ map' = [map EXCEPT ![m] = Dropped(map[m], k)]
  BY <1>1, <1>2, DroppedStays DEF Remove
<1>4. \A n \in Maps : Stays(map[n], map'[n])
  BY <1>1, <1>3, OneStays
<1> QED
  BY <1>1, <1>4, HeldIsLocked DEF HeldStays

\* The loops over a map that was replaced do not hold it.
LEMMA ReplacedHeld ==
    ASSUME Inv, NEW m \in Maps, NEW N, map' = [map EXCEPT ![m] = N], Replaced(m)
    PROVE  HeldStays
<1>1. /\ map \in [Maps -> MapType] /\ Len(loops) \in Nat /\ DOMAIN loops = 1..Len(loops)
      /\ loops \in Seq(LoopType)
  BY DEF Inv, MapsSound, LoopsInside
<1>2. \A x \in 1..Len(loops) :
        loops'[x] = IF loops[x].map = m THEN [loops[x] EXCEPT !.replaced = TRUE] ELSE loops[x]
  BY <1>1 DEF Replaced
<1> SUFFICES ASSUME NEW x \in 1..Len(loops), ~loops'[x].replaced
             PROVE  /\ ~loops[x].replaced /\ loops'[x].map = loops[x].map
                    /\ loops[x].map \in Maps /\ Stays(map[loops[x].map], map'[loops[x].map])
  BY DEF HeldStays
<1>3. loops[x].map # m /\ loops'[x] = loops[x]
  <2>1. loops[x] \in LoopType
    BY <1>1
  <2>2. [loops[x] EXCEPT !.replaced = TRUE].replaced
    BY <2>1 DEF LoopType
  <2> QED
    BY <1>2, <2>2
<1>4. loops[x].map \in Maps
  BY <1>3, HeldIsLocked
<1>5. map'[loops[x].map] = map[loops[x].map]
  BY <1>1, <1>3, <1>4
<1> QED
  BY <1>3, <1>4, <1>5, SameStays

LEMMA SetItemHeld ==
    ASSUME Inv, NEW x \in DOMAIN loops, NEW v \in Values, SetItem(x, v)
    PROVE  HeldStays
<1> DEFINE m == loops[x].map
           i == loops[x].i
           N == [map[m] EXCEPT !.entries[i + 1].val = v]
<1>1. /\ m \in Maps /\ i \in Nat /\ map \in [Maps -> MapType] /\ MapsSound /\ UNCHANGED loops
  <2>1. loops[x] \in LoopType
    BY DEF Inv, LoopsInside
  <2> QED
    BY <2>1 DEF Inv, MapsSound, SetItem, LoopType
<1>2. MapSound(map[m])
  BY <1>1 DEF MapsSound
<1>3. \A n \in Maps : Stays(map[n], map'[n])
  <2>1. CASE i < Used(map[m]) /\ map' = [map EXCEPT ![m].entries[i + 1].val = v]
    <3>1. i + 1 \in 1..Used(map[m])
      BY <1>1, <1>2, <2>1, MapFacts
    <3>2. Stays(map[m], N)
      BY <1>2, <3>1, ValueStays
    <3>3. map' = [map EXCEPT ![m] = N]
      BY <1>1, <2>1
    <3> HIDE DEF N, m
    <3> QED
      BY <1>1, <3>2, <3>3, OneStays
  <2>2. CASE UNCHANGED map
    BY <2>2, SameStays
  <2> QED
    BY <2>1, <2>2 DEF SetItem
<1> QED
  BY <1>1, <1>3, HeldIsLocked DEF HeldStays
LEMMA BeginLoopHeld ==
    ASSUME Inv, NEW m \in Maps, BeginLoop(m)
    PROVE  HeldStays /\ \A x \in 1..Len(loops) : loops'[x] = loops[x]
<1> DEFINE N == [map[m] EXCEPT !.locks = @ + 1]
<1>1. MapSound(map[m]) /\ MapsSound /\ loops \in Seq(LoopType) /\ Len(loops) \in Nat
  BY DEF Inv, MapsSound, LoopsInside
<1>2. N.cap = map[m].cap /\ N.entries = map[m].entries
  BY <1>1 DEF MapSound, MapType
<1>3. map' = [map EXCEPT ![m] = N]
  BY DEF BeginLoop
<1> HIDE DEF N
<1>4. \A n \in Maps : Stays(map[n], map'[n])
  BY <1>1, <1>2, <1>3, SameStays, OneStays
<1>5. \A x \in 1..Len(loops) : loops'[x] = loops[x]
  BY <1>1 DEF BeginLoop
<1> QED
  BY <1>4, <1>5, HeldIsLocked DEF HeldStays

LEMMA EndLoopHeld ==
    ASSUME Inv, EndLoop
    PROVE  /\ HeldStays /\ Len(loops') = Len(loops) - 1
           /\ \A x \in 1..(Len(loops) - 1) : loops'[x] = loops[x]
<1> DEFINE m == Top.map
           N == [map[m] EXCEPT !.locks = Top.saved]
<1>1. MapsSound /\ loops \in Seq(LoopType) /\ Len(loops) \in Nat \ {0}
  BY DEF Inv, MapsSound, LoopsInside, EndLoop
<1>2. m \in Maps
  <2>1. Top \in LoopType
    BY <1>1 DEF Top
  <2> QED
    BY <2>1 DEF LoopType
<1>3. N.cap = map[m].cap /\ N.entries = map[m].entries
  BY <1>1, <1>2 DEF MapsSound, MapType
<1>4. map' = [map EXCEPT ![m] = N]
  BY DEF EndLoop
<1> HIDE DEF N, m
<1>5. \A n \in Maps : Stays(map[n], map'[n])
  BY <1>1, <1>2, <1>3, <1>4, SameStays, OneStays
<1>6. /\ Len(loops') = Len(loops) - 1
      /\ \A x \in 1..(Len(loops) - 1) : loops'[x] = loops[x]
  <2>1. loops' = SubSeq(loops, 1, Len(loops) - 1)
    BY DEF EndLoop
  <2> DEFINE n == Len(loops)
  <2>2. n \in Nat \ {0} /\ n = Len(loops)
    BY <1>1
  <2> HIDE DEF n
  <2>3. \A x \in 1..(n - 1) : SubSeq(loops, 1, n - 1)[x] = loops[x]
    BY <1>1, <2>2
  <2>4. Len(SubSeq(loops, 1, n - 1)) = n - 1
    BY <1>1, <2>2
  <2> QED
    BY <2>1, <2>3, <2>4 DEF n
<1>7. \A x \in 1..Len(loops) : x <= Len(loops') => x \in 1..(Len(loops) - 1)
  BY <1>1, <1>6
<1> QED
  BY <1>5, <1>6, <1>7, HeldIsLocked DEF HeldStays

LEMMA ReturnHeld ==
    ASSUME Inv, Return
    PROVE  HeldStays /\ Len(loops') = 0
<1>1. Len(loops') = 0
  BY DEF Return
<1> QED
  BY <1>1 DEF HeldStays

\* Where the innermost loop is after its next step.
Moved(L, K) ==
    /\ K.map = L.map /\ K.from = L.from /\ K.replaced = L.replaced
    /\ \/ /\ LiveAt(map[L.map], L.i) /\ ~L.inBody
          /\ K.inBody /\ K.i = L.i /\ K.seen = Append(L.seen, Entry(map[L.map], L.i).key)
       \/ /\ ~LiveAt(map[L.map], L.i) \/ L.inBody
          /\ ~K.inBody /\ K.i = L.i + 1 /\ K.seen = L.seen

\* A loop takes its next step: the other loops, and the maps, are the same.
LEMMA PlaceHeld ==
    ASSUME Inv, Pass \/ EndBody
    PROVE  /\ HeldStays /\ UNCHANGED map
           /\ loops \in Seq(LoopType) /\ Len(loops) \in Nat \ {0} /\ Top \in LoopType
           /\ Top = loops[Len(loops)] /\ Len(loops') = Len(loops)
           /\ \A x \in 1..(Len(loops) - 1) : loops'[x] = loops[x]
           /\ Moved(Top, loops'[Len(loops)])
<1> DEFINE n == Len(loops)
           k == Entry(map[Top.map], Top.i).key
<1>1. loops \in Seq(LoopType) /\ n \in Nat \ {0} /\ UNCHANGED map
  BY DEF Inv, LoopsInside, Pass, EndBody
<1>2. Top \in LoopType /\ Top = loops[n] /\ n = Len(loops)
  BY <1>1 DEF Top
<1> HIDE DEF n
<1>6. ASSUME NEW J, loops' = [loops EXCEPT ![n] = J], Moved(Top, J)
      PROVE  /\ Len(loops') = n /\ \A x \in 1..(n - 1) : loops'[x] = loops[x]
             /\ Moved(Top, loops'[n])
  BY <1>1, <1>2, <1>6
<1>3. /\ Len(loops') = n /\ \A x \in 1..(n - 1) : loops'[x] = loops[x]
      /\ Moved(Top, loops'[n])
  <2>1. CASE Pass /\ LiveAt(map[Top.map], Top.i)
    <3> DEFINE J == [Top EXCEPT !.inBody = TRUE, !.seen = Append(Top.seen, k)]
    <3>1. loops' = [loops EXCEPT ![n] = J]
      BY <1>1, <1>2, <2>1 DEF Pass, LoopType
    <3>2. /\ J.map = Top.map /\ J.from = Top.from /\ J.replaced = Top.replaced
          /\ J.inBody /\ J.i = Top.i /\ J.seen = Append(Top.seen, k)
      BY <1>2 DEF LoopType
    <3>3. ~Top.inBody
      BY <2>1 DEF Pass
    <3> HIDE DEF J
    <3>4. Moved(Top, J)
      BY <2>1, <3>2, <3>3 DEF Moved
    <3> QED
      BY <1>6, <3>1, <3>4
  <2>2. CASE Pass /\ ~LiveAt(map[Top.map], Top.i)
    <3> DEFINE J == [Top EXCEPT !.i = Top.i + 1]
    <3>1. loops' = [loops EXCEPT ![n] = J]
      BY <1>1, <1>2, <2>2 DEF Pass, LoopType
    <3>2. /\ J.map = Top.map /\ J.from = Top.from /\ J.replaced = Top.replaced
          /\ J.inBody = Top.inBody /\ J.i = Top.i + 1 /\ J.seen = Top.seen
      BY <1>2 DEF LoopType
    <3>3. ~Top.inBody
      BY <2>2 DEF Pass
    <3> HIDE DEF J
    <3>4. Moved(Top, J)
      BY <2>2, <3>2, <3>3 DEF Moved
    <3> QED
      BY <1>6, <3>1, <3>4
  <2>3. CASE EndBody
    <3> DEFINE J == [Top EXCEPT !.inBody = FALSE, !.i = Top.i + 1]
    <3>1. loops' = [loops EXCEPT ![n] = J]
      BY <1>1, <1>2, <2>3 DEF EndBody, LoopType
    <3>2. /\ J.map = Top.map /\ J.from = Top.from /\ J.replaced = Top.replaced
          /\ ~J.inBody /\ J.i = Top.i + 1 /\ J.seen = Top.seen
      BY <1>2 DEF LoopType
    <3>3. Top.inBody
      BY <2>3 DEF EndBody, InCode
    <3> HIDE DEF J
    <3>4. Moved(Top, J)
      BY <3>2, <3>3 DEF Moved
    <3> QED
      BY <1>6, <3>1, <3>4
  <2> QED
    BY <2>1, <2>2, <2>3
<1>4. \A x \in 1..n : loops'[x].map = loops[x].map /\ loops'[x].replaced = loops[x].replaced
  <2>1. \A x \in 1..n : x \in 1..(n - 1) \/ x = n
    BY <1>1
  <2> QED
    BY <1>2, <1>3, <2>1 DEF Moved
<1>5. HeldStays
  BY <1>1, <1>2, <1>4, HeldIsLocked, SameStays DEF HeldStays
<1> QED
  BY <1>1, <1>2, <1>3, <1>5

LEMMA StepHeld == Inv /\ [Next]_vars => HeldStays
<1> SUFFICES ASSUME Inv, [Next]_vars  PROVE HeldStays
  OBVIOUS
<1>1. ASSUME NEW m \in Maps, NEW k \in Keys, NEW v \in Values, Set(m, k, v)  PROVE HeldStays
  BY <1>1, SetHeld
<1>2. ASSUME NEW m \in Maps, NEW k \in Keys, Remove(m, k)  PROVE HeldStays
  BY <1>2, RemoveHeld
<1>3. ASSUME NEW m \in Maps, NEW n \in Maps, Assign(m, n)  PROVE HeldStays
  BY <1>3, ReplacedHeld DEF Assign
<1>4. ASSUME NEW m \in Maps, Clear(m)  PROVE HeldStays
  BY <1>4, ReplacedHeld DEF Clear
<1>5. ASSUME NEW m \in Maps, BeginLoop(m)  PROVE HeldStays
  BY <1>5, BeginLoopHeld
<1>6. ASSUME NEW x \in DOMAIN loops, NEW v \in Values, SetItem(x, v)  PROVE HeldStays
  BY <1>6, SetItemHeld
<1>7. CASE Pass \/ EndBody
  BY <1>7, PlaceHeld
<1>8. CASE EndLoop
  BY <1>8, EndLoopHeld
<1>9. CASE Return
  BY <1>9, ReturnHeld
<1>10. CASE UNCHANGED vars
  BY <1>10, HeldIsLocked, SameStays DEF HeldStays, vars
<1>11. CASE Over
  BY <1>10, <1>11 DEF Over
<1> QED
  BY <1>1, <1>2, <1>3, <1>4, <1>5, <1>6, <1>7, <1>8, <1>9, <1>10, <1>11 DEF Next

\* A loop that holds a pointer to an entry of its map (`v`) finds it there:
\* no key is added to a locked map, so nothing is compacted or reallocated.
THEOREM NothingMoves == Spec => NothingMovesUnderALoop
<1> DEFINE A == \A x \in DOMAIN loops \cap DOMAIN loops' :
                  ~loops'[x].replaced =>
                      LET m == loops[x].map IN
                      /\ map'[m].cap = map[m].cap
                      /\ Used(map'[m]) = Used(map[m])
                      /\ \A n \in 0..(Used(map[m]) - 1) : Entry(map'[m], n).key = Entry(map[m], n).key
<1>1. ASSUME Inv, Inv', [Next]_vars  PROVE A
  <2> SUFFICES ASSUME NEW x \in DOMAIN loops \cap DOMAIN loops', ~loops'[x].replaced
               PROVE  LET m == loops[x].map IN
                      /\ map'[m].cap = map[m].cap
                      /\ Used(map'[m]) = Used(map[m])
                      /\ \A n \in 0..(Used(map[m]) - 1) : Entry(map'[m], n).key = Entry(map[m], n).key
    OBVIOUS
  <2>1. x \in 1..Len(loops) /\ x <= Len(loops')
    BY <1>1 DEF Inv, LoopsInside
  <2>2. Stays(map[loops[x].map], map'[loops[x].map]) /\ loops[x].map \in Maps
    BY <1>1, <2>1, StepHeld DEF HeldStays
  <2>3. Used(map[loops[x].map]) \in Nat
    BY <1>1, <2>2, MapFacts DEF Inv, MapsSound
  <2>4. \A n \in 0..(Used(map[loops[x].map]) - 1) : n + 1 \in 1..Used(map[loops[x].map])
    BY <2>3
  <2> QED
    BY <2>2, <2>4 DEF Stays, Entry
<1>2. Inv /\ Inv' /\ [Next]_vars => [A]_vars
  BY <1>1
<1> QED
  BY <1>2, InvAlways, PTL DEF Spec, NothingMovesUnderALoop
-----------------------------------------------------------------------------
(* The order in which a loop comes to the keys. *)

\* at gives the numbers (from 1) of the live entries of M from the c-th on,
\* whose keys are ks.
KeysAt(M, c, ks, at) ==
    /\ at \in [1..Len(ks) -> (c + 1)..Used(M)]
    /\ \A p \in 1..Len(ks) : M.entries[at[p]].live /\ ks[p] = M.entries[at[p]].key
    /\ \A p, q \in 1..Len(ks) : p < q => at[p] < at[q]
    /\ \A q \in (c + 1)..Used(M) : M.entries[q].live => \E p \in 1..Len(ks) : at[p] = q

LEMMA KeysPlaces ==
    ASSUME NEW M, MapSound(M), NEW c \in Nat
    PROVE  KeysFrom(M, c) \in Seq(Keys) /\ \E at : KeysAt(M, c, KeysFrom(M, c), at)
<1> DEFINE es == M.entries
           part == SubSeq(es, c + 1, Used(M))
           ks == KeysFrom(M, c)
           l == Len(Live(part))
<1>1. es \in Seq(EntryType) /\ Used(M) = Len(es) /\ Used(M) \in Nat
  BY MapFacts
<1>2. /\ part \in Seq(EntryType) /\ \A p \in 1..Len(part) : c + p \in (c + 1)..Used(M) /\ part[p] = es[c + p]
      /\ \A q \in (c + 1)..Used(M) : q - c \in 1..Len(part) /\ part[q - c] = es[q]
  <2> DEFINE u == Used(M)
  <2>1. u \in Nat /\ u = Len(es)
    BY <1>1
  <2> HIDE DEF u
  <2>2. /\ SubSeq(es, c + 1, u) \in Seq(EntryType)
        /\ Len(SubSeq(es, c + 1, u)) = IF c + 1 <= u THEN u - c ELSE 0
        /\ \A p \in 1..Len(SubSeq(es, c + 1, u)) : SubSeq(es, c + 1, u)[p] = es[c + p]
    BY <1>1, <2>1
  <2>3. \A p \in 1..Len(SubSeq(es, c + 1, u)) : c + p \in (c + 1)..u
    BY <2>1, <2>2
  <2>4. \A q \in (c + 1)..u : q - c \in 1..Len(SubSeq(es, c + 1, u)) /\ c + (q - c) = q
    BY <2>1, <2>2
  <2>5. \A q \in (c + 1)..u : SubSeq(es, c + 1, u)[q - c] = es[q]
    BY <2>2, <2>4
  <2> QED
    BY <2>2, <2>3, <2>4, <2>5 DEF u
<1> HIDE DEF part
<1>3. PICK on : KeptAt(part, Len(part), Live(part), on)
  BY <1>2, LivePlaces
<1>4. Live(part) \in Seq(EntryType) /\ l \in Nat /\ DOMAIN Live(part) = 1..l
  BY <1>2, LiveIs
<1>5. ks = [x \in 1..l |-> Live(part)[x].key]
  BY <1>4 DEF KeysFrom, part
<1>6. ks \in Seq(Keys)
  BY KeysFromTyped
<1>7. Len(ks) = l /\ \A p \in 1..l : ks[p] = Live(part)[p].key
  BY <1>4, <1>5, <1>6
<1> DEFINE at == [p \in 1..l |-> c + on[p]]
<1> HIDE DEF ks, l, es
<1>8. /\ \A p \in 1..l : on[p] \in 1..Len(part) /\ part[on[p]].live /\ Live(part)[p] = part[on[p]]
      /\ \A p, q \in 1..l : p < q => on[p] < on[q]
      /\ \A q \in 1..Len(part) : part[q].live => \E p \in 1..l : on[p] = q
      /\ Len(part) \in Nat
  BY <1>2, <1>3 DEF KeptAt, l
<1>9. \A p \in 1..l : at[p] = c + on[p] /\ at[p] \in (c + 1)..Used(M) /\ es[at[p]] = part[on[p]]
  BY <1>2, <1>8
<1>10. at \in [1..l -> (c + 1)..Used(M)]
  BY <1>9
<1> HIDE DEF at
<1>11. \A p \in 1..l : es[at[p]].live /\ ks[p] = es[at[p]].key
  BY <1>7, <1>8, <1>9
<1>12. \A p, q \in 1..l : p < q => at[p] < at[q]
  BY <1>8, <1>9
<1>13. ASSUME NEW q \in (c + 1)..Used(M), es[q].live  PROVE \E p \in 1..l : at[p] = q
  <2>1. q - c \in 1..Len(part) /\ part[q - c].live
    BY <1>2, <1>13
  <2>2. PICK p \in 1..l : on[p] = q - c
    BY <1>8, <2>1
  <2>3. at[p] = q
    BY <1>9, <2>2
  <2> QED
    BY <2>3
<1>14. KeysAt(M, c, ks, at)
  BY <1>7, <1>10, <1>11, <1>12, <1>13 DEF KeysAt, es
<1> QED
  BY <1>6, <1>14 DEF ks

\* The entries that a loop has come to, the one it is at included.
Reach(L) == IF L.inBody THEN L.i + 1 ELSE L.i

\* The keys that were there when L began have places pos in the entries of its
\* map, and all live entries are among them; those seen (sub) are in order,
\* and up to where the loop is only dead ones are missed.
Follows(L, M, pos, sub) ==
    /\ pos \in [1..Len(L.from) -> 1..Used(M)]
    /\ sub \in [1..Len(L.seen) -> 1..Len(L.from)]
    /\ \A p, q \in 1..Len(L.from) : p < q => pos[p] < pos[q]
    /\ \A p, q \in 1..Len(L.from) : L.from[p] = L.from[q] => p = q
    /\ \A p \in 1..Len(L.from) : M.entries[pos[p]].key = L.from[p]
    /\ \A i \in 1..Used(M) : M.entries[i].live => \E p \in 1..Len(L.from) : pos[p] = i
    /\ \A a \in 1..Len(L.seen) : L.seen[a] = L.from[sub[a]] /\ pos[sub[a]] <= Reach(L)
    /\ \A a, b \in 1..Len(L.seen) : a < b => sub[a] < sub[b]
    /\ \A p \in 1..Len(L.from) :
         pos[p] <= Reach(L) /\ M.entries[pos[p]].live => \E a \in 1..Len(L.seen) : sub[a] = p

InOrder(L, M) == \E pos, sub : Follows(L, M, pos, sub)

LoopsInOrder == \A x \in 1..Len(loops) : ~loops[x].replaced => InOrder(loops[x], map[loops[x].map])

LEMMA StaysInOrder ==
    ASSUME NEW L, NEW M, NEW N, Stays(M, N), InOrder(L, M)
    PROVE  InOrder(L, N)
<1>1. PICK pos, sub : Follows(L, M, pos, sub)
  BY DEF InOrder
<1>2. /\ Used(N) = Used(M)
      /\ \A i \in 1..Used(M) : N.entries[i].key = M.entries[i].key
      /\ \A i \in 1..Used(M) : N.entries[i].live => M.entries[i].live
  BY DEF Stays
<1>3. \A p \in 1..Len(L.from) : pos[p] \in 1..Used(M)
  BY <1>1 DEF Follows
<1>4. \A p \in 1..Len(L.from) : N.entries[pos[p]].key = L.from[p]
  <2>1. \A p \in 1..Len(L.from) : M.entries[pos[p]].key = L.from[p]
    BY <1>1 DEF Follows
  <2> SUFFICES ASSUME NEW p \in 1..Len(L.from)  PROVE N.entries[pos[p]].key = L.from[p]
    OBVIOUS
  <2>2. pos[p] \in 1..Used(M) /\ M.entries[pos[p]].key = L.from[p]
    BY <1>3, <2>1
  <2>3. N.entries[pos[p]].key = M.entries[pos[p]].key
    BY <1>2, <2>2
  <2> QED
    BY <2>2, <2>3
<1>5. \A i \in 1..Used(N) : N.entries[i].live => \E p \in 1..Len(L.from) : pos[p] = i
  <2>1. \A i \in 1..Used(M) : M.entries[i].live => \E p \in 1..Len(L.from) : pos[p] = i
    BY <1>1 DEF Follows
  <2> SUFFICES ASSUME NEW i \in 1..Used(M), N.entries[i].live  PROVE \E p \in 1..Len(L.from) : pos[p] = i
    BY <1>2
  <2>2. M.entries[i].live
    BY <1>2
  <2> QED
    BY <2>1, <2>2
<1>6. \A p \in 1..Len(L.from) :
         pos[p] <= Reach(L) /\ N.entries[pos[p]].live => \E a \in 1..Len(L.seen) : sub[a] = p
  <2>1. \A p \in 1..Len(L.from) :
          pos[p] <= Reach(L) /\ M.entries[pos[p]].live => \E a \in 1..Len(L.seen) : sub[a] = p
    BY <1>1 DEF Follows
  <2> SUFFICES ASSUME NEW p \in 1..Len(L.from), pos[p] <= Reach(L), N.entries[pos[p]].live
               PROVE  \E a \in 1..Len(L.seen) : sub[a] = p
    OBVIOUS
  <2>2. pos[p] \in 1..Used(M)
    BY <1>3
  <2>3. M.entries[pos[p]].live
    BY <1>2, <2>2
  <2> QED
    BY <2>1, <2>3
<1>7. Follows(L, N, pos, sub)
  BY <1>1, <1>2, <1>4, <1>5, <1>6 DEF Follows
<1> QED
  BY <1>7 DEF InOrder

LEMMA BeginInOrder ==
    ASSUME NEW M, MapSound(M), NEW L, L.from = KeysFrom(M, 0), L.seen = <<>>, L.i = 0, ~L.inBody
    PROVE  InOrder(L, M)
<1> DEFINE l == Len(L.from)
<1>1. PICK at : KeysAt(M, 0, L.from, at)
  BY KeysPlaces
<1>2. /\ at \in [1..l -> 1..Used(M)]
      /\ \A p \in 1..l : M.entries[at[p]].live /\ L.from[p] = M.entries[at[p]].key
      /\ \A p, q \in 1..l : p < q => at[p] < at[q]
      /\ \A q \in 1..Used(M) : M.entries[q].live => \E p \in 1..l : at[p] = q
  BY <1>1 DEF KeysAt
<1>3. l \in Nat
  BY KeysPlaces
<1>4. \A p, q \in 1..l : L.from[p] = L.from[q] => p = q
  <2> SUFFICES ASSUME NEW p \in 1..l, NEW q \in 1..l, L.from[p] = L.from[q]  PROVE p = q
    OBVIOUS
  <2>1. at[p] = at[q]
    <3>1. at[p] \in 1..Len(M.entries) /\ at[q] \in 1..Len(M.entries) /\ Distinct(M.entries)
      BY <1>2 DEF MapSound, Used
    <3>2. M.entries[at[p]].live /\ M.entries[at[q]].live /\ M.entries[at[p]].key = M.entries[at[q]].key
      BY <1>2
    <3> QED
      BY <3>1, <3>2 DEF Distinct
  <2>2. ~(p < q) /\ ~(q < p)
    <3>1. at[p] \in Nat /\ at[q] \in Nat
      BY <1>2
    <3> QED
      BY <1>2, <2>1, <3>1
  <2> QED
    BY <1>3, <2>2
<1>5. Reach(L) = 0 /\ Len(L.seen) = 0 /\ <<>> \in [1..Len(L.seen) -> 1..l]
  BY DEF Reach
<1>6. \A p \in 1..l : ~(at[p] <= 0)
  BY <1>2
<1>7. Follows(L, M, at, <<>>)
  BY <1>2, <1>4, <1>5, <1>6 DEF Follows
<1> QED
  BY <1>7 DEF InOrder

\* What Follows says, for the proofs below to cite.
LEMMA FollowsIs ==
    ASSUME NEW L \in LoopType, NEW M, NEW pos, NEW sub, Follows(L, M, pos, sub)
    PROVE  /\ Len(L.from) \in Nat /\ Len(L.seen) \in Nat /\ L.i \in Nat /\ L.seen \in Seq(Keys)
           /\ \A p \in 1..Len(L.from) : pos[p] \in 1..Used(M) /\ pos[p] \in Nat
           /\ \A a \in 1..Len(L.seen) : sub[a] \in 1..Len(L.from)
           /\ \A p, q \in 1..Len(L.from) : pos[p] < pos[q] <=> p < q
           /\ \A p, q \in 1..Len(L.from) : pos[p] = pos[q] => p = q
<1>1. Len(L.from) \in Nat /\ Len(L.seen) \in Nat /\ L.i \in Nat /\ L.seen \in Seq(Keys)
  BY DEF LoopType
<1>2. \A p \in 1..Len(L.from) : pos[p] \in 1..Used(M) /\ pos[p] \in Nat
  BY DEF Follows
<1>3. \A a \in 1..Len(L.seen) : sub[a] \in 1..Len(L.from)
  BY DEF Follows
<1>4. \A p, q \in 1..Len(L.from) : p < q => pos[p] < pos[q]
  BY DEF Follows
<1>5. \A p, q \in 1..Len(L.from) : (pos[p] < pos[q] <=> p < q) /\ (pos[p] = pos[q] => p = q)
  <2> SUFFICES ASSUME NEW p \in 1..Len(L.from), NEW q \in 1..Len(L.from)
               PROVE  (pos[p] < pos[q] <=> p < q) /\ (pos[p] = pos[q] => p = q)
    OBVIOUS
  <2>1. pos[p] \in Nat /\ pos[q] \in Nat /\ (p < q => pos[p] < pos[q]) /\ (q < p => pos[q] < pos[p])
    BY <1>2, <1>4
  <2>2. p < q \/ p = q \/ q < p
    BY <1>1
  <2> QED
    BY <2>1, <2>2
<1> QED
  BY <1>1, <1>2, <1>3, <1>5

\* The loop comes to a live entry.
LEMMA SeenInOrder ==
    ASSUME NEW L \in LoopType, NEW M, MapSound(M), InOrder(L, M), ~L.inBody, LiveAt(M, L.i),
           NEW K, K.from = L.from, K.inBody, K.i = L.i, K.seen = Append(L.seen, Entry(M, L.i).key)
    PROVE  InOrder(K, M)
<1> DEFINE l == Len(L.seen)
           n == Len(L.from)
           i == L.i
<1>1. PICK pos, sub : Follows(L, M, pos, sub)
  BY DEF InOrder
<1>2. /\ n \in Nat /\ l \in Nat /\ i \in Nat /\ L.seen \in Seq(Keys)
      /\ \A p \in 1..n : pos[p] \in 1..Used(M) /\ pos[p] \in Nat
      /\ \A a \in 1..l : sub[a] \in 1..n
      /\ \A p, q \in 1..n : pos[p] < pos[q] <=> p < q
      /\ \A p, q \in 1..n : pos[p] = pos[q] => p = q
  BY <1>1, FollowsIs
<1>3. i + 1 \in 1..Used(M) /\ M.entries[i + 1].live /\ Entry(M, i) = M.entries[i + 1]
  BY <1>2, MapFacts DEF LiveAt, Entry
<1>4. Reach(L) = i /\ Reach(K) = i + 1
  BY DEF Reach
<1>5. /\ \A a \in 1..l : L.seen[a] = L.from[sub[a]] /\ pos[sub[a]] <= i
      /\ \A a, b \in 1..l : a < b => sub[a] < sub[b]
      /\ \A p \in 1..n : pos[p] <= i /\ M.entries[pos[p]].live => \E a \in 1..l : sub[a] = p
      /\ \A p \in 1..n : M.entries[pos[p]].key = L.from[p]
  BY <1>1, <1>4 DEF Follows
<1>6. PICK p \in 1..n : pos[p] = i + 1
  BY <1>1, <1>3 DEF Follows
<1>7. M.entries[i + 1].key = L.from[p] /\ M.entries[i + 1].key \in Keys
  BY <1>3, <1>5, <1>6, EntriesAre
<1> DEFINE new == [a \in 1..(l + 1) |-> IF a <= l THEN sub[a] ELSE p]
<1>8. /\ Len(K.seen) = l + 1 /\ K.seen[l + 1] = L.from[p] /\ \A a \in 1..l : K.seen[a] = L.seen[a]
  BY <1>2, <1>3, <1>7
<1>9. /\ new[l + 1] = p /\ \A a \in 1..l : new[a] = sub[a]
      /\ \A a \in 1..(l + 1) : a \in 1..l \/ a = l + 1
      /\ l + 1 \in 1..(l + 1) /\ 1..l \subseteq 1..(l + 1)
  BY <1>2
<1>10. new \in [1..(l + 1) -> 1..n]
  BY <1>2
<1> HIDE DEF new, l, n, i
<1>11. \A a \in 1..(l + 1) : K.seen[a] = L.from[new[a]] /\ pos[new[a]] <= i + 1
  <2>1. \A a \in 1..l : K.seen[a] = L.from[new[a]] /\ pos[new[a]] <= i + 1
    <3>1. \A a \in 1..l : pos[sub[a]] \in Nat /\ pos[sub[a]] <= i
      BY <1>2, <1>5
    <3>2. \A a \in 1..l : pos[sub[a]] <= i + 1
      BY <1>2, <3>1
    <3> QED
      BY <1>5, <1>8, <1>9, <3>2
  <2>2. K.seen[l + 1] = L.from[new[l + 1]] /\ pos[new[l + 1]] <= i + 1
    BY <1>2, <1>6, <1>8, <1>9
  <2> QED
    BY <1>9, <2>1, <2>2
<1>12. \A a, b \in 1..(l + 1) : a < b => new[a] < new[b]
  <2> SUFFICES ASSUME NEW a \in 1..(l + 1), NEW b \in 1..(l + 1), a < b  PROVE new[a] < new[b]
    OBVIOUS
  <2>1. a \in 1..l
    BY <1>2
  <2>2. CASE b \in 1..l
    BY <1>5, <1>9, <2>1, <2>2
  <2>3. CASE b = l + 1
    <3>1. sub[a] \in 1..n /\ pos[sub[a]] <= i /\ pos[sub[a]] \in Nat
      BY <1>2, <1>5, <2>1
    <3>2. pos[sub[a]] < pos[p]
      BY <1>2, <1>6, <3>1
    <3>3. sub[a] < p
      BY <1>2, <3>1, <3>2
    <3> QED
      BY <1>9, <2>1, <2>3, <3>3
  <2> QED
    BY <1>9, <2>2, <2>3
<1>13. ASSUME NEW q \in 1..n, pos[q] <= i + 1, M.entries[pos[q]].live
       PROVE  \E a \in 1..(l + 1) : new[a] = q
  <2>1. CASE pos[q] <= i
    <3>1. PICK a \in 1..l : sub[a] = q
      BY <1>5, <1>13, <2>1
    <3> QED
      BY <1>9, <3>1
  <2>2. CASE pos[q] = i + 1
    <3>1. q = p
      BY <1>2, <1>6, <2>2
    <3> QED
      BY <1>9, <3>1
  <2> QED
    BY <1>2, <1>13, <2>1, <2>2
<1>14. Follows(K, M, pos, new)
  <2>1. /\ pos \in [1..n -> 1..Used(M)]
        /\ \A q, r \in 1..n : q < r => pos[q] < pos[r]
        /\ \A q, r \in 1..n : L.from[q] = L.from[r] => q = r
        /\ \A q \in 1..n : M.entries[pos[q]].key = L.from[q]
        /\ \A j \in 1..Used(M) : M.entries[j].live => \E q \in 1..n : pos[q] = j
    BY <1>1 DEF Follows, n
  <2>2. Len(K.from) = n /\ Len(K.seen) = l + 1 /\ Reach(K) = i + 1
    BY <1>4, <1>8 DEF n, i
  <2> QED
    BY <1>10, <1>11, <1>12, <1>13, <2>1, <2>2 DEF Follows
<1> QED
  BY <1>14 DEF InOrder

\* The loop leaves an entry, or passes a dead one.
LEMMA PassedInOrder ==
    ASSUME NEW L \in LoopType, NEW M, MapSound(M), InOrder(L, M), ~LiveAt(M, L.i) \/ L.inBody,
           NEW K, K.from = L.from, ~K.inBody, K.i = L.i + 1, K.seen = L.seen
    PROVE  InOrder(K, M)
<1>1. PICK pos, sub : Follows(L, M, pos, sub)
  BY DEF InOrder
<1>2. /\ L.i \in Nat /\ \A p \in 1..Len(L.from) : pos[p] \in 1..Used(M) /\ pos[p] \in Nat
      /\ \A a \in 1..Len(L.seen) : sub[a] \in 1..Len(L.from)
  BY <1>1, FollowsIs
<1>3. Reach(K) = L.i + 1 /\ Reach(L) \in {L.i, L.i + 1} /\ (Reach(L) = L.i => ~L.inBody)
  BY <1>2 DEF Reach
<1>4. \A a \in 1..Len(L.seen) : L.seen[a] = L.from[sub[a]] /\ pos[sub[a]] <= Reach(K)
  <2>1. \A a \in 1..Len(L.seen) :
           L.seen[a] = L.from[sub[a]] /\ pos[sub[a]] <= Reach(L) /\ pos[sub[a]] \in Nat
    BY <1>1, <1>2 DEF Follows
  <2> QED
    BY <1>2, <1>3, <2>1
<1>5. ASSUME NEW p \in 1..Len(L.from), pos[p] <= Reach(K), M.entries[pos[p]].live
      PROVE  \E a \in 1..Len(L.seen) : sub[a] = p
  <2>1. pos[p] <= Reach(L)
    <3>1. CASE Reach(L) = L.i
      <4>1. ~LiveAt(M, L.i)
        BY <1>3, <3>1
      <4>2. pos[p] # L.i + 1
        <5>1. CASE L.i < Used(M)
          BY <1>5, <4>1, <5>1 DEF LiveAt, Entry
        <5>2. CASE ~(L.i < Used(M))
          BY <1>2, <5>2, MapFacts
        <5> QED
          BY <5>1, <5>2
      <4> QED
        BY <1>2, <1>3, <1>5, <3>1, <4>2
    <3>2. CASE Reach(L) = L.i + 1
      BY <1>3, <1>5, <3>2
    <3> QED
      BY <1>3, <3>1, <3>2
  <2> QED
    BY <1>1, <1>5, <2>1 DEF Follows
<1>6. Follows(K, M, pos, sub)
  BY <1>1, <1>4, <1>5 DEF Follows
<1> QED
  BY <1>6 DEF InOrder

\* LoopsInOrder needs Inv, and is inductive with it.
LEMMA OrderStep == Inv /\ Inv' /\ LoopsInOrder /\ [Next]_vars => LoopsInOrder'
<1> SUFFICES ASSUME Inv, Inv', LoopsInOrder, [Next]_vars, NEW x \in 1..Len(loops'), ~loops'[x].replaced
             PROVE  InOrder(loops'[x], map'[loops'[x].map])
  BY DEF LoopsInOrder
<1>0. /\ Len(loops) \in Nat /\ loops \in Seq(LoopType) /\ Len(loops') \in Nat /\ loops' \in Seq(LoopType)
      /\ HeldStays
  BY StepHeld DEF Inv, LoopsInside
<1>1. ASSUME x \in 1..Len(loops), loops'[x].from = loops[x].from, loops'[x].seen = loops[x].seen,
             loops'[x].i = loops[x].i, loops'[x].inBody = loops[x].inBody
      PROVE  InOrder(loops'[x], map'[loops'[x].map])
  <2> DEFINE L == loops[x]
             K == loops'[x]
  <2>1. ~L.replaced /\ K.map = L.map /\ L.map \in Maps /\ Stays(map[L.map], map'[L.map])
    BY <1>0, <1>1 DEF HeldStays
  <2>2. InOrder(L, map[L.map])
    BY <1>1, <2>1 DEF LoopsInOrder
  <2>3. InOrder(L, map'[L.map])
    BY <2>1, <2>2, StaysInOrder
  <2>4. K.from = L.from /\ K.seen = L.seen /\ K.i = L.i /\ K.inBody = L.inBody
    BY <1>1
  <2> HIDE DEF L, K
  <2>5. InOrder(K, map'[L.map])
    <3>1. PICK pos, sub : Follows(L, map'[L.map], pos, sub)
      BY <2>3 DEF InOrder
    <3>2. Reach(K) = Reach(L)
      BY <2>4 DEF Reach
    <3>3. Follows(K, map'[L.map], pos, sub)
      BY <2>4, <3>1, <3>2 DEF Follows
    <3> QED
      BY <3>3 DEF InOrder
  <2> QED
    BY <2>1, <2>5 DEF K
<1>2. ASSUME UNCHANGED loops  PROVE InOrder(loops'[x], map'[loops'[x].map])
  BY <1>1, <1>2
<1>3. ASSUME NEW m \in Maps, Replaced(m)  PROVE InOrder(loops'[x], map'[loops'[x].map])
  <2>1. /\ DOMAIN loops = 1..Len(loops) /\ x \in 1..Len(loops)
        /\ loops'[x] = IF loops[x].map = m THEN [loops[x] EXCEPT !.replaced = TRUE] ELSE loops[x]
    <3>1. loops' = [y \in 1..Len(loops) |->
                      IF loops[y].map = m THEN [loops[y] EXCEPT !.replaced = TRUE] ELSE loops[y]]
      BY <1>0, <1>3 DEF Replaced
    <3>2. DOMAIN loops' = 1..Len(loops')
      BY <1>0
    <3>3. x \in 1..Len(loops)
      BY <3>1, <3>2
    <3> QED
      BY <1>0, <3>1, <3>3
  <2>2. loops[x] \in LoopType
    BY <1>0, <2>1
  <2>3. /\ loops'[x].from = loops[x].from /\ loops'[x].seen = loops[x].seen
        /\ loops'[x].i = loops[x].i /\ loops'[x].inBody = loops[x].inBody
    BY <2>1, <2>2 DEF LoopType
  <2> QED
    BY <1>1, <2>1, <2>3
<1>4. ASSUME NEW m \in Maps, BeginLoop(m)  PROVE InOrder(loops'[x], map'[loops'[x].map])
  <2> DEFINE n == Len(loops)
             N == [map[m] EXCEPT !.locks = @ + 1]
  <2>1. Len(loops') = n + 1 /\ \A y \in 1..n : loops'[y] = loops[y]
    BY <1>0, <1>4, BeginLoopHeld DEF BeginLoop
  <2>2. CASE x \in 1..n
    BY <1>1, <2>1, <2>2
  <2>3. CASE x = n + 1
    <3>1. /\ loops'[x].map = m /\ loops'[x].from = KeysFrom(map[m], 0) /\ loops'[x].seen = <<>>
          /\ loops'[x].i = 0 /\ ~loops'[x].inBody
      BY <1>0, <1>4, <2>3 DEF BeginLoop
    <3>2. MapSound(map[m]) /\ map \in [Maps -> MapType] /\ map[m] \in MapType
      BY DEF Inv, MapsSound
    <3>3. InOrder(loops'[x], map[m])
      BY <3>1, <3>2, BeginInOrder
    <3>4. N.cap = map[m].cap /\ N.entries = map[m].entries
      BY <3>2 DEF MapType
    <3>5. map'[m] = N
      BY <1>4, <3>2 DEF BeginLoop
    <3> HIDE DEF N
    <3> QED
      BY <3>1, <3>3, <3>4, <3>5, SameStays, StaysInOrder
  <2> QED
    BY <1>0, <2>1, <2>2, <2>3
<1>5. ASSUME Pass \/ EndBody  PROVE InOrder(loops'[x], map'[loops'[x].map])
  <2> DEFINE n == Len(loops)
             K == loops'[n]
  <2>1. /\ n \in Nat \ {0} /\ Top \in LoopType /\ Top = loops[n] /\ Len(loops') = n /\ UNCHANGED map
        /\ \A y \in 1..(n - 1) : loops'[y] = loops[y]
        /\ Moved(Top, K)
    BY <1>5, PlaceHeld
  <2>2. CASE x \in 1..(n - 1)
    <3>1. x \in 1..n /\ loops'[x] = loops[x]
      BY <2>1, <2>2
    <3> QED
      BY <1>1, <3>1
  <2>3. CASE x = n
    <3>1. ~Top.replaced /\ K.map = Top.map /\ K.from = Top.from /\ Top.map \in Maps
      BY <2>1, <2>3 DEF Moved, LoopType
    <3>2. InOrder(Top, map[Top.map]) /\ MapSound(map[Top.map])
      BY <2>1, <2>3, <3>1 DEF LoopsInOrder, Inv, MapsSound
    <3> HIDE DEF K
    <3>3. InOrder(K, map[Top.map])
      BY <2>1, <3>1, <3>2, SeenInOrder, PassedInOrder DEF Moved
    <3> QED
      BY <2>1, <2>3, <3>1, <3>3 DEF K
  <2> QED
    BY <2>1, <2>2, <2>3
<1>6. ASSUME EndLoop  PROVE InOrder(loops'[x], map'[loops'[x].map])
  <2>1. x \in 1..(Len(loops) - 1) /\ x \in 1..Len(loops) /\ loops'[x] = loops[x]
    BY <1>0, <1>6, EndLoopHeld
  <2> QED
    BY <1>1, <2>1
<1>7. ASSUME Return  PROVE FALSE
  BY <1>7, ReturnHeld
<1>8. ASSUME NEW m \in Maps, NEW k \in Keys, NEW v \in Values, Set(m, k, v)
      PROVE  InOrder(loops'[x], map'[loops'[x].map])
  BY <1>2, <1>8 DEF Set
<1>9. ASSUME NEW m \in Maps, NEW k \in Keys, Remove(m, k)  PROVE InOrder(loops'[x], map'[loops'[x].map])
  BY <1>2, <1>9 DEF Remove
<1>10. ASSUME NEW m \in Maps, NEW n \in Maps, Assign(m, n)  PROVE InOrder(loops'[x], map'[loops'[x].map])
  BY <1>3, <1>10 DEF Assign
<1>11. ASSUME NEW m \in Maps, Clear(m)  PROVE InOrder(loops'[x], map'[loops'[x].map])
  BY <1>3, <1>11 DEF Clear
<1>12. ASSUME NEW y \in DOMAIN loops, NEW v \in Values, SetItem(y, v)
       PROVE  InOrder(loops'[x], map'[loops'[x].map])
  BY <1>2, <1>12 DEF SetItem
<1>13. CASE UNCHANGED vars
  BY <1>2, <1>13 DEF vars
<1>14. CASE Over
  BY <1>13, <1>14 DEF Over
<1> QED
  BY <1>4, <1>5, <1>6, <1>7, <1>8, <1>9, <1>10, <1>11, <1>12, <1>13, <1>14 DEF Next
-----------------------------------------------------------------------------
\* A loop's keys in order: those seen, and those still to come.
PathOf(L, M) == L.seen \o KeysFrom(M, Reach(L))

LEMMA InOrderVisits ==
    ASSUME NEW L \in LoopType, NEW M, MapSound(M), InOrder(L, M)
    PROVE  LET path == PathOf(L, M)
               place(k) == CHOOSE p \in DOMAIN L.from : L.from[p] = k
           IN  /\ \A p \in DOMAIN path : \E q \in DOMAIN L.from : path[p] = L.from[q]
               /\ \A p, q \in DOMAIN path : p < q => place(path[p]) < place(path[q])
               /\ \A p \in DOMAIN L.from :
                    \/ \E q \in DOMAIN path : path[q] = L.from[p]
                    \/ Find(M, L.from[p]) = NoEntry
<1> DEFINE n == Len(L.from)
           l == Len(L.seen)
           c == Reach(L)
           ks == KeysFrom(M, c)
           path == PathOf(L, M)
           t == Len(ks)
           place(k) == CHOOSE p \in DOMAIN L.from : L.from[p] = k
<1>1. PICK pos, sub : Follows(L, M, pos, sub)
  BY DEF InOrder
<1>2. /\ n \in Nat /\ l \in Nat /\ L.i \in Nat /\ L.seen \in Seq(Keys)
      /\ \A p \in 1..n : pos[p] \in 1..Used(M) /\ pos[p] \in Nat
      /\ \A a \in 1..l : sub[a] \in 1..n
      /\ \A p, q \in 1..n : pos[p] < pos[q] <=> p < q
      /\ \A p, q \in 1..n : pos[p] = pos[q] => p = q
  BY <1>1, FollowsIs
<1>3. c \in Nat /\ DOMAIN L.from = 1..n
  BY <1>2 DEF Reach, LoopType
<1>4. ks \in Seq(Keys) /\ \E at : KeysAt(M, c, ks, at)
  BY <1>3, KeysPlaces
<1>5. PICK at : KeysAt(M, c, ks, at)
  BY <1>4
<1>6. /\ DOMAIN path = 1..(l + t) /\ t \in Nat
      /\ \A a \in 1..l : path[a] = L.seen[a]
      /\ \A a \in 1..t : path[l + a] = ks[a]
  <2>1. path = L.seen \o ks
    BY DEF PathOf
  <2> HIDE DEF path, ks
  <2> QED
    BY <1>2, <1>4, <2>1
<1>7. /\ \A a \in 1..l : L.seen[a] = L.from[sub[a]] /\ pos[sub[a]] <= c
      /\ \A a, b \in 1..l : a < b => sub[a] < sub[b]
      /\ \A p \in 1..n : pos[p] <= c /\ M.entries[pos[p]].live => \E a \in 1..l : sub[a] = p
      /\ \A p \in 1..n : M.entries[pos[p]].key = L.from[p]
      /\ \A i \in 1..Used(M) : M.entries[i].live => \E p \in 1..n : pos[p] = i
      /\ \A p, q \in 1..n : L.from[p] = L.from[q] => p = q
  BY <1>1 DEF Follows
<1>8. /\ \A a \in 1..t : at[a] \in (c + 1)..Used(M) /\ M.entries[at[a]].live /\ ks[a] = M.entries[at[a]].key
      /\ \A a, b \in 1..t : a < b => at[a] < at[b]
      /\ \A q \in (c + 1)..Used(M) : M.entries[q].live => \E a \in 1..t : at[a] = q
  BY <1>5 DEF KeysAt
<1>9. Used(M) \in Nat
  BY MapFacts
<1> HIDE DEF n, l, c, ks, path, t, place
\* Each key of the path has its place in `from`.
<1>10. ASSUME NEW a \in 1..t  PROVE \E p \in 1..n : pos[p] = at[a] /\ ks[a] = L.from[p]
  <2>1. at[a] \in 1..Used(M) /\ M.entries[at[a]].live /\ ks[a] = M.entries[at[a]].key
    BY <1>3, <1>8, <1>9
  <2>2. PICK p \in 1..n : pos[p] = at[a]
    BY <1>7, <2>1
  <2>3. M.entries[pos[p]].key = L.from[p]
    BY <1>7
  <2> QED
    BY <2>1, <2>2, <2>3
<1> DEFINE later(a) == CHOOSE p \in 1..n : pos[p] = at[a] /\ ks[a] = L.from[p]
           track == [a \in 1..(l + t) |-> IF a <= l THEN sub[a] ELSE later(a - l)]
<1>11. \A a \in 1..t : later(a) \in 1..n /\ pos[later(a)] = at[a] /\ ks[a] = L.from[later(a)]
  BY <1>10
<1>12. \A a \in 1..(l + t) : a \in 1..l \/ (a - l \in 1..t /\ ~(a <= l) /\ a = l + (a - l))
  BY <1>2, <1>6
<1> HIDE DEF later
<1>13. /\ \A a \in 1..l : a \in 1..(l + t) /\ track[a] = sub[a]
       /\ \A a \in 1..t : l + a \in 1..(l + t) /\ track[l + a] = later(a)
  <2>1. \A a \in 1..l : a \in 1..(l + t) /\ a <= l
    BY <1>2, <1>6
  <2>2. \A a \in 1..t : l + a \in 1..(l + t) /\ ~(l + a <= l) /\ (l + a) - l = a
    BY <1>2, <1>6
  <2> QED
    BY <2>1, <2>2
<1> HIDE DEF track
<1>14. \A a \in 1..(l + t) : track[a] \in 1..n /\ path[a] = L.from[track[a]]
  <2> SUFFICES ASSUME NEW a \in 1..(l + t)  PROVE track[a] \in 1..n /\ path[a] = L.from[track[a]]
    OBVIOUS
  <2>1. CASE a \in 1..l
    BY <1>2, <1>6, <1>7, <1>13, <2>1
  <2>2. CASE a - l \in 1..t /\ a = l + (a - l)
    <3>1. path[a] = ks[a - l] /\ track[a] = later(a - l)
      BY <1>6, <1>13, <2>2
    <3> QED
      BY <1>11, <2>2, <3>1
  <2> QED
    BY <1>12, <2>1, <2>2
<1>15. \A a, b \in 1..(l + t) : a < b => track[a] < track[b]
  <2> SUFFICES ASSUME NEW a \in 1..(l + t), NEW b \in 1..(l + t), a < b  PROVE track[a] < track[b]
    OBVIOUS
  <2>1. CASE a \in 1..l /\ b \in 1..l
    BY <1>7, <1>13, <2>1
  <2>2. CASE a \in 1..l /\ b - l \in 1..t /\ b = l + (b - l)
    <3>1. track[a] = sub[a] /\ sub[a] \in 1..n /\ pos[sub[a]] <= c /\ pos[sub[a]] \in Nat
      BY <1>2, <1>7, <1>13, <2>2
    <3>2. track[b] = later(b - l) /\ later(b - l) \in 1..n /\ pos[later(b - l)] = at[b - l]
      BY <1>11, <1>13, <2>2
    <3>3. at[b - l] \in Nat /\ at[b - l] > c
      BY <1>3, <1>8, <1>9, <2>2
    <3>4. pos[track[a]] < pos[track[b]]
      BY <1>3, <3>1, <3>2, <3>3
    <3> QED
      BY <1>2, <3>1, <3>2, <3>4
  <2>3. CASE a - l \in 1..t /\ a = l + (a - l) /\ b - l \in 1..t /\ b = l + (b - l)
    <3>1. /\ track[a] = later(a - l) /\ later(a - l) \in 1..n /\ pos[later(a - l)] = at[a - l]
          /\ track[b] = later(b - l) /\ later(b - l) \in 1..n /\ pos[later(b - l)] = at[b - l]
      BY <1>11, <1>13, <2>3
    <3>2. a - l < b - l
      BY <1>2, <1>6
    <3>3. at[a - l] < at[b - l]
      BY <1>8, <2>3, <3>2
    <3> QED
      BY <1>2, <3>1, <3>3
  <2>4. ~(b \in 1..l /\ ~(a \in 1..l))
    BY <1>2, <1>6
  <2> QED
    BY <1>12, <2>1, <2>2, <2>3, <2>4
<1>16. \A a \in 1..(l + t) : place(path[a]) = track[a]
  <2> SUFFICES ASSUME NEW a \in 1..(l + t)  PROVE place(path[a]) = track[a]
    OBVIOUS
  <2>1. track[a] \in DOMAIN L.from /\ L.from[track[a]] = path[a]
    BY <1>3, <1>14
  <2>2. \A p \in DOMAIN L.from : L.from[p] = path[a] => p = track[a]
    BY <1>3, <1>7, <1>14
  <2> QED
    BY <2>1, <2>2 DEF place
<1>17. \A p \in DOMAIN path : \E q \in DOMAIN L.from : path[p] = L.from[q]
  BY <1>3, <1>6, <1>14
<1>18. \A p, q \in DOMAIN path : p < q => place(path[p]) < place(path[q])
  BY <1>6, <1>15, <1>16
<1>19. ASSUME NEW p \in DOMAIN L.from
       PROVE  (\E q \in DOMAIN path : path[q] = L.from[p]) \/ Find(M, L.from[p]) = NoEntry
  <2>0. p \in 1..n /\ pos[p] \in 1..Used(M) /\ pos[p] \in Nat
    BY <1>2, <1>3, <1>19
  <2>1. CASE M.entries[pos[p]].live /\ pos[p] <= c
    <3>1. PICK a \in 1..l : sub[a] = p
      BY <1>7, <2>0, <2>1
    <3>2. a \in DOMAIN path /\ path[a] = L.from[p]
      BY <1>6, <1>7, <1>13, <3>1
    <3> QED
      BY <3>2
  <2>2. CASE M.entries[pos[p]].live /\ ~(pos[p] <= c)
    <3>1. pos[p] \in (c + 1)..Used(M)
      BY <1>3, <1>9, <2>0, <2>2
    <3>2. PICK a \in 1..t : at[a] = pos[p]
      BY <1>8, <2>2, <3>1
    <3>3. ks[a] = M.entries[pos[p]].key /\ M.entries[pos[p]].key = L.from[p]
      BY <1>7, <1>8, <2>0, <3>2
    <3>4. l + a \in DOMAIN path /\ path[l + a] = L.from[p]
      BY <1>6, <1>13, <3>3
    <3> QED
      BY <3>4
  <2>3. CASE ~M.entries[pos[p]].live
    <3>1. L.from[p] \in Keys
      BY <1>7, <2>0, EntriesAre
    <3>2. Lacks(M, L.from[p])
      <4> SUFFICES ASSUME NEW i \in 1..Used(M), M.entries[i].live, M.entries[i].key = L.from[p]
                   PROVE  FALSE
        BY DEF Lacks
      <4>1. PICK q \in 1..n : pos[q] = i
        BY <1>7
      <4>2. L.from[q] = L.from[p]
        BY <1>7, <4>1
      <4>3. q = p
        BY <1>7, <2>0, <4>2
      <4> QED
        BY <2>3, <4>1, <4>3
    <3>3. \A i \in 1..Used(M) : ~FoundAt(M, L.from[p], i)
      BY <3>2 DEF Lacks, FoundAt
    <3> QED
      BY <3>1, <3>3, FindIs
  <2> QED
    BY <2>1, <2>2, <2>3
<1> QED
  BY <1>17, <1>18, <1>19 DEF path, place

\* LoopVisitsInOrder and LocksMatchLoops hold in every state, and no step moves
\* what a loop points to (kir/src/lower/maps.rs, codegen/src/func/maps.rs): a loop
\* comes to the keys that were there when it began in their order, each once,
\* misses only those that were removed, and leaves its map as locked as it was.
THEOREM LoopsAlwaysHold == Spec => LoopsHold
<1>1. Init => LoopsInOrder
  BY DEF Init, LoopsInOrder
<1>3. Spec => []LoopsInOrder
  BY <1>1, OrderStep, InvAlways, PTL DEF Spec
<1>4. Inv /\ LoopsInOrder => LoopVisitsInOrder
  <2> SUFFICES ASSUME Inv, LoopsInOrder, NEW x \in DOMAIN loops, ~loops[x].replaced
               PROVE  LET L == loops[x]
                          path == L.seen \o KeysFrom(map[L.map], IF L.inBody THEN L.i + 1 ELSE L.i)
                          place(k) == CHOOSE p \in DOMAIN L.from : L.from[p] = k
                      IN  /\ \A p \in DOMAIN path : \E q \in DOMAIN L.from : path[p] = L.from[q]
                          /\ \A p, q \in DOMAIN path : p < q => place(path[p]) < place(path[q])
                          /\ \A p \in DOMAIN L.from :
                               \/ \E q \in DOMAIN path : path[q] = L.from[p]
                               \/ Find(map[L.map], L.from[p]) = NoEntry
    BY DEF LoopVisitsInOrder
  <2>1. loops \in Seq(LoopType) /\ x \in 1..Len(loops)
    BY DEF Inv, LoopsInside
  <2>0. loops[x] \in LoopType
    BY <2>1
  <2>2. loops[x] \in LoopType /\ loops[x].map \in Maps
    BY <2>0 DEF LoopType
  <2>3. MapSound(map[loops[x].map]) /\ InOrder(loops[x], map[loops[x].map])
    BY <2>1, <2>2 DEF Inv, MapsSound, LoopsInOrder
  <2> QED
    BY <2>2, <2>3, InOrderVisits DEF PathOf, Reach
<1> QED
  BY <1>3, <1>4, InvAlways, LocksAlwaysMatch, NothingMoves, PTL DEF LoopsHold
-----------------------------------------------------------------------------
(* The maps are ordered maps. *)

PairType == [key : Keys, val : Values]

LEMMA PairsAre ==
    ASSUME NEW es \in Seq(EntryType)
    PROVE  /\ Pairs(es) \in Seq(PairType) /\ Len(Pairs(es)) = Len(Live(es)) /\ Len(Pairs(es)) \in Nat
           /\ Pairs(es) = [p \in 1..Len(Pairs(es)) |-> [key |-> Live(es)[p].key, val |-> Live(es)[p].val]]
<1> DEFINE s == Live(es)
           l == Len(s)
<1>1. s \in Seq(EntryType) /\ l \in Nat /\ DOMAIN s = 1..l
  BY LiveIs
<1>2. Pairs(es) = [p \in 1..l |-> [key |-> s[p].key, val |-> s[p].val]]
  BY <1>1 DEF Pairs
<1>3. \A p \in 1..l : s[p] \in EntryType
  BY <1>1
<1> HIDE DEF s, l
<1>4. \A p \in 1..l : [key |-> s[p].key, val |-> s[p].val] \in PairType
  BY <1>3 DEF EntryType, PairType
<1>5. Pairs(es) \in [1..l -> PairType]
  BY <1>2, <1>4
<1>6. Pairs(es) \in Seq(PairType) /\ Len(Pairs(es)) = l
  BY <1>1, <1>5
<1> QED
  BY <1>1, <1>2, <1>6 DEF s, l

\* The pairs of a map are those of its live entries.
LEMMA PairsKeys ==
    ASSUME NEW M, MapSound(M), NEW k \in Keys
    PROVE  /\ Lacks(M, k) => \A p \in 1..Len(Pairs(M.entries)) : Pairs(M.entries)[p].key # k
           /\ \A i \in 1..Used(M) : M.entries[i].live /\ M.entries[i].key = k =>
                \E p \in 1..Len(Pairs(M.entries)) : Pairs(M.entries)[p].key = k
<1> DEFINE es == M.entries
           s == Live(es)
           l == Len(Pairs(es))
<1>1. es \in Seq(EntryType) /\ Used(M) = Len(es)
  BY MapFacts
<1>2. /\ \A p \in 1..Len(s) : \E q \in 1..Len(es) : es[q].live /\ s[p] = es[q]
      /\ \A q \in 1..Len(es) : es[q].live => \E p \in 1..Len(s) : s[p] = es[q]
  BY <1>1, LiveIs
<1>3. l = Len(s) /\ Pairs(es) = [p \in 1..l |-> [key |-> s[p].key, val |-> s[p].val]]
  BY <1>1, PairsAre
<1> HIDE DEF s, l, es
<1>4. \A p \in 1..l : Pairs(es)[p].key = s[p].key
  BY <1>3
<1>5. Lacks(M, k) => \A p \in 1..l : Pairs(es)[p].key # k
  <2> SUFFICES ASSUME Lacks(M, k), NEW p \in 1..l  PROVE Pairs(es)[p].key # k
    OBVIOUS
  <2>1. PICK q \in 1..Len(es) : es[q].live /\ s[p] = es[q]
    BY <1>2, <1>3
  <2>2. es[q].key # k
    BY <1>1, <2>1 DEF Lacks, es
  <2> QED
    BY <1>4, <2>1, <2>2
<1>6. ASSUME NEW i \in 1..Used(M), es[i].live, es[i].key = k
      PROVE  \E p \in 1..l : Pairs(es)[p].key = k
  <2>1. PICK p \in 1..Len(s) : s[p] = es[i]
    BY <1>1, <1>2, <1>6
  <2> QED
    BY <1>3, <1>4, <1>6, <2>1
<1> QED
  BY <1>5, <1>6 DEF es, l

\* The value of a key is set.
Revalued(s, k, v) ==
    [p \in 1..Len(s) |-> IF s[p].key = k THEN [s[p] EXCEPT !.val = v] ELSE s[p]]

SameBut(s, t, k, v) ==
    /\ Len(t) = Len(s)
    /\ \A p \in 1..Len(s) : t[p].key = s[p].key /\ t[p].val = IF s[p].key = k THEN v ELSE s[p].val

LEMMA LiveRevalued ==
    ASSUME NEW es \in Seq(EntryType), NEW fs \in Seq(EntryType), NEW k, NEW v, Len(fs) = Len(es),
           \A q \in 1..Len(es) : fs[q].live = es[q].live,
           \A q \in 1..Len(es) : es[q].live =>
              fs[q].key = es[q].key /\ fs[q].val = IF es[q].key = k THEN v ELSE es[q].val
    PROVE  SameBut(Live(es), Live(fs), k, v)
<1> DEFINE n == Len(es)
           S == {j \in 0..n : SameBut(Kept(es)[j], Kept(fs)[j], k, v)}
<1>1. 0 \in S /\ n \in Nat
  <2>1. Kept(es)[0] = <<>> /\ Kept(fs)[0] = <<>>
    BY KeptIs
  <2>2. SameBut(<<>>, <<>>, k, v)
    BY DEF SameBut
  <2> QED
    BY <2>1, <2>2
<1>2. ASSUME NEW j \in 0..(n - 1), j \in S  PROVE j + 1 \in S
  <2> DEFINE s == Kept(es)[j]
             t == Kept(fs)[j]
             e == es[j + 1]
             f == fs[j + 1]
  <2>1. /\ s \in Seq(EntryType) /\ e \in EntryType /\ j + 1 \in 0..n /\ j + 1 \in 1..n
        /\ t \in Seq(EntryType) /\ f \in EntryType
        /\ Kept(es)[j + 1] = IF e.live THEN Append(s, e) ELSE s
        /\ Kept(fs)[j + 1] = IF f.live THEN Append(t, f) ELSE t
    BY KeptStep
  <2>2. f.live = e.live /\ (e.live => f.key = e.key /\ f.val = IF e.key = k THEN v ELSE e.val)
    BY <2>1
  <2>3. SameBut(s, t, k, v)
    BY <1>2
  <2> HIDE DEF s, t, e, f
  <2>4. ASSUME e.live  PROVE SameBut(Append(s, e), Append(t, f), k, v)
    <3> DEFINE l == Len(s)
    <3>1. /\ l \in Nat /\ l = Len(t) /\ Len(Append(s, e)) = l + 1 /\ Len(Append(t, f)) = l + 1
          /\ Append(s, e)[l + 1] = e /\ Append(t, f)[l + 1] = f
          /\ \A p \in 1..l : Append(s, e)[p] = s[p]
          /\ \A p \in 1..l : Append(t, f)[p] = t[p]
          /\ \A p \in 1..(l + 1) : p \in 1..l \/ p = l + 1
      BY <2>1, <2>3 DEF SameBut
    <3>2. \A p \in 1..l : t[p].key = s[p].key /\ t[p].val = IF s[p].key = k THEN v ELSE s[p].val
      BY <2>3 DEF SameBut
    <3> QED
      BY <2>2, <2>4, <3>1, <3>2 DEF SameBut
  <2>5. SameBut(Kept(es)[j + 1], Kept(fs)[j + 1], k, v)
    BY <2>1, <2>2, <2>3, <2>4
  <2> QED
    BY <2>1, <2>5
<1>3. n \in S
  <2> HIDE DEF S
  <2>1. 0..n \subseteq S
    BY <1>1, <1>2, UpTo
  <2> QED
    BY <1>1, <2>1
<1> QED
  BY <1>3 DEF Live

LEMMA PairsRevalued ==
    ASSUME NEW es \in Seq(EntryType), NEW fs \in Seq(EntryType), NEW k, NEW v \in Values, Len(fs) = Len(es),
           \A q \in 1..Len(es) : fs[q].live = es[q].live,
           \A q \in 1..Len(es) : es[q].live =>
              fs[q].key = es[q].key /\ fs[q].val = IF es[q].key = k THEN v ELSE es[q].val
    PROVE  Pairs(fs) = Revalued(Pairs(es), k, v)
<1> DEFINE l == Len(Pairs(es))
           s == Live(es)
           t == Live(fs)
           a == Pairs(es)
           b == Pairs(fs)
<1>1. SameBut(s, t, k, v)
  BY LiveRevalued
<1>2. /\ l = Len(s) /\ l = Len(b)
      /\ a = [p \in 1..l |-> [key |-> s[p].key, val |-> s[p].val]]
      /\ b = [p \in 1..l |-> [key |-> t[p].key, val |-> t[p].val]]
  BY <1>1, PairsAre DEF SameBut
<1>3. \A p \in 1..l : t[p].key = s[p].key /\ t[p].val = IF s[p].key = k THEN v ELSE s[p].val
  BY <1>1, <1>2 DEF SameBut
<1> HIDE DEF l, s, t, a, b
<1>4. \A p \in 1..l : b[p] = IF a[p].key = k THEN [a[p] EXCEPT !.val = v] ELSE a[p]
  BY <1>2, <1>3
<1>5. b = [p \in 1..l |-> IF a[p].key = k THEN [a[p] EXCEPT !.val = v] ELSE a[p]]
  BY <1>2, <1>4
<1> QED
  BY <1>5 DEF Revalued, a, b, l

\* t is s without its p-th item.
DropOf(s, t, p) ==
    /\ p \in 1..Len(s) /\ Len(t) = Len(s) - 1
    /\ \A i \in 1..Len(t) : t[i] = IF i < p THEN s[i] ELSE s[i + 1]

DropWith(s, t, e, p) == DropOf(Append(s, e), Append(t, e), p) /\ Append(s, e)[p] = s[p]

LEMMA DropAppend ==
    ASSUME NEW s \in Seq(EntryType), NEW t \in Seq(EntryType), NEW e \in EntryType,
           NEW p, DropOf(s, t, p)
    PROVE  DropWith(s, t, e, p)
<1> DEFINE l == Len(t)
           u == Append(s, e)
           w == Append(t, e)
<1>1. /\ l \in Nat /\ Len(s) = l + 1 /\ p \in 1..(l + 1)
      /\ \A i \in 1..l : t[i] = IF i < p THEN s[i] ELSE s[i + 1]
  BY DEF DropOf
<1>2. /\ Len(u) = l + 2 /\ u[l + 2] = e /\ \A i \in 1..(l + 1) : u[i] = s[i]
      /\ Len(w) = l + 1 /\ w[l + 1] = e /\ \A i \in 1..l : w[i] = t[i]
  BY <1>1
<1>3. \A i \in 1..(l + 1) : i \in 1..l \/ i = l + 1
  BY <1>1
<1> HIDE DEF l, u, w
<1>4. \A i \in 1..l : w[i] = IF i < p THEN u[i] ELSE u[i + 1]
  <2>1. \A i \in 1..l : i \in 1..(l + 1) /\ i + 1 \in 1..(l + 1)
    BY <1>1
  <2> QED
    BY <1>1, <1>2, <2>1
<1>5. w[l + 1] = IF l + 1 < p THEN u[l + 1] ELSE u[l + 1 + 1]
  BY <1>1, <1>2
<1>6. \A i \in 1..(l + 1) : w[i] = IF i < p THEN u[i] ELSE u[i + 1]
  BY <1>3, <1>4, <1>5
<1>7. p \in 1..Len(u) /\ Len(w) = Len(u) - 1
  BY <1>1, <1>2
<1>8. DropOf(u, w, p)
  BY <1>2, <1>6, <1>7 DEF DropOf
<1>9. u[p] = s[p]
  BY <1>1, <1>2
<1> QED
  BY <1>8, <1>9 DEF u, w, DropWith

LEMMA DropLast ==
    ASSUME NEW E, NEW s \in Seq(E), NEW e \in E
    PROVE  DropOf(Append(s, e), s, Len(s) + 1) /\ Append(s, e)[Len(s) + 1] = e
<1> DEFINE l == Len(s)
           u == Append(s, e)
<1>1. l \in Nat /\ Len(u) = l + 1 /\ u[l + 1] = e /\ \A i \in 1..l : u[i] = s[i] /\ i < l + 1
  OBVIOUS
<1> QED
  BY <1>1 DEF DropOf

LEMMA LiveDropped ==
    ASSUME NEW es \in Seq(EntryType), NEW fs \in Seq(EntryType), NEW d \in 1..Len(es), Len(fs) = Len(es),
           es[d].live, ~fs[d].live, \A q \in 1..Len(es) : q # d => fs[q] = es[q]
    PROVE  \E p : DropOf(Live(es), Live(fs), p) /\ Live(es)[p] = es[d]
<1> DEFINE n == Len(es)
           Is(j) == \E p : DropOf(Kept(es)[j], Kept(fs)[j], p) /\ Kept(es)[j][p] = es[d]
           S == {j \in 0..n : j >= d => Is(j)}
<1>1. 0 \in S /\ n \in Nat
  OBVIOUS
<1>2. ASSUME NEW j \in 0..(n - 1), j \in S  PROVE j + 1 \in S
  <2> DEFINE s == Kept(es)[j]
             t == Kept(fs)[j]
             e == es[j + 1]
             f == fs[j + 1]
  <2>1. /\ s \in Seq(EntryType) /\ e \in EntryType /\ j + 1 \in 0..n /\ j + 1 \in 1..n
        /\ t \in Seq(EntryType) /\ f \in EntryType
        /\ Kept(es)[j + 1] = IF e.live THEN Append(s, e) ELSE s
        /\ Kept(fs)[j + 1] = IF f.live THEN Append(t, f) ELSE t
    BY KeptStep
  <2>2. CASE j + 1 = d
    <3>1. s = t
      <4>1. /\ j \in Nat /\ j <= Len(es) /\ j <= Len(fs) /\ \A q \in 1..j : es[q] = fs[q]
        BY <2>2
      <4> QED
        BY <4>1, KeptPrefix
    <3>2. Kept(es)[j + 1] = Append(s, es[d]) /\ Kept(fs)[j + 1] = s /\ es[d] \in EntryType
      BY <2>1, <2>2, <3>1
    <3> HIDE DEF s
    <3>3. DropOf(Append(s, es[d]), s, Len(s) + 1) /\ Append(s, es[d])[Len(s) + 1] = es[d]
      BY <2>1, <3>2, DropLast
    <3>4. Is(j + 1)
      BY <3>2, <3>3
    <3> QED
      BY <2>1, <3>4
  <2>3. CASE j >= d
    <3>1. PICK p : DropOf(s, t, p) /\ s[p] = es[d]
      BY <1>2, <2>3
    <3>2. f = e
      BY <2>1, <2>3
    <3>3. s \in Seq(EntryType) /\ t \in Seq(EntryType) /\ e \in EntryType
      BY <2>1
    <3>4. DropOf(s, t, p)
      BY <3>1
    <3>5. \/ Kept(es)[j + 1] = Append(s, e) /\ Kept(fs)[j + 1] = Append(t, e)
          \/ Kept(es)[j + 1] = s /\ Kept(fs)[j + 1] = t
      <4>1. /\ Kept(es)[j + 1] = IF e.live THEN Append(s, e) ELSE s
            /\ Kept(fs)[j + 1] = IF e.live THEN Append(t, e) ELSE t
        BY <2>1, <3>2
      <4> QED
        BY <4>1
    <3> HIDE DEF s, t, e, f
    <3>6. DropWith(s, t, e, p)
      BY <3>3, <3>4, DropAppend
    <3>7. DropOf(Append(s, e), Append(t, e), p) /\ Append(s, e)[p] = s[p]
      BY <3>6 DEF DropWith
    <3>8. DropOf(Kept(es)[j + 1], Kept(fs)[j + 1], p) /\ Kept(es)[j + 1][p] = es[d]
      BY <3>1, <3>7, <3>5
    <3>9. Is(j + 1)
      BY <3>8
    <3> QED
      BY <2>1, <3>9
  <2>4. CASE j + 1 < d
    BY <2>1, <2>4
  <2> QED
    BY <2>2, <2>3, <2>4
<1>3. n \in S
  <2> HIDE DEF S
  <2>1. 0..n \subseteq S
    BY <1>1, <1>2, UpTo
  <2> QED
    BY <1>1, <2>1
<1>4. Is(n)
  BY <1>3
<1> QED
  BY <1>4 DEF Live

\* Where two arrays differ there is no live entry.
LEMMA LiveSame ==
    ASSUME NEW es \in Seq(EntryType), NEW fs \in Seq(EntryType), Len(fs) = Len(es),
           \A q \in 1..Len(es) : fs[q].live = es[q].live,
           \A q \in 1..Len(es) : es[q].live => fs[q] = es[q]
    PROVE  Live(fs) = Live(es)
<1> DEFINE n == Len(es)
           S == {j \in 0..n : Kept(fs)[j] = Kept(es)[j]}
<1>1. 0 \in S /\ n \in Nat
  <2>1. Kept(es)[0] = <<>> /\ Kept(fs)[0] = <<>>
    BY KeptIs
  <2> QED
    BY <2>1
<1>2. ASSUME NEW j \in 0..(n - 1), j \in S  PROVE j + 1 \in S
  <2>1. /\ j + 1 \in 0..n /\ j + 1 \in 1..n
        /\ Kept(es)[j + 1] = IF es[j + 1].live THEN Append(Kept(es)[j], es[j + 1]) ELSE Kept(es)[j]
        /\ Kept(fs)[j + 1] = IF fs[j + 1].live THEN Append(Kept(fs)[j], fs[j + 1]) ELSE Kept(fs)[j]
    BY KeptStep
  <2>2. fs[j + 1].live = es[j + 1].live /\ (es[j + 1].live => fs[j + 1] = es[j + 1])
    BY <2>1
  <2>3. Kept(fs)[j] = Kept(es)[j]
    BY <1>2
  <2>4. Kept(fs)[j + 1] = Kept(es)[j + 1]
    BY <2>1, <2>2, <2>3
  <2> QED
    BY <2>1, <2>4
<1>3. n \in S
  <2> HIDE DEF S
  <2>1. 0..n \subseteq S
    BY <1>1, <1>2, UpTo
  <2> QED
    BY <1>1, <2>1
<1> QED
  BY <1>3 DEF Live

LEMMA PairsDropped ==
    ASSUME NEW es \in Seq(EntryType), NEW fs \in Seq(EntryType), NEW d \in 1..Len(es), Len(fs) = Len(es),
           es[d].live, ~fs[d].live, \A q \in 1..Len(es) : q # d => fs[q] = es[q]
    PROVE  \E p \in 1..Len(Pairs(es)) :
             Pairs(es)[p].key = es[d].key /\ Pairs(fs) = Ordered!Without(Pairs(es), p)
<1> DEFINE s == Live(es)
           t == Live(fs)
           a == Pairs(es)
           b == Pairs(fs)
           l == Len(b)
<1>1. PICK p : DropOf(s, t, p) /\ s[p] = es[d]
  BY LiveDropped
<1>2. /\ Len(a) = Len(s) /\ l = Len(t) /\ l \in Nat
      /\ a = [i \in 1..Len(a) |-> [key |-> s[i].key, val |-> s[i].val]]
      /\ b = [i \in 1..l |-> [key |-> t[i].key, val |-> t[i].val]]
  BY PairsAre
<1>3. /\ p \in 1..(l + 1) /\ Len(a) = l + 1 /\ \A i \in 1..l : t[i] = IF i < p THEN s[i] ELSE s[i + 1]
  <2>1. Len(a) \in Nat
    BY PairsAre
  <2> QED
    BY <1>1, <1>2, <2>1 DEF DropOf
<1> HIDE DEF s, t, a, b, l
<1>4. \A i \in 1..(l + 1) : a[i] = [key |-> s[i].key, val |-> s[i].val]
  BY <1>2, <1>3
<1>5. \A i \in 1..l : b[i] = IF i < p THEN a[i] ELSE a[i + 1]
  <2>1. \A i \in 1..l : i \in 1..(l + 1) /\ i + 1 \in 1..(l + 1) /\ b[i] = [key |-> t[i].key, val |-> t[i].val]
    BY <1>2
  <2> SUFFICES ASSUME NEW i \in 1..l  PROVE b[i] = IF i < p THEN a[i] ELSE a[i + 1]
    OBVIOUS
  <2>2. CASE i < p
    <3>1. t[i] = s[i]
      BY <1>3, <2>2
    <3>2. a[i] = [key |-> s[i].key, val |-> s[i].val]
      BY <1>4, <2>1
    <3> QED
      BY <2>1, <2>2, <3>1, <3>2
  <2>3. CASE ~(i < p)
    <3>1. t[i] = s[i + 1]
      BY <1>3, <2>3
    <3>2. a[i + 1] = [key |-> s[i + 1].key, val |-> s[i + 1].val]
      BY <1>4, <2>1
    <3> QED
      BY <2>1, <2>3, <3>1, <3>2
  <2> QED
    BY <2>2, <2>3
<1>6. b = [i \in 1..l |-> b[i]] /\ l = Len(a) - 1
  BY <1>2, <1>3
<1>7. b = [i \in 1..(Len(a) - 1) |-> IF i < p THEN a[i] ELSE a[i + 1]]
  <2>1. b = [i \in 1..l |-> IF i < p THEN a[i] ELSE a[i + 1]]
    BY <1>5, <1>6
  <2> QED
    BY <1>6, <2>1
<1>8. a[p].key = es[d].key /\ p \in 1..Len(a)
  BY <1>1, <1>3, <1>4
<1> QED
  BY <1>7, <1>8 DEF Ordered!Without, a, b

LEMMA PairsAppend ==
    ASSUME NEW es \in Seq(EntryType), NEW k \in Keys, NEW v \in Values
    PROVE  Pairs(Append(es, NewEntry(k, v))) = Append(Pairs(es), [key |-> k, val |-> v])
<1> DEFINE e == NewEntry(k, v)
           fs == Append(es, e)
           s == Live(es)
           a == Pairs(es)
           l == Len(a)
           x == [key |-> k, val |-> v]
<1>1. /\ e \in EntryType /\ e.live /\ e.key = k /\ e.val = v
  BY DEF NewEntry, EntryType
<1>2. fs \in Seq(EntryType) /\ s \in Seq(EntryType)
  BY <1>1, LiveIs
<1> HIDE DEF e
<1>3. Live(fs) = Append(s, e)
  BY <1>1, LiveAppend
<1>4. /\ l = Len(s) /\ l \in Nat /\ a = [i \in 1..l |-> [key |-> s[i].key, val |-> s[i].val]]
      /\ a \in Seq(PairType) /\ Len(Pairs(fs)) = Len(Live(fs))
      /\ Pairs(fs) = [i \in 1..Len(Pairs(fs)) |-> [key |-> Live(fs)[i].key, val |-> Live(fs)[i].val]]
  BY <1>2, PairsAre
<1> HIDE DEF fs, s, a, l, x
<1>5. Len(Append(s, e)) = l + 1 /\ Append(s, e)[l + 1] = e /\ \A i \in 1..l : Append(s, e)[i] = s[i]
  BY <1>1, <1>2, <1>4
<1>6. Pairs(fs) = [i \in 1..(l + 1) |-> [key |-> Append(s, e)[i].key, val |-> Append(s, e)[i].val]]
  BY <1>3, <1>4, <1>5
<1>7. /\ \A i \in 1..l : Pairs(fs)[i] = a[i]
      /\ Pairs(fs)[l + 1] = x
  <2>1. \A i \in 1..l : i \in 1..(l + 1)
    BY <1>4
  <2>2. \A i \in 1..l : Pairs(fs)[i] = [key |-> s[i].key, val |-> s[i].val]
    BY <1>5, <1>6, <2>1
  <2>3. l + 1 \in 1..(l + 1)
    BY <1>4
  <2>4. Pairs(fs)[l + 1] = [key |-> e.key, val |-> e.val]
    BY <1>5, <1>6, <2>3
  <2> QED
    BY <1>1, <1>4, <2>2, <2>4 DEF x
<1>8. Pairs(fs) = [i \in 1..(l + 1) |-> Pairs(fs)[i]]
  BY <1>6
<1>9. x \in PairType
  BY DEF x, PairType
<1>10. /\ Append(a, x) = [i \in 1..(l + 1) |-> Append(a, x)[i]]
       /\ Append(a, x)[l + 1] = x /\ \A i \in 1..l : Append(a, x)[i] = a[i]
  <2>1. a \in Seq(PairType) /\ Len(a) = l /\ l \in Nat
    BY <1>4 DEF l
  <2>2. Append(a, x) \in Seq(PairType) /\ Len(Append(a, x)) = l + 1
    BY <1>9, <2>1
  <2>3. Append(a, x) \in [1..Len(Append(a, x)) -> PairType]
    BY <2>2, LenProperties
  <2>4. Append(a, x)[l + 1] = x /\ \A i \in 1..l : Append(a, x)[i] = a[i]
    BY <1>9, <2>1
  <2> QED
    BY <2>2, <2>3, <2>4
<1>11. \A i \in 1..(l + 1) : Pairs(fs)[i] = Append(a, x)[i]
  <2>1. \A i \in 1..(l + 1) : i \in 1..l \/ i = l + 1
    BY <1>4
  <2> QED
    BY <1>7, <1>10, <2>1
<1> QED
  BY <1>8, <1>10, <1>11 DEF fs, a, x, e
-----------------------------------------------------------------------------
(* Every step is a step of the ordered maps. *)

Content == [m \in Maps |-> Pairs(map[m].entries)]

\* One map changes.
LEMMA ContentOne ==
    ASSUME Inv, NEW m \in Maps, NEW N, map' = [map EXCEPT ![m] = N]
    PROVE  /\ Content' = [Content EXCEPT ![m] = Pairs(N.entries)]
           /\ Content[m] = Pairs(map[m].entries)
<1>1. map \in [Maps -> MapType]
  BY DEF Inv, MapsSound
<1>2. map'[m] = N /\ \A x \in Maps : x # m => map'[x] = map[x]
  BY <1>1
<1>4. \A x \in Maps : Content'[x] = Pairs(map'[x].entries)
  BY DEF Content
<1>5. \A x \in Maps : Content'[x] = IF x = m THEN Pairs(N.entries) ELSE Content[x]
  BY <1>2, <1>4 DEF Content
<1>6. Content' = [x \in Maps |-> Content'[x]]
  BY DEF Content
<1>7. Content' = [x \in Maps |-> IF x = m THEN Pairs(N.entries) ELSE Content[x]]
  BY <1>5, <1>6
<1> QED
  BY <1>7 DEF Content

LEMMA ContentSame ==
    ASSUME \A m \in Maps : map'[m].entries = map[m].entries
    PROVE  Content' = Content
BY DEF Content

\* A value is set at entry i, which is the only live one with its key.
LEMMA PairsValued ==
    ASSUME NEW M, MapSound(M), NEW i \in 1..Used(M), NEW v \in Values
    PROVE  LET fs == [M.entries EXCEPT ![i].val = v] IN
           /\ M.entries[i].live => /\ M.entries[i].key \in Ordered!KeysOf(Pairs(M.entries))
                                   /\ Pairs(fs) = Revalued(Pairs(M.entries), M.entries[i].key, v)
           /\ ~M.entries[i].live => Pairs(fs) = Pairs(M.entries)
<1> DEFINE es == M.entries
           fs == [es EXCEPT ![i].val = v]
           k == es[i].key
           n == Len(es)
<1>1. /\ es \in Seq(EntryType) /\ n = Used(M) /\ n \in Nat /\ k \in Keys
      /\ \A q \in 1..n : es[q] \in EntryType
  BY MapFacts, EntriesAre
<1>2. fs \in Seq(EntryType) /\ Len(fs) = n
  <2>1. [es[i] EXCEPT !.val = v] \in EntryType
    BY <1>1 DEF EntryType
  <2> QED
    BY <1>1, <2>1
<1>3. \A q \in 1..n : q # i => fs[q] = es[q]
  BY <1>1
<1>4. fs[i].live = es[i].live /\ fs[i].key = es[i].key /\ fs[i].val = v
  <2>1. es[i] \in EntryType
    BY <1>1
  <2>2. fs[i] = [es[i] EXCEPT !.val = v]
    BY <1>1
  <2> QED
    BY <2>1, <2>2 DEF EntryType
<1>5. \A p, q \in 1..n : es[p].live /\ es[q].live /\ es[p].key = es[q].key => p = q
  BY DEF MapSound, Distinct
<1>6. \A q \in 1..n : fs[q].live = es[q].live
  BY <1>3, <1>4
<1>7. ASSUME es[i].live  PROVE Pairs(fs) = Revalued(Pairs(es), k, v)
  <2>1. \A q \in 1..n : es[q].live =>
          fs[q].key = es[q].key /\ fs[q].val = IF es[q].key = k THEN v ELSE es[q].val
    <3> SUFFICES ASSUME NEW q \in 1..n, es[q].live
                 PROVE  fs[q].key = es[q].key /\ fs[q].val = IF es[q].key = k THEN v ELSE es[q].val
      OBVIOUS
    <3>1. CASE q = i
      BY <1>4, <3>1
    <3>2. CASE q # i
      <4>1. es[q].key # k
        BY <1>1, <1>5, <1>7, <3>2
      <4> QED
        BY <1>3, <3>2, <4>1
    <3> QED
      BY <3>1, <3>2
  <2> HIDE DEF fs, k
  <2> QED
    BY <1>1, <1>2, <1>6, <2>1, PairsRevalued
<1>8. ASSUME es[i].live  PROVE k \in Ordered!KeysOf(Pairs(es))
  <2>1. \E p \in 1..Len(Pairs(es)) : Pairs(es)[p].key = k
    BY <1>1, <1>8, PairsKeys
  <2> QED
    BY <2>1 DEF Ordered!KeysOf
<1>9. ASSUME ~es[i].live  PROVE Pairs(fs) = Pairs(es)
  <2>1. Live(fs) = Live(es)
    <3>1. \A q \in 1..n : /\ fs[q].live = es[q].live
                          /\ es[q].live => fs[q] = es[q]
      BY <1>3, <1>6, <1>9
    <3> HIDE DEF fs
    <3> QED
      BY <1>1, <1>2, <3>1, LiveSame
  <2> QED
    BY <2>1 DEF Pairs
<1> QED
  BY <1>7, <1>8, <1>9

LEMMA SetOrdered ==
    ASSUME Inv, NEW m \in Maps, NEW k \in Keys, NEW v \in Values, Set(m, k, v)
    PROVE  Ordered!Set(m, k, v) \/ Content' = Content
<1> DEFINE M == map[m]
           s == Pairs(M.entries)
<1>1. MapSound(M) /\ map \in [Maps -> MapType]
  BY DEF Inv, MapsSound
<1>2. CASE Present(M, k) /\ map' = [map EXCEPT ![m].entries[Find(M, k) + 1].val = v]
  <2>1. PICK i \in 1..Used(M) : FoundAt(M, k, i)
    BY <1>1, <1>2, FindIs
  <2>2. Find(M, k) + 1 = i /\ M.entries[i].live /\ M.entries[i].key = k
    BY <1>1, <2>1, MapFacts DEF FoundAt
  <2> DEFINE N == [M EXCEPT !.entries[i].val = v]
  <2>3. map' = [map EXCEPT ![m] = N]
    BY <1>1, <1>2, <2>2
  <2>4. N.entries = [M.entries EXCEPT ![i].val = v]
    BY <1>1, ValueSound
  <2>5. k \in Ordered!KeysOf(s) /\ Pairs(N.entries) = Revalued(s, k, v)
    BY <1>1, <2>2, <2>4, PairsValued
  <2> HIDE DEF N
  <2>6. Content' = [Content EXCEPT ![m] = Pairs(N.entries)] /\ Content[m] = s
    BY <2>3, ContentOne
  <2>7. Ordered!Set(m, k, v)
    BY <2>5, <2>6 DEF Ordered!Set, Revalued, Content
  <2> QED
    BY <2>7
<1>3. CASE ~Present(M, k) /\ ~TooLarge(M) /\ map' = [map EXCEPT ![m] = Added(M, k, v)]
  <2>1. Lacks(M, k)
    <3>1. \A i \in 1..Used(M) : FoundAt(M, k, i) => Present(M, k)
      BY DEF FoundAt
    <3> QED
      BY <1>1, <1>3, <3>1, FindIs
  <2> DEFINE R == Roomy(M)
             N == Added(M, k, v)
  <2>2. N.entries = Append(R.entries, NewEntry(k, v))
    BY <1>1, <1>3, <2>1, AddedSound
  <2>3. MapSound(R) /\ Live(R.entries) = Live(M.entries)
    BY <1>1, <1>3, RoomySound
  <2>4. R.entries \in Seq(EntryType)
    BY <2>3, MapFacts
  <2>5. Pairs(R.entries) = s
    BY <2>3 DEF Pairs
  <2> HIDE DEF R, N
  <2>6. Pairs(N.entries) = Append(s, [key |-> k, val |-> v])
    BY <2>2, <2>4, <2>5, PairsAppend
  <2>7. k \notin Ordered!KeysOf(s)
    BY <1>1, <2>1, PairsKeys DEF Ordered!KeysOf
  <2>8. Content' = [Content EXCEPT ![m] = Pairs(N.entries)] /\ Content[m] = s
    BY <1>3, ContentOne DEF N
  <2>9. Ordered!Set(m, k, v)
    BY <2>6, <2>7, <2>8 DEF Ordered!Set, Content
  <2> QED
    BY <2>9
<1>4. CASE UNCHANGED map
  BY <1>4 DEF Content
<1> QED
  BY <1>2, <1>3, <1>4 DEF Set

LEMMA RemoveOrdered ==
    ASSUME Inv, NEW m \in Maps, NEW k \in Keys, Remove(m, k)
    PROVE  Ordered!Remove(m, k)
<1> DEFINE M == map[m]
           es == M.entries
           N == Dropped(M, k)
<1>1. MapSound(M)
  BY DEF Inv, MapsSound
<1>2. PICK i \in 1..Used(M) : FoundAt(M, k, i)
  BY <1>1, FindIs DEF Remove
<1>3. N.entries = [es EXCEPT ![i].live = FALSE]
  BY <1>1, <1>2, DroppedSound
<1>4. /\ es \in Seq(EntryType) /\ Used(M) = Len(es) /\ es[i].live /\ es[i].key = k
      /\ es[i] \in EntryType
  BY <1>1, <1>2, MapFacts DEF FoundAt
<1> DEFINE fs == [es EXCEPT ![i].live = FALSE]
<1>5. [es[i] EXCEPT !.live = FALSE] \in EntryType /\ ~[es[i] EXCEPT !.live = FALSE].live
  BY <1>4 DEF EntryType
<1>6. /\ fs \in Seq(EntryType) /\ Len(fs) = Len(es) /\ ~fs[i].live
      /\ \A q \in 1..Len(es) : q # i => fs[q] = es[q]
  BY <1>4, <1>5
<1> HIDE DEF fs
<1>7. \E p \in 1..Len(Pairs(es)) :
        Pairs(es)[p].key = es[i].key /\ Pairs(fs) = Ordered!Without(Pairs(es), p)
  BY <1>4, <1>6, PairsDropped
<1>8. map' = [map EXCEPT ![m] = N]
  BY DEF Remove
<1>9. N.entries = fs
  BY <1>3 DEF fs
<1> HIDE DEF N
<1>10. Content' = [Content EXCEPT ![m] = Pairs(fs)] /\ Content[m] = Pairs(es)
  BY <1>8, <1>9, ContentOne
<1>11. PICK p \in 1..Len(Content[m]) : Content[m][p].key = k /\ Pairs(fs) = Ordered!Without(Content[m], p)
  BY <1>4, <1>7, <1>10
<1>12. Content' = [Content EXCEPT ![m] = Ordered!Without(Content[m], p)]
  BY <1>10, <1>11
<1> QED
  BY <1>11, <1>12 DEF Ordered!Remove, Content

LEMMA AssignOrdered ==
    ASSUME Inv, NEW m \in Maps, NEW n \in Maps, Assign(m, n)
    PROVE  Ordered!Assign(m, Content[n])
<1> DEFINE N == IF Fits(map[m], map[n]) THEN CopyInto(map[m], map[n]) ELSE Dup(map[n])
<1>1. MapSound(map[m]) /\ MapSound(map[n])
  BY DEF Inv, MapsSound
<1>2. N.entries = Live(map[n].entries)
  BY <1>1, CopyIntoSound, DupSound
<1>3. Live(Live(map[n].entries)) = Live(map[n].entries)
  <2>1. map[n].count \in Nat /\ map[n].count <= map[n].count
    BY <1>1, MapFacts
  <2> QED
    BY <1>1, <2>1, LiveTable
<1>4. Pairs(N.entries) = Pairs(map[n].entries)
  BY <1>2, <1>3 DEF Pairs
<1>5. map' = [map EXCEPT ![m] = N]
  BY DEF Assign
<1> HIDE DEF N
<1>6. Content' = [Content EXCEPT ![m] = Pairs(N.entries)]
  BY <1>5, ContentOne
<1> QED
  BY <1>4, <1>6 DEF Ordered!Assign, Content

LEMMA EmptyPairs == Pairs(<<>>) = <<>>
<1>1. Live(<<>>) = <<>>
  <2>1. <<>> \in Seq(EntryType) /\ \A q \in 1..Len(<<>>) : <<>>[q].live
    OBVIOUS
  <2> QED
    BY <2>1, LiveOfLive, Zenon
<1> QED
  BY <1>1 DEF Pairs

LEMMA ClearOrdered ==
    ASSUME Inv, NEW m \in Maps, Clear(m)
    PROVE  Ordered!Assign(m, <<>>)
<1>1. NewMap.entries = <<>> /\ map' = [map EXCEPT ![m] = NewMap]
  BY DEF Clear, NewMap
<1>2. Content' = [Content EXCEPT ![m] = Pairs(NewMap.entries)]
  BY <1>1, ContentOne
<1> QED
  BY <1>1, <1>2, EmptyPairs DEF Ordered!Assign, Content

LEMMA SetItemOrdered ==
    ASSUME Inv, NEW x \in DOMAIN loops, NEW v \in Values, SetItem(x, v)
    PROVE  (\E m \in Maps, k \in Keys : Ordered!Set(m, k, v)) \/ Content' = Content
<1> DEFINE m == loops[x].map
           i == loops[x].i + 1
           M == map[m]
           s == Pairs(M.entries)
           N == [M EXCEPT !.entries[i].val = v]
<1>1. m \in Maps /\ loops[x].i \in Nat /\ map \in [Maps -> MapType] /\ MapsSound
  <2>1. loops[x] \in LoopType
    BY DEF Inv, LoopsInside
  <2> QED
    BY <2>1 DEF Inv, MapsSound, LoopsInside, LoopType
<1>2. MapSound(M)
  BY <1>1 DEF MapsSound
<1>3. CASE loops[x].i < Used(M) /\ map' = [map EXCEPT ![m].entries[i].val = v]
  <2>1. i \in 1..Used(M)
    BY <1>1, <1>2, <1>3, MapFacts
  <2>2. map' = [map EXCEPT ![m] = N]
    BY <1>1, <1>3
  <2>3. N.entries = [M.entries EXCEPT ![i].val = v]
    BY <1>2, <2>1, ValueSound
  <2> HIDE DEF N
  <2>4. Content' = [Content EXCEPT ![m] = Pairs(N.entries)] /\ Content[m] = s
    BY <1>1, <2>2, ContentOne
  <2> HIDE DEF m, i
  <2> DEFINE k == M.entries[i].key
             w == Pairs([M.entries EXCEPT ![i].val = v])
  <2>7. /\ M.entries[i].live => k \in Ordered!KeysOf(s) /\ w = Revalued(s, k, v)
        /\ ~M.entries[i].live => w = s
    <3> HIDE DEF M
    <3> QED
      BY <1>2, <2>1, PairsValued
  <2>8. Pairs(N.entries) = w
    BY <2>3
  <2>9. k \in Keys
    <3> HIDE DEF M
    <3> QED
      BY <1>2, <2>1, EntriesAre
  <2> HIDE DEF w
  <2>5. CASE M.entries[i].live
    <3>1. k \in Keys
      BY <2>9
    <3>2. k \in Ordered!KeysOf(s) /\ Pairs(N.entries) = Revalued(s, k, v)
      BY <2>5, <2>7, <2>8
    <3> HIDE DEF k
    <3>3. Ordered!Set(m, k, v)
      BY <2>4, <3>2 DEF Ordered!Set, Revalued, Content
    <3> QED
      BY <1>1, <3>1, <3>3
  <2>6. CASE ~M.entries[i].live
    <3>1. Pairs(N.entries) = s
      BY <2>6, <2>7, <2>8
    <3>2. [Content EXCEPT ![m] = Content[m]] = Content
      BY DEF Content
    <3> QED
      BY <2>4, <3>1, <3>2
  <2> QED
    BY <2>5, <2>6
<1>4. CASE UNCHANGED map
  BY <1>4 DEF Content
<1> QED
  BY <1>3, <1>4 DEF SetItem

Relocked(M, l) == [M EXCEPT !.locks = l]

LEMMA LoopOrdered ==
    ASSUME Inv, (\E m \in Maps : BeginLoop(m)) \/ EndLoop \/ Return \/ UNCHANGED map
    PROVE  Content' = Content
<1>1. map \in [Maps -> MapType]
  BY DEF Inv, MapsSound
<1>2. ASSUME NEW m \in Maps, NEW l  PROVE Relocked(map[m], l).entries = map[m].entries
  <2>1. map[m] \in MapType
    BY <1>1
  <2> QED
    BY <2>1 DEF MapType, Relocked
<1>3. ASSUME NEW m \in Maps, BeginLoop(m)  PROVE Content' = Content
  <2>1. \A n \in Maps : map'[n] = IF n = m THEN Relocked(map[n], map[m].locks + 1) ELSE map[n]
    BY <1>1, <1>3 DEF BeginLoop, Relocked
  <2>2. \A n \in Maps : map'[n].entries = map[n].entries
    BY <1>2, <2>1
  <2> QED
    BY <2>2, ContentSame
<1>4. ASSUME EndLoop  PROVE Content' = Content
  <2>1. \A n \in Maps : map'[n] = IF n = Top.map THEN Relocked(map[n], Top.saved) ELSE map[n]
    BY <1>1, <1>4 DEF EndLoop, Relocked
  <2>2. \A n \in Maps : map'[n].entries = map[n].entries
    BY <1>2, <2>1
  <2> QED
    BY <2>2, ContentSame
<1>5. ASSUME Return  PROVE Content' = Content
  <2>1. \A n \in Maps : map'[n] = map[n] \/ \E l : map'[n] = Relocked(map[n], l)
    BY <1>5 DEF Return, Relocked
  <2>2. \A n \in Maps : map'[n].entries = map[n].entries
    BY <1>2, <2>1
  <2> QED
    BY <2>2, ContentSame
<1> QED
  BY <1>3, <1>4, <1>5 DEF Content

\* The maps and their tables implement ordered maps (runtime/src/map.rs,
\* map_copy.rs): whatever is added, removed, compacted, grown or copied, also
\* inside loops, each map is a sequence of pairs in the order they were added.
THEOREM ImplementsOrdered == Spec => ImplementsOrderedMap
<1>1. Init => Ordered!Init
  <2> SUFFICES ASSUME Init  PROVE Content = [m \in Maps |-> <<>>]
    BY DEF Content, Ordered!Init
  <2>1. \A m \in Maps : map[m].entries = <<>>
    BY DEF Init, NewMap
  <2> QED
    BY <2>1, EmptyPairs DEF Content
<1>2. Inv /\ [Next]_vars => Ordered!Next \/ Content' = Content
  <2> SUFFICES ASSUME Inv, [Next]_vars  PROVE Ordered!Next \/ Content' = Content
    OBVIOUS
  <2>1. ASSUME NEW m \in Maps, NEW k \in Keys, NEW v \in Values, Set(m, k, v)
        PROVE  Ordered!Next \/ Content' = Content
    BY <2>1, SetOrdered DEF Ordered!Next
  <2>2. ASSUME NEW m \in Maps, NEW k \in Keys, Remove(m, k)  PROVE Ordered!Next
    BY <2>2, RemoveOrdered DEF Ordered!Next
  <2>3. ASSUME NEW m \in Maps, NEW n \in Maps, Assign(m, n)  PROVE Ordered!Next
    BY <2>3, AssignOrdered DEF Ordered!Next, Content
  <2>4. ASSUME NEW m \in Maps, Clear(m)  PROVE Ordered!Next
    BY <2>4, ClearOrdered DEF Ordered!Next
  <2>5. ASSUME NEW x \in DOMAIN loops, NEW v \in Values, SetItem(x, v)
        PROVE  Ordered!Next \/ Content' = Content
    BY <2>5, SetItemOrdered DEF Ordered!Next
  <2>6. CASE (\E m \in Maps : BeginLoop(m)) \/ EndLoop \/ Return
    BY <2>6, LoopOrdered
  <2>7. CASE Pass \/ EndBody \/ Over \/ UNCHANGED vars
    <3>1. UNCHANGED map
      BY <2>7 DEF Pass, EndBody, Over, vars
    <3> QED
      BY <3>1, LoopOrdered
  <2> QED
    BY <2>1, <2>2, <2>3, <2>4, <2>5, <2>6, <2>7 DEF Next
<1>3. Inv /\ [Next]_vars => [Ordered!Next]_Content
  BY <1>2
<1> QED
  BY <1>1, <1>3, InvAlways, PTL DEF Spec, Ordered!Spec, ImplementsOrderedMap, Content
-----------------------------------------------------------------------------
(* Loops that remove (RemoveLoop). *)

Slots  == 0..(Room - 1)
Lists  == [len : 0..Room, slots : [Slots -> Int]]
Frames == [i : Nat, end : Nat, kept : Nat, next : Nat, removed : BOOLEAN, inside : BOOLEAN, gone : BOOLEAN]

\* What a step of a loop works on: the lists, the loops, and whether no index failed.
Machines == [lists : [Removing!Names -> Lists], loops : Seq(Frames), ok : BOOLEAN]

\* The items that a list may hold: no two lists have one in common.
Owned(n) ==
    IF n = Removing!XS THEN 1..Room \cup Spare
    ELSE IF n = Removing!YS THEN {Removing!Item(Room + 1, k) : k \in 1..Room}
    ELSE IF n \in 1..Room THEN {Removing!Item(n, k) : k \in 1..Room}
    ELSE {}

Zeros(l)  == \A k \in Slots : k >= l.len => l.slots[k] = Removing!Gone
Unique(l) == \A j, k \in Slots : l.slots[j] = l.slots[k] /\ j # k => l.slots[j] = Removing!Gone

\* The lists that are reached when D was freed.
Shown(D) == {Removing!XS, Removing!YS} \cup ((1..Room \cup Spare) \ D)

\* Each item is in one place, and nobody reaches one that was freed.
Apart(L, D) ==
    /\ \A n \in Removing!Names : \A k \in Slots : L[n].slots[k] \in Owned(n) \cup {Removing!Gone}
    /\ \A n \in Removing!Names : Unique(L[n])
    /\ \A n \in Shown(D) : \A k \in Slots : L[n].slots[k] \notin D \ {Removing!Gone}
    /\ \A n \in {Removing!Gone} \cup Spare : L[n].len = 0

\* A list in its loop: what was kept at the front, zeros, and from s on what was not reached yet.
Packed(l, items, kept, s) ==
    /\ kept \in 0..s /\ s \in 0..l.len /\ Len(items) = kept + (l.len - s)
    /\ \A k \in Slots :
         /\ k < kept => l.slots[k] = items[k + 1]
         /\ kept <= k /\ k < s => l.slots[k] = Removing!Gone
         /\ s <= k /\ k < l.len => l.slots[k] = items[k - s + kept + 1]
         /\ l.len <= k => l.slots[k] = Removing!Gone

\* A list that no loop runs over.
Rests(l, items) == Packed(l, items, l.len, l.len)

\* Between two passes (top), in one (body), or at its end (kept).
Runs(l, items, f, mode) ==
    /\ f.end = l.len
    /\ mode \in {"top", "body"} => f.next = f.i
    /\ mode = "body" => f.i < f.end
    /\ mode = "kept" => f.next = f.i + 1
    /\ Packed(l, items, f.kept, IF mode = "body" /\ f.removed THEN f.i + 1 ELSE f.next)

\* The list of the inner loop.
InnerName(m) == IF m.loops[2].inside THEN m.lists[Removing!XS].slots[m.loops[1].i] ELSE Removing!YS
Looping(m)   == IF Len(m.loops) = 2 THEN {Removing!XS, InnerName(m)} ELSE {Removing!XS}

\* What a program that nobody disturbs does, when W is wanted and D was freed; the mode is
\* that of the innermost loop.
Keeps(m, W, D, mode) ==
    /\ m.ok
    /\ m.loops = <<>> => Rests(m.lists[Removing!XS], W[Removing!XS])
    /\ Len(m.loops) = 1 => Runs(m.lists[Removing!XS], W[Removing!XS], m.loops[1], mode)
    /\ Len(m.loops) = 2 => /\ Runs(m.lists[Removing!XS], W[Removing!XS], m.loops[1], "body")
                           /\ m.loops[2].inside => ~m.loops[1].removed
                           /\ Runs(m.lists[InnerName(m)], W[InnerName(m)], m.loops[2], mode)
    /\ \A n \in Shown(D) \ Looping(m) : Rests(m.lists[n], W[n])

\* Nobody wants an item twice, nor a zero.
Wanted(W) ==
    \A n \in Removing!Names :
        /\ \A j, k \in DOMAIN W[n] : W[n][j] = W[n][k] => j = k
        /\ \A k \in DOMAIN W[n] : W[n][k] # Removing!Gone

\* Whatever others do meanwhile.
Sound(m, D) ==
    /\ m \in Machines
    /\ Len(m.loops) <= 2 /\ (m.loops # <<>> => ~m.loops[1].inside)
    /\ Apart(m.lists, D)
    /\ m.loops # <<>> => Zeros(m.lists[Removing!XS])

RemovingType ==
    /\ stage \in {"idle", "top", "body", "left", "stopped"} /\ shared \in BOOLEAN
    /\ want \in [Removing!Names -> Seq(Int)] /\ dropped \subseteq Int
    /\ stage \in {"idle", "left"} => removing = <<>>
    /\ stage \in {"top", "body"} => removing # <<>>
    /\ stage = "idle" => ~shared /\ dropped = {}

\* The loops of a list that removes: what always holds, and what does for a
\* program that nobody disturbs.
RemovingInv ==
    /\ RemovingType
    /\ stage # "stopped" => Sound(Removing!Now, dropped)
    /\ stage = "stopped" => Apart(lists, dropped) /\ shared
    /\ ~shared => Wanted(want) /\ Keeps(Removing!Now, want, dropped, IF stage = "top" THEN "top" ELSE "body")

(* Names and items. *)

LEMMA Numbers == /\ Room \in Nat /\ Slots \subseteq Nat /\ Removing!Gone = 0 /\ Removing!XS = -1 /\ Removing!YS = -2
                 /\ \A n \in Spare : n \in Int /\ n < -2
                 /\ Removing!Names = {Removing!XS, Removing!YS, Removing!Gone} \cup 1..Room \cup Spare
                 /\ Removing!Names \subseteq Int
BY ProgramsAssumption DEF Slots, Removing!Gone, Removing!XS, Removing!YS, Removing!Names

LEMMA ItemIs ==
    ASSUME NEW b \in 1..(Room + 1), NEW c \in 1..(Room + 1), NEW j \in 1..Room, NEW k \in 1..Room
    PROVE  /\ Removing!Item(b, j) \in Int /\ Removing!Item(b, j) > Room
           /\ Removing!Item(b, j) = Removing!Item(c, k) => b = c /\ j = k
<1>1. Room \in Nat
  BY Numbers
<1>2. (Room + 1) * j \in Int /\ (Room + 1) * j >= Room + 1
  BY <1>1, SMTT(30)
<1>3. j < k => (Room + 1) * k >= (Room + 1) * j + (Room + 1)
  <2> SUFFICES ASSUME j < k  PROVE (Room + 1) * k >= (Room + 1) * j + (Room + 1)
    OBVIOUS
  <2>1. PICK d \in Nat : k = j + 1 + d
    <3>1. k - j - 1 \in Nat /\ k = j + 1 + (k - j - 1)
      OBVIOUS
    <3> QED
      BY <3>1
  <2>2. (Room + 1) * (j + 1 + d) = (Room + 1) * j + (Room + 1) + (Room + 1) * d
    BY <1>1
  <2>3. (Room + 1) * d >= 0
    BY <1>1
  <2> QED
    BY <1>1, <2>1, <2>2, <2>3, <1>2
<1>4. k < j => (Room + 1) * j >= (Room + 1) * k + (Room + 1)
  <2> SUFFICES ASSUME k < j  PROVE (Room + 1) * j >= (Room + 1) * k + (Room + 1)
    OBVIOUS
  <2>1. PICK d \in Nat : j = k + 1 + d
    <3>1. j - k - 1 \in Nat /\ j = k + 1 + (j - k - 1)
      OBVIOUS
    <3> QED
      BY <3>1
  <2>2. (Room + 1) * (k + 1 + d) = (Room + 1) * k + (Room + 1) + (Room + 1) * d
    BY <1>1
  <2>3. (Room + 1) * d >= 0 /\ (Room + 1) * k \in Int
    BY <1>1
  <2> QED
    BY <1>1, <2>1, <2>2, <2>3
<1>5. PICK p \in Int, q \in Int : p = (Room + 1) * j /\ q = (Room + 1) * k
  BY <1>1
<1>6. Removing!Item(b, j) = p + b /\ Removing!Item(c, k) = q + c
  BY <1>5 DEF Removing!Item
<1>7. (j < k => q >= p + Room + 1) /\ (k < j => p >= q + Room + 1) /\ p >= Room + 1
  BY <1>1, <1>2, <1>3, <1>4, <1>5
<1>8. j = k => p = q
  BY <1>5
<1> QED
  BY <1>1, <1>6, <1>7, <1>8

LEMMA OwnedIs ==
    /\ Owned(Removing!XS) = 1..Room \cup Spare
    /\ Owned(Removing!YS) = {Removing!Item(Room + 1, k) : k \in 1..Room}
    /\ \A n \in 1..Room : Owned(n) = {Removing!Item(n, k) : k \in 1..Room}
    /\ \A n \in {Removing!Gone} \cup Spare : Owned(n) = {}
<1>1. Removing!XS # Removing!YS /\ \A n \in 1..Room : n # Removing!XS /\ n # Removing!YS
  BY Numbers
<1>2. \A n \in {Removing!Gone} \cup Spare : n # Removing!XS /\ n # Removing!YS /\ n \notin 1..Room
  BY Numbers
<1> QED
  BY <1>1, <1>2 DEF Owned

LEMMA OwnedApart ==
    ASSUME NEW n \in Removing!Names, NEW b \in Owned(n)
    PROVE  /\ b \in Int /\ b # Removing!Gone
           /\ n # Removing!XS => b \notin Removing!Names
           /\ \A k \in Removing!Names : b \in Owned(k) => k = n
<1>1. CASE n = Removing!XS
  <2>1. b \in 1..Room \cup Spare
    BY <1>1, OwnedIs
  <2>2. ASSUME NEW c \in 1..(Room + 1), NEW j \in 1..Room  PROVE b # Removing!Item(c, j)
    BY <2>1, <2>2, ItemIs, Numbers
  <2>3. Room + 1 \in 1..(Room + 1) /\ 1..Room \subseteq 1..(Room + 1)
    BY Numbers
  <2>4. ASSUME NEW k \in Removing!Names, b \in Owned(k)  PROVE k = n
    BY <1>1, <2>2, <2>3, <2>4, OwnedIs, Numbers
  <2> QED
    BY <1>1, <2>1, <2>4, Numbers
<1>2. ASSUME NEW c \in 1..(Room + 1), NEW j \in 1..Room, b = Removing!Item(c, j), n = IF c = Room + 1 THEN Removing!YS ELSE c
      PROVE  /\ b \in Int /\ b # Removing!Gone /\ b \notin Removing!Names
             /\ \A k \in Removing!Names : b \in Owned(k) => k = n
  <2>1. b \in Int /\ b > Room /\ \A d \in 1..(Room + 1), k \in 1..Room : b = Removing!Item(d, k) => d = c
    BY <1>2, ItemIs
  <2>2. b # Removing!Gone /\ b \notin Removing!Names /\ b \notin 1..Room \cup Spare
    BY <2>1, Numbers
  <2>3. Room + 1 \in 1..(Room + 1) /\ \A k \in 1..Room : k \in 1..(Room + 1) /\ k # Room + 1
    BY Numbers
  <2>4. ASSUME NEW k \in Removing!Names, b \in Owned(k)  PROVE k = n
    <3>1. CASE k \in {Removing!XS, Removing!Gone} \cup Spare
      BY <2>2, <2>4, <3>1, OwnedIs
    <3>2. CASE k = Removing!YS
      BY <1>2, <2>1, <2>3, <2>4, <3>2, OwnedIs
    <3>3. CASE k \in 1..Room
      BY <1>2, <2>1, <2>3, <2>4, <3>3, OwnedIs
    <3> QED
      BY <3>1, <3>2, <3>3, Numbers
  <2> QED
    BY <2>1, <2>2, <2>4
<1>3. CASE n = Removing!YS
  <2>1. PICK j \in 1..Room : b = Removing!Item(Room + 1, j)
    BY <1>3, OwnedIs
  <2>2. Room + 1 \in 1..(Room + 1)
    BY Numbers
  <2> QED
    BY <1>2, <1>3, <2>1, <2>2
<1>4. CASE n \in 1..Room
  <2>1. PICK j \in 1..Room : b = Removing!Item(n, j)
    BY <1>4, OwnedIs
  <2>2. n \in 1..(Room + 1) /\ n # Room + 1
    BY <1>4, Numbers
  <2> QED
    BY <1>2, <2>1, <2>2
<1>5. CASE n \in {Removing!Gone} \cup Spare
  BY <1>5, OwnedIs
<1> QED
  BY <1>1, <1>3, <1>4, <1>5, Numbers

(* What is done to a list. *)

\* The items of a list are some of those of another, each once.
Shuffled(l2, l) ==
    /\ l2 \in Lists /\ Unique(l2)
    /\ \A k \in Slots : l2.slots[k] = Removing!Gone \/ \E j \in Slots : l2.slots[k] = l.slots[j]

MovedDown(l, i, kept) == [l EXCEPT !.slots = [@ EXCEPT ![i] = Removing!Gone, ![kept] = l.slots[i]]]
Emptied(l, i)     == [l EXCEPT !.slots[i] = Removing!Gone]

LEMMA CompactIs ==
    ASSUME NEW l \in Lists, Unique(l), NEW kept \in Nat, NEW next \in Nat
    PROVE  /\ Shuffled(Removing!Compact(l, kept, next), l)
           /\ l.len = 0 => Removing!Compact(l, kept, next).len = 0
           /\ kept <= next /\ next <= l.len =>
                /\ Removing!Compact(l, kept, next).len = kept + l.len - next
                /\ \A k \in Slots : Removing!Compact(l, kept, next).slots[k] =
                       IF kept <= k /\ k < kept + l.len - next THEN l.slots[k + next - kept]
                       ELSE IF kept + l.len - next <= k /\ k < l.len THEN Removing!Gone ELSE l.slots[k]
<1> DEFINE c == Removing!Compact(l, kept, next)
<1>1. l.len \in 0..Room /\ l.slots \in [Slots -> Int] /\ DOMAIN l.slots = Slots
  BY DEF Lists
<1>2. PICK from \in Nat : from = IF kept < next THEN kept ELSE next
  OBVIOUS
<1>3. PICK len \in Int : len = from + l.len - next
  BY <1>1, <1>2
<1>4. CASE next > l.len
  <2>1. c = [l EXCEPT !.len = IF kept < @ THEN kept ELSE @]
    BY <1>4 DEF Removing!Compact
  <2>2. c \in Lists /\ c.slots = l.slots /\ c.len = IF kept < l.len THEN kept ELSE l.len
    BY <1>1, <2>1, Numbers DEF Lists
  <2> HIDE DEF c
  <2> QED
    BY <1>1, <1>4, <2>2 DEF Shuffled, Unique, c
<1>5. CASE ~(next > l.len)
  <2>1. c = [len |-> len, slots |-> [k \in Slots |->
                               IF from <= k /\ k < len THEN l.slots[k + next - from]
                               ELSE IF len <= k /\ k < l.len THEN Removing!Gone ELSE l.slots[k]]]
    BY <1>1, <1>2, <1>3, <1>5 DEF Removing!Compact
  <2>2. from <= next /\ next <= l.len /\ len \in 0..l.len /\ l.len - len = next - from
    BY <1>1, <1>2, <1>3, <1>5
  <2>3. \A k \in Slots : from <= k /\ k < len => k + next - from \in Slots
    BY <1>1, <2>2, Numbers DEF Slots
  <2>4. /\ c.len = len
        /\ \A k \in Slots : c.slots[k] = IF from <= k /\ k < len THEN l.slots[k + next - from]
                                         ELSE IF len <= k /\ k < l.len THEN Removing!Gone ELSE l.slots[k]
    BY <2>1
  <2>5. c \in Lists
    <3>1. [k \in Slots |-> IF from <= k /\ k < len THEN l.slots[k + next - from]
                           ELSE IF len <= k /\ k < l.len THEN Removing!Gone ELSE l.slots[k]] \in [Slots -> Int]
      BY <1>1, <2>3, Numbers
    <3>2. len \in 0..Room
      BY <1>1, <2>2, Numbers
    <3> QED
      BY <2>1, <3>1, <3>2 DEF Lists
  <2> HIDE DEF c
  <2>6. Unique(c)
    <3> SUFFICES ASSUME NEW j \in Slots, NEW k \in Slots, c.slots[j] = c.slots[k], j # k, c.slots[j] # Removing!Gone
                 PROVE  FALSE
      BY DEF Unique
    <3> DEFINE p(x) == IF from <= x /\ x < len THEN x + next - from ELSE x
    <3>1. \A x \in Slots : c.slots[x] # Removing!Gone => c.slots[x] = l.slots[p(x)] /\ p(x) \in Slots /\ (len <= x => l.len <= x)
      BY <1>1, <2>2, <2>3, <2>4, Numbers
    <3>2. p(j) # p(k)
      BY <1>1, <2>2, <3>1, Numbers
    <3> HIDE DEF p
    <3> QED
      BY <3>1, <3>2 DEF Unique
  <2>7. \A k \in Slots : c.slots[k] = Removing!Gone \/ \E j \in Slots : c.slots[k] = l.slots[j]
    BY <2>3, <2>4
  <2>8. kept <= next => from = kept
    BY <1>2
  <2> QED
    BY <1>1, <1>3, <2>2, <2>4, <2>5, <2>6, <2>7, <2>8 DEF Shuffled, c
<1> QED
  BY <1>4, <1>5

LEMMA MovedIs ==
    ASSUME NEW l \in Lists, Unique(l), NEW i \in Slots, NEW kept \in Slots, i # kept
    PROVE  /\ Shuffled(MovedDown(l, i, kept), l)
           /\ MovedDown(l, i, kept).len = l.len
           /\ \A k \in Slots : MovedDown(l, i, kept).slots[k] =
                  IF k = kept THEN l.slots[i] ELSE IF k = i THEN Removing!Gone ELSE l.slots[k]
<1> DEFINE c == MovedDown(l, i, kept)
<1>1. l.slots \in [Slots -> Int]
  BY DEF Lists
<1>2. c \in Lists /\ c.len = l.len
  BY <1>1, Numbers DEF Lists, MovedDown
<1>3. \A k \in Slots : c.slots[k] = IF k = kept THEN l.slots[i] ELSE IF k = i THEN Removing!Gone ELSE l.slots[k]
  BY <1>1 DEF Lists, MovedDown
<1> HIDE DEF c
<1>4. Unique(c)
  BY <1>3 DEF Unique
<1> QED
  BY <1>2, <1>3, <1>4 DEF Shuffled, c

LEMMA EmptiedIs ==
    ASSUME NEW l \in Lists, Unique(l), NEW i \in Slots
    PROVE  /\ Shuffled(Emptied(l, i), l)
           /\ Emptied(l, i).len = l.len
           /\ \A k \in Slots : Emptied(l, i).slots[k] = IF k = i THEN Removing!Gone ELSE l.slots[k]
<1> DEFINE c == Emptied(l, i)
<1>1. l.slots \in [Slots -> Int]
  BY DEF Lists
<1>2. c \in Lists /\ c.len = l.len
  BY <1>1, Numbers DEF Lists, Emptied
<1>3. \A k \in Slots : c.slots[k] = IF k = i THEN Removing!Gone ELSE l.slots[k]
  BY <1>1 DEF Lists, Emptied
<1> HIDE DEF c
<1> QED
  BY <1>2, <1>3 DEF Shuffled, Unique, c

LEMMA TakeOutIs ==
    ASSUME NEW l \in Lists, Unique(l), Zeros(l), NEW i \in 0..(l.len - 1)
    PROVE  /\ Shuffled(Removing!TakeOut(l, i), l) /\ Zeros(Removing!TakeOut(l, i))
           /\ i \in Slots /\ \A k \in Slots : Removing!TakeOut(l, i).slots[k] = l.slots[i] => l.slots[i] = Removing!Gone
<1> DEFINE c == Removing!TakeOut(l, i)
           s == [k \in Slots |-> IF k = l.len - 1 THEN Removing!Gone
                                 ELSE IF i <= k /\ k < l.len THEN l.slots[k + 1] ELSE l.slots[k]]
<1>1. l.len \in 0..Room /\ l.slots \in [Slots -> Int] /\ DOMAIN l.slots = Slots
  BY DEF Lists
<1>2. \A k \in Slots : i <= k /\ k < l.len /\ k # l.len - 1 => k + 1 \in Slots
  <2>1. PICK n \in 0..Room : n = l.len
    BY <1>1
  <2>2. \A k \in Slots : k < n /\ k # n - 1 => k + 1 \in Slots
    BY Numbers DEF Slots
  <2> QED
    BY <2>1, <2>2
<1>3. s \in [Slots -> Int]
  BY <1>1, <1>2, Numbers
<1>4. c = [len |-> l.len - 1, slots |-> s] /\ l.len - 1 \in 0..Room
  BY <1>1, Numbers DEF Removing!TakeOut
<1>5. c \in Lists /\ c.len = l.len - 1
  BY <1>3, <1>4 DEF Lists
<1>6. \A k \in Slots : c.slots[k] = IF k = l.len - 1 THEN Removing!Gone
                                    ELSE IF i <= k /\ k < l.len THEN l.slots[k + 1] ELSE l.slots[k]
  BY <1>4
<1> HIDE DEF c, s
<1>7. i \in Slots
  BY <1>1, Numbers DEF Slots
<1> DEFINE p(x) == IF i <= x /\ x < l.len THEN x + 1 ELSE x
<1>8. \A x \in Slots : c.slots[x] # Removing!Gone => c.slots[x] = l.slots[p(x)] /\ p(x) \in Slots /\ p(x) # i /\ x # l.len - 1 /\ x < l.len
  <2> SUFFICES ASSUME NEW x \in Slots, c.slots[x] # Removing!Gone
               PROVE  c.slots[x] = l.slots[p(x)] /\ p(x) \in Slots /\ p(x) # i /\ x # l.len - 1 /\ x < l.len
    OBVIOUS
  <2>1. x \in Nat
    BY Numbers
  <2>2. CASE i <= x /\ x < l.len
    BY <1>1, <1>2, <1>6, <2>1, <2>2
  <2>3. CASE ~(i <= x /\ x < l.len)
    BY <1>1, <1>6, <2>1, <2>3 DEF Zeros
  <2> QED
    BY <2>2, <2>3
<1>9. \A j, k \in Slots : j # k /\ c.slots[j] # Removing!Gone /\ c.slots[k] # Removing!Gone => p(j) # p(k)
  BY <1>1, <1>8, Numbers
<1> HIDE DEF p
<1>10. Unique(c)
  BY <1>8, <1>9 DEF Unique
<1>11. Zeros(c)
  <2> SUFFICES ASSUME NEW x \in Slots, x >= c.len, c.slots[x] # Removing!Gone  PROVE FALSE
    BY DEF Zeros
  <2> QED
    BY <1>1, <1>5, <1>8, Numbers
<1>12. \A k \in Slots : c.slots[k] = l.slots[i] => l.slots[i] = Removing!Gone
  BY <1>7, <1>8 DEF Unique
<1> QED
  BY <1>5, <1>7, <1>8, <1>10, <1>11, <1>12 DEF Shuffled, c

LEMMA InsertIs ==
    ASSUME NEW l \in Lists, Unique(l), Zeros(l), l.len < Room, NEW i \in 0..l.len,
           NEW b \in Int, b \notin Removing!ToSet(Removing!Items(l)), b # Removing!Gone
    PROVE  /\ Removing!Insert(l, i, b) \in Lists /\ Unique(Removing!Insert(l, i, b)) /\ Zeros(Removing!Insert(l, i, b))
           /\ \A k \in Slots : \/ Removing!Insert(l, i, b).slots[k] \in {Removing!Gone, b}
                               \/ \E j \in Slots : Removing!Insert(l, i, b).slots[k] = l.slots[j]
<1> DEFINE c == Removing!Insert(l, i, b)
           s == [k \in Slots |-> IF k = i THEN b ELSE IF i < k /\ k <= l.len THEN l.slots[k - 1] ELSE l.slots[k]]
<1>1. l.len \in 0..Room /\ l.slots \in [Slots -> Int] /\ DOMAIN l.slots = Slots
  BY DEF Lists
<1>2. \A k \in Slots : i < k => k - 1 \in Slots
  BY <1>1, Numbers DEF Slots
<1>3. s \in [Slots -> Int]
  BY <1>1, <1>2, Numbers
<1>4. c = [len |-> l.len + 1, slots |-> s] /\ l.len + 1 \in 0..Room
  BY <1>1, Numbers DEF Removing!Insert
<1>5. c \in Lists /\ c.len = l.len + 1
  BY <1>3, <1>4 DEF Lists
<1>6. \A k \in Slots : c.slots[k] = IF k = i THEN b ELSE IF i < k /\ k <= l.len THEN l.slots[k - 1] ELSE l.slots[k]
  BY <1>4
<1>7. \A k \in Slots : l.slots[k] # b
  <2> SUFFICES ASSUME NEW k \in Slots, l.slots[k] = b  PROVE FALSE
    OBVIOUS
  <2>1. k < l.len /\ k \in Nat
    BY <1>1, Numbers DEF Zeros
  <2>2. k + 1 \in 1..l.len /\ Removing!Items(l)[k + 1] = l.slots[k]
    BY <1>1, <2>1 DEF Removing!Items
  <2> QED
    BY <2>2 DEF Removing!ToSet, Removing!Items
<1> HIDE DEF c, s
<1> DEFINE p(x) == IF i < x /\ x <= l.len THEN x - 1 ELSE x
<1>8. \A x \in Slots : x # i => c.slots[x] = l.slots[p(x)] /\ p(x) \in Slots
  BY <1>1, <1>2, <1>6, Numbers
<1>9. \A j, k \in Slots : j # i /\ k # i /\ j # k /\ (j = l.len + 1 => FALSE) /\ l.slots[p(j)] # Removing!Gone /\ l.slots[p(k)] # Removing!Gone => p(j) # p(k)
  <2> SUFFICES ASSUME NEW j \in Slots, NEW k \in Slots, j # i, k # i, j # k, l.slots[p(j)] # Removing!Gone, l.slots[p(k)] # Removing!Gone
               PROVE  p(j) # p(k)
    OBVIOUS
  <2>1. p(j) < l.len /\ p(k) < l.len /\ j \in Nat /\ k \in Nat
    BY <1>1, <1>8, Numbers DEF Zeros
  <2> QED
    BY <1>1, <2>1
<1>10. \A j \in Slots : j = l.len + 1 => c.slots[j] = Removing!Gone
  BY <1>1, <1>6, Numbers DEF Zeros
<1> HIDE DEF p
<1>11. Unique(c)
  <2> SUFFICES ASSUME NEW j \in Slots, NEW k \in Slots, c.slots[j] = c.slots[k], j # k, c.slots[j] # Removing!Gone
               PROVE  FALSE
    BY DEF Unique
  <2>1. CASE j = i \/ k = i
    BY <1>6, <1>7, <1>8, <2>1
  <2>2. CASE j # i /\ k # i
    BY <1>8, <1>9, <1>10, <2>2 DEF Unique
  <2> QED
    BY <2>1, <2>2
<1>12. Zeros(c)
  BY <1>1, <1>5, <1>6, Numbers DEF Zeros
<1> QED
  BY <1>5, <1>6, <1>8, <1>11, <1>12 DEF c

LEMMA ClearIs ==
    ASSUME NEW l \in Lists, Unique(l), Zeros(l)
    PROVE  /\ Shuffled(Removing!Clear(l), l) /\ Zeros(Removing!Clear(l))
           /\ \A k \in Slots : Removing!Clear(l).slots[k] = Removing!Gone
<1> DEFINE c == Removing!Clear(l)
           s == [k \in Slots |-> IF k < l.len THEN Removing!Gone ELSE l.slots[k]]
<1>1. l.len \in 0..Room /\ l.slots \in [Slots -> Int] /\ DOMAIN l.slots = Slots
  BY DEF Lists
<1>2. c = [len |-> 0, slots |-> s] /\ s \in [Slots -> Int]
  BY <1>1, Numbers DEF Removing!Clear
<1>3. c \in Lists
  BY <1>2, Numbers DEF Lists
<1>4. \A k \in Slots : c.slots[k] = Removing!Gone
  BY <1>1, <1>2, Numbers DEF Zeros
<1> HIDE DEF c, s
<1> QED
  BY <1>3, <1>4 DEF Shuffled, Unique, Zeros, c

(* Each item in one place. *)

LEMMA ApartOne ==
    ASSUME NEW L \in [Removing!Names -> Lists], NEW D, Apart(L, D), NEW n \in Removing!Names, NEW l2,
           Shuffled(l2, L[n]), n \in {Removing!Gone} \cup Spare => l2.len = 0
    PROVE  Apart([L EXCEPT ![n] = l2], D)
<1> DEFINE M == [L EXCEPT ![n] = l2]
<1>1. \A k \in Removing!Names : M[k] = IF k = n THEN l2 ELSE L[k]
  OBVIOUS
<1> HIDE DEF M
<1>2. \A k \in Removing!Names : \A j \in Slots : M[k].slots[j] = Removing!Gone \/ \E x \in Slots : M[k].slots[j] = L[k].slots[x]
  BY <1>1 DEF Shuffled
<1>3. \A k \in Removing!Names : Unique(M[k])
  BY <1>1 DEF Shuffled, Apart
<1>4. \A k \in Removing!Names : \A j \in Slots : M[k].slots[j] \in Owned(k) \cup {Removing!Gone}
  BY <1>2 DEF Apart
<1>5. \A k \in Shown(D) : \A j \in Slots : M[k].slots[j] \notin D \ {Removing!Gone}
  <2>1. Shown(D) \subseteq Removing!Names
    BY Numbers DEF Shown
  <2> QED
    BY <1>2, <2>1 DEF Apart
<1>6. \A k \in {Removing!Gone} \cup Spare : M[k].len = 0
  <2>1. {Removing!Gone} \cup Spare \subseteq Removing!Names
    BY Numbers
  <2> QED
    BY <1>1, <2>1 DEF Apart
<1> QED
  BY <1>3, <1>4, <1>5, <1>6 DEF Apart, M

\* What is freed with the items F, from the lists L.
Freed(F, L) == (F \ {Removing!Gone}) \cup UNION {Removing!ToSet(Removing!Items(L[b])) : b \in (F \ {Removing!Gone}) \cap Removing!Names}

LEMMA ApartDropped ==
    ASSUME NEW L \in [Removing!Names -> Lists], NEW D, Apart(L, D), NEW n \in Removing!Names, NEW l2,
           Shuffled(l2, L[n]), n \in {Removing!Gone} \cup Spare => l2.len = 0,
           NEW F, F \subseteq Owned(n) \cup {Removing!Gone},
           \A b \in F \ {Removing!Gone} : \A k \in Slots : l2.slots[k] # b
    PROVE  Apart([L EXCEPT ![n] = l2], D \cup Freed(F, L))
<1> DEFINE M == [L EXCEPT ![n] = l2]
           E == D \cup Freed(F, L)
<1>1. Apart(M, D) /\ \A k \in Removing!Names : M[k] = IF k = n THEN l2 ELSE L[k]
  BY ApartOne
<1> HIDE DEF M
<1>2. Shown(E) \subseteq Shown(D) /\ Shown(E) \subseteq Removing!Names /\ \A b \in F \ {Removing!Gone} : b \notin Shown(E) \/ b \in {Removing!XS, Removing!YS}
  BY Numbers DEF Shown, Freed
<1>3. ASSUME NEW k \in Shown(E), NEW j \in Slots, M[k].slots[j] \in Freed(F, L), M[k].slots[j] # Removing!Gone
      PROVE  FALSE
  <2>1. PICK v : v = M[k].slots[j]
    OBVIOUS
  <2>2. v \in Owned(k) /\ k \in Removing!Names /\ v # Removing!Gone
    BY <1>1, <1>2, <1>3, <2>1 DEF Apart
  <2>3. CASE v \in F \ {Removing!Gone}
    <3>1. v \in Owned(n)
      BY <2>3
    <3>2. k = n
      BY <2>2, <3>1, OwnedApart
    <3> QED
      BY <1>1, <2>1, <2>3, <3>2
  <2>4. ASSUME NEW b \in (F \ {Removing!Gone}) \cap Removing!Names, v \in Removing!ToSet(Removing!Items(L[b]))  PROVE FALSE
    <3>1. L[b] \in Lists
      BY <2>4
    <3>2. PICK x \in 1..L[b].len : v = L[b].slots[x - 1]
      BY <2>4 DEF Removing!ToSet, Removing!Items
    <3>3. x - 1 \in Slots
      BY <3>1, <3>2, Numbers DEF Lists, Slots
    <3>4. v \in Owned(b)
      BY <2>2, <2>4, <3>2, <3>3 DEF Apart
    <3>5. k = b
      BY <2>2, <2>4, <3>4, OwnedApart
    <3>6. b \in Owned(n) /\ b \in Removing!Names
      BY <2>4
    <3>7. n = Removing!XS
      BY <3>6, OwnedApart
    <3>8. b \in 1..Room \cup Spare
      BY <3>6, <3>7, OwnedIs
    <3>9. b \notin {Removing!XS, Removing!YS}
      BY <3>8, Numbers
    <3> QED
      BY <1>2, <2>4, <3>5, <3>9
  <2> QED
    BY <1>3, <2>1, <2>2, <2>3, <2>4 DEF Freed
<1>4. \A k \in Shown(E) : \A j \in Slots : M[k].slots[j] \notin E \ {Removing!Gone}
  BY <1>1, <1>2, <1>3 DEF Apart
<1> QED
  BY <1>1, <1>4 DEF Apart, M

(* A list in its loop. *)

LEMMA CompactPacked ==
    ASSUME NEW l \in Lists, Unique(l), NEW items \in Seq(Int), NEW kept \in Nat, NEW next \in Nat,
           Packed(l, items, kept, next)
    PROVE  Rests(Removing!Compact(l, kept, next), items)
<1>1. kept \in 0..next /\ next \in 0..l.len /\ Len(items) = kept + (l.len - next) /\ l.len \in Nat
  BY DEF Packed, Lists
<1>2. PICK c : c = Removing!Compact(l, kept, next)
  OBVIOUS
<1>3. PICK len \in Nat : len = kept + l.len - next
  BY <1>1
<1>4. /\ c.len = len
      /\ \A k \in Slots : c.slots[k] = IF kept <= k /\ k < len THEN l.slots[k + next - kept]
                                       ELSE IF len <= k /\ k < l.len THEN Removing!Gone ELSE l.slots[k]
  BY <1>1, <1>2, <1>3, CompactIs
<1>5. len <= l.len /\ Len(items) = len /\ kept <= len
  BY <1>1, <1>3
<1>6. ASSUME NEW k \in Slots
      PROVE  (k < len => c.slots[k] = items[k + 1]) /\ (len <= k => c.slots[k] = Removing!Gone)
  <2>1. k \in Nat
    BY Numbers
  <2>2. CASE k < kept
    <3>1. l.slots[k] = items[k + 1]
      BY <2>2 DEF Packed
    <3>2. k < len /\ k < l.len /\ ~(kept <= k) /\ ~(len <= k)
      BY <1>1, <1>5, <2>1, <2>2
    <3> QED
      BY <1>4, <3>1, <3>2
  <2>3. CASE kept <= k /\ k < len
    <3>1. PICK j \in Int : j = k + next - kept
      BY <1>1, <2>1
    <3>2. j \in Slots /\ next <= j /\ j < l.len /\ j - next + kept + 1 = k + 1
      BY <1>1, <1>3, <2>1, <2>3, <3>1, Numbers DEF Slots, Lists
    <3>3. l.slots[j] = items[k + 1]
      BY <1>1, <3>2 DEF Packed
    <3> QED
      BY <1>1, <1>3, <1>4, <2>1, <2>3, <3>1, <3>3
  <2>4. CASE len <= k
    BY <1>1, <1>4, <1>5, <2>1, <2>4 DEF Packed
  <2> QED
    BY <1>1, <1>5, <2>1, <2>2, <2>3, <2>4
<1>7. len \in 0..len
  BY <1>3
<1> QED
  BY <1>2, <1>3, <1>4, <1>5, <1>6, <1>7, Numbers DEF Rests, Packed

LEMMA MovedPacked ==
    ASSUME NEW l \in Lists, Unique(l), NEW items \in Seq(Int), NEW kept \in Nat, NEW i \in Nat,
           Packed(l, items, kept, i), i < l.len
    PROVE  /\ kept = i => Packed(l, items, kept + 1, i + 1)
           /\ kept # i => /\ i \in Slots /\ kept \in Slots /\ i < l.len /\ kept < l.len
                          /\ Packed(MovedDown(l, i, kept), items, kept + 1, i + 1)
<1>1. kept \in 0..i /\ Len(items) = kept + (l.len - i) /\ l.len \in 0..Room
  BY DEF Packed, Lists
<1>2. i \in Slots /\ kept \in Slots /\ kept <= i /\ kept < l.len
  BY <1>1, Numbers DEF Slots
<1>3. l.slots[i] = items[kept + 1]
  <2>1. l.slots[i] = items[i - i + kept + 1] /\ i - i + kept + 1 = kept + 1
    BY <1>2 DEF Packed
  <2> QED
    BY <2>1
<1>4. kept + 1 \in 0..(i + 1) /\ i + 1 \in 0..l.len /\ Len(items) = kept + 1 + (l.len - (i + 1))
  BY <1>1
<1>5. ASSUME NEW k \in Slots
      PROVE  /\ k < kept => l.slots[k] = items[k + 1]
             /\ kept <= k /\ k < i => l.slots[k] = Removing!Gone
             /\ i + 1 <= k /\ k < l.len => l.slots[k] = items[k - (i + 1) + (kept + 1) + 1]
             /\ l.len <= k => l.slots[k] = Removing!Gone
  <2>1. k \in Nat /\ k - (i + 1) + (kept + 1) + 1 = k - i + kept + 1
    BY Numbers
  <2> QED
    BY <1>1, <2>1 DEF Packed
<1>6. CASE kept = i
  <2>1. ASSUME NEW k \in Slots
        PROVE  /\ k < kept + 1 => l.slots[k] = items[k + 1]
               /\ kept + 1 <= k /\ k < i + 1 => l.slots[k] = Removing!Gone
    BY <1>3, <1>5, <1>6, Numbers
  <2> QED
    BY <1>4, <1>5, <1>6, <2>1 DEF Packed
<1>7. CASE kept # i
  <2>1. PICK c : c = MovedDown(l, i, kept)
    OBVIOUS
  <2>2. /\ c.len = l.len
        /\ \A k \in Slots : c.slots[k] = IF k = kept THEN l.slots[i] ELSE IF k = i THEN Removing!Gone ELSE l.slots[k]
    BY <1>2, <1>7, <2>1, MovedIs
  <2>3. ASSUME NEW k \in Slots
        PROVE  /\ k < kept + 1 => c.slots[k] = items[k + 1]
               /\ kept + 1 <= k /\ k < i + 1 => c.slots[k] = Removing!Gone
               /\ i + 1 <= k /\ k < l.len => c.slots[k] = items[k - (i + 1) + (kept + 1) + 1]
               /\ l.len <= k => c.slots[k] = Removing!Gone
    <3>1. k \in Nat
      BY Numbers
    <3>2. CASE k = kept
      BY <1>1, <1>2, <1>3, <1>7, <2>2, <3>2
    <3>3. CASE k = i
      BY <1>1, <1>2, <1>7, <2>2, <3>3
    <3>4. CASE k # kept /\ k # i
      BY <1>1, <1>2, <1>5, <2>2, <3>1, <3>4
    <3> QED
      BY <3>2, <3>3, <3>4
  <2> QED
    BY <1>2, <1>4, <1>7, <2>1, <2>2, <2>3 DEF Packed
<1> QED
  BY <1>6, <1>7

LEMMA WithoutIs ==
    ASSUME NEW items \in Seq(Int), NEW j \in 1..Len(items), \A x, y \in DOMAIN items : items[x] = items[y] => x = y
    PROVE  /\ Removing!Without(items, items[j]) \in Seq(Int)
           /\ Len(Removing!Without(items, items[j])) = Len(items) - 1
           /\ \A k \in 1..(Len(items) - 1) : Removing!Without(items, items[j])[k] = IF k < j THEN items[k] ELSE items[k + 1]
<1>1. items[j] \in Removing!ToSet(items) /\ (CHOOSE k \in DOMAIN items : items[k] = items[j]) = j
  BY DEF Removing!ToSet
<1>2. Removing!Without(items, items[j]) = SubSeq(items, 1, j - 1) \o SubSeq(items, j + 1, Len(items))
  BY <1>1 DEF Removing!Without, Removing!RemoveAt
<1>3. PICK a \in Seq(Int), b \in Seq(Int) : a = SubSeq(items, 1, j - 1) /\ b = SubSeq(items, j + 1, Len(items))
  <2>1. \A k \in 1..(j - 1) : items[k] \in Int
    OBVIOUS
  <2>2. \A k \in (j + 1)..Len(items) : items[k] \in Int
    OBVIOUS
  <2>3. SubSeq(items, 1, j - 1) \in Seq(Int) /\ SubSeq(items, j + 1, Len(items)) \in Seq(Int)
    BY <2>1, <2>2, SubSeqProperties
  <2> QED
    BY <2>3
<1>4. Len(a) = j - 1 /\ \A k \in 1..(j - 1) : a[k] = items[k]
  BY <1>3
<1>5. Len(b) = Len(items) - j /\ \A k \in 1..(Len(items) - j) : b[k] = items[j + k]
  BY <1>3
<1>6. /\ a \o b \in Seq(Int) /\ Len(a \o b) = Len(items) - 1
      /\ \A k \in 1..(Len(items) - 1) : (a \o b)[k] = IF k <= j - 1 THEN a[k] ELSE b[k - (j - 1)]
  <2>1. Len(a) + Len(b) = Len(items) - 1
    BY <1>4, <1>5
  <2>2. a \o b \in Seq(Int) /\ Len(a \o b) = Len(a) + Len(b)
    BY ConcatProperties
  <2>3. \A k \in 1..(Len(a) + Len(b)) : (a \o b)[k] = IF k <= Len(a) THEN a[k] ELSE b[k - Len(a)]
    BY ConcatProperties
  <2> QED
    BY <1>4, <2>1, <2>2, <2>3
<1>7. ASSUME NEW k \in 1..(Len(items) - 1)
      PROVE  (a \o b)[k] = IF k < j THEN items[k] ELSE items[k + 1]
  <2>1. CASE k < j
    BY <1>4, <1>6, <2>1
  <2>2. CASE k >= j
    <3>1. PICK x \in Int : x = k - (j - 1)
      OBVIOUS
    <3>2. x \in 1..(Len(items) - j) /\ j + x = k + 1
      BY <2>2, <3>1
    <3> QED
      <4>1. b[x] = items[j + x] /\ ~(k < j) /\ ~(k <= j - 1)
        BY <1>5, <2>2, <3>2
      <4>2. (a \o b)[k] = b[x]
        BY <1>6, <3>1, <4>1
      <4> QED
        BY <3>2, <4>1, <4>2
  <2>3. k < j \/ k >= j
    OBVIOUS
  <2> QED
    BY <2>1, <2>2, <2>3
<1> QED
  BY <1>2, <1>3, <1>6, <1>7

LEMMA WithoutTyped ==
    ASSUME NEW items \in Seq(Int), NEW b
    PROVE  Removing!Without(items, b) \in Seq(Int)
<1>1. CASE b \notin Removing!ToSet(items)
  BY <1>1 DEF Removing!Without
<1>2. CASE b \in Removing!ToSet(items)
  <2>1. PICK k : k = CHOOSE j \in DOMAIN items : items[j] = b
    OBVIOUS
  <2>2. k \in 1..Len(items)
    <3>1. DOMAIN items = 1..Len(items)
      BY LenProperties
    <3> QED
      BY <1>2, <2>1, <3>1 DEF Removing!ToSet
  <2>3. Removing!Without(items, b) = SubSeq(items, 1, k - 1) \o SubSeq(items, k + 1, Len(items))
    BY <1>2, <2>1 DEF Removing!Without, Removing!RemoveAt
  <2>4. \A j \in 1..(k - 1) : items[j] \in Int
    BY <2>2
  <2>5. \A j \in (k + 1)..Len(items) : items[j] \in Int
    BY <2>2
  <2>6. SubSeq(items, 1, k - 1) \in Seq(Int) /\ SubSeq(items, k + 1, Len(items)) \in Seq(Int)
    BY <2>2, <2>4, <2>5, SubSeqProperties
  <2> QED
    BY <2>3, <2>6, ConcatProperties
<1> QED
  BY <1>1, <1>2

\* Of a list whose item in slot i is removed, items w are wanted.
EmptiedTo(l, items, kept, i, w) ==
    /\ i \in Slots /\ l.slots[i] \in Removing!ToSet(items)
    /\ w \in Seq(Int)
    /\ \A x, y \in DOMAIN w : w[x] = w[y] => x = y
    /\ \A x \in DOMAIN w : w[x] \in Removing!ToSet(items)
    /\ Packed(Emptied(l, i), w, kept, i + 1)

LEMMA EmptiedPacked ==
    ASSUME NEW l \in Lists, Unique(l), NEW items \in Seq(Int), NEW kept \in Nat, NEW i \in Nat,
           Packed(l, items, kept, i), i < l.len, \A x, y \in DOMAIN items : items[x] = items[y] => x = y
    PROVE  EmptiedTo(l, items, kept, i, Removing!Without(items, l.slots[i]))
<1>1. kept \in 0..i /\ Len(items) = kept + (l.len - i) /\ l.len \in 0..Room
  BY DEF Packed, Lists
<1>2. i \in Slots /\ kept \in Slots /\ kept <= i /\ kept < l.len /\ kept + 1 \in 1..Len(items)
  BY <1>1, Numbers DEF Slots
<1>3. l.slots[i] = items[kept + 1]
  <2>1. l.slots[i] = items[i - i + kept + 1] /\ i - i + kept + 1 = kept + 1
    BY <1>2 DEF Packed
  <2> QED
    BY <2>1
<1>4. PICK w : w = Removing!Without(items, l.slots[i])
  OBVIOUS
<1>5. PICK p \in 1..Len(items) : p = kept + 1
  BY <1>2
<1>6. /\ w \in Seq(Int) /\ Len(w) = Len(items) - 1 /\ DOMAIN w = 1..(Len(items) - 1) /\ DOMAIN items = 1..Len(items)
      /\ \A k \in 1..(Len(items) - 1) : w[k] = IF k < p THEN items[k] ELSE items[k + 1]
  <2>1. w = Removing!Without(items, items[p])
    BY <1>3, <1>4, <1>5
  <2>2. /\ w \in Seq(Int) /\ Len(w) = Len(items) - 1
        /\ \A k \in 1..(Len(items) - 1) : w[k] = IF k < p THEN items[k] ELSE items[k + 1]
    BY <2>1, WithoutIs
  <2>3. DOMAIN w = 1..Len(w) /\ DOMAIN items = 1..Len(items)
    BY <2>2, LenProperties
  <2> QED
    BY <2>2, <2>3
<1>7. PICK c : c = Emptied(l, i)
  OBVIOUS
<1>8. c.len = l.len /\ \A k \in Slots : c.slots[k] = IF k = i THEN Removing!Gone ELSE l.slots[k]
  BY <1>2, <1>7, EmptiedIs
<1>9. ASSUME NEW k \in Slots
      PROVE  /\ k < kept => c.slots[k] = w[k + 1]
             /\ kept <= k /\ k < i + 1 => c.slots[k] = Removing!Gone
             /\ i + 1 <= k /\ k < l.len => c.slots[k] = w[k - (i + 1) + kept + 1]
             /\ l.len <= k => c.slots[k] = Removing!Gone
  <2>1. k \in Nat
    BY Numbers
  <2>2. CASE k < kept
    <3>1. k + 1 \in 1..(Len(items) - 1) /\ k + 1 < p /\ k # i
      BY <1>1, <1>5, <2>1, <2>2
    <3>2. l.slots[k] = items[k + 1] /\ w[k + 1] = items[k + 1]
      BY <1>6, <2>2, <3>1 DEF Packed
    <3> QED
      BY <1>1, <1>8, <2>1, <2>2, <3>1, <3>2
  <2>3. CASE kept <= k /\ k < i + 1
    <3>1. c.slots[k] = Removing!Gone
      BY <1>8, <2>1, <2>3 DEF Packed
    <3> QED
      BY <1>1, <2>1, <2>3, <3>1
  <2>4. CASE i + 1 <= k /\ k < l.len
    <3>1. PICK x \in Int : x = k - (i + 1) + kept + 1
      BY <2>1
    <3>2. x \in 1..(Len(items) - 1) /\ ~(x < p) /\ x + 1 = k - i + kept + 1 /\ k # i /\ i <= k
      BY <1>1, <1>5, <2>1, <2>4, <3>1
    <3>3. l.slots[k] = items[k - i + kept + 1]
      BY <2>4, <3>2 DEF Packed
    <3>4. w[x] = items[x + 1]
      BY <1>6, <3>2
    <3>5. c.slots[k] = w[k - (i + 1) + kept + 1]
      BY <1>8, <3>1, <3>2, <3>3, <3>4
    <3>6. ~(k < kept) /\ ~(k < i + 1) /\ ~(l.len <= k)
      BY <1>1, <2>1, <2>4
    <3> QED
      BY <3>5, <3>6
  <2>5. CASE l.len <= k
    <3>1. l.slots[k] = Removing!Gone
      BY <2>5 DEF Packed
    <3>2. ~(k < kept) /\ ~(k < l.len)
      BY <1>1, <2>1, <2>5
    <3> QED
      BY <1>8, <3>1, <3>2
  <2> QED
    BY <1>1, <2>1, <2>2, <2>3, <2>4, <2>5
<1>10. kept \in 0..(i + 1) /\ i + 1 \in 0..l.len /\ Len(w) = kept + (l.len - (i + 1))
  <2>1. PICK a \in Int, b \in Nat : a = Len(items) /\ b = l.len
    BY <1>1
  <2>2. kept \in 0..(i + 1) /\ i + 1 \in 0..b /\ a - 1 = kept + (b - (i + 1))
    BY <1>1, <2>1
  <2> QED
    BY <1>6, <2>1, <2>2
<1>11. Packed(c, w, kept, i + 1)
  BY <1>8, <1>9, <1>10 DEF Packed
<1>12. \A x, y \in DOMAIN w : w[x] = w[y] => x = y
  <2> SUFFICES ASSUME NEW x \in 1..(Len(items) - 1), NEW y \in 1..(Len(items) - 1), w[x] = w[y]  PROVE x = y
    BY <1>6
  <2> DEFINE q(z) == IF z < p THEN z ELSE z + 1
  <2>1. q(x) \in 1..Len(items) /\ q(y) \in 1..Len(items)
    OBVIOUS
  <2>3. w[x] = items[q(x)] /\ w[y] = items[q(y)]
    BY <1>6
  <2>2. q(x) = q(y)
    <3> HIDE DEF q
    <3> QED
      BY <1>6, <2>1, <2>3
  <2> QED
    BY <2>2
<1>13. \A x \in DOMAIN w : w[x] \in Removing!ToSet(items)
  <2> SUFFICES ASSUME NEW x \in 1..(Len(items) - 1)  PROVE w[x] \in Removing!ToSet(items)
    BY <1>6
  <2> DEFINE z == IF x < p THEN x ELSE x + 1
  <2>3. z \in 1..Len(items)
    OBVIOUS
  <2>2. z \in 1..Len(items) /\ w[x] = items[z]
    BY <1>6, <2>3
  <2>1. PICK y \in 1..Len(items) : w[x] = items[y]
    BY <2>2
  <2> QED
    BY <1>6, <2>1 DEF Removing!ToSet
<1>14. l.slots[i] \in Removing!ToSet(items)
  BY <1>2, <1>3 DEF Removing!ToSet
<1> QED
  BY <1>2, <1>4, <1>6, <1>7, <1>11, <1>12, <1>13, <1>14 DEF EmptiedTo

LEMMA RestsBegins ==
    ASSUME NEW l \in Lists, NEW items, Rests(l, items)
    PROVE  Packed(l, items, 0, 0)
<1>1. l.len \in Nat
  BY DEF Lists
<1>2. \A k \in Slots : k \in Nat /\ k - 0 + 0 + 1 = k + 1
  BY Numbers
<1> QED
  BY <1>1, <1>2 DEF Rests, Packed

LEMMA RestsWhole ==
    ASSUME NEW l \in Lists, NEW items \in Seq(Int), Rests(l, items)
    PROVE  Removing!Items(l) = items /\ \A k \in DOMAIN l.slots : k >= l.len => l.slots[k] = Removing!Gone
<1>1. l.len \in 0..Room /\ DOMAIN l.slots = Slots /\ Len(items) = l.len
  BY DEF Lists, Rests, Packed
<1>2. \A k \in 1..l.len : l.slots[k - 1] = items[k]
  <2> SUFFICES ASSUME NEW k \in 1..l.len  PROVE l.slots[k - 1] = items[k]
    OBVIOUS
  <2>1. k - 1 \in Slots /\ k - 1 < l.len /\ (k - 1) + 1 = k
    BY <1>1, Numbers DEF Slots
  <2> QED
    BY <2>1 DEF Rests, Packed
<1>3. Removing!Items(l) = items
  BY <1>1, <1>2 DEF Removing!Items
<1>4. \A k \in Slots : k >= l.len => l.slots[k] = Removing!Gone
  BY <1>1, Numbers DEF Rests, Packed
<1> QED
  BY <1>1, <1>3, <1>4

(* The loops of a machine. *)

LEMMA LoopsAre ==
    ASSUME NEW m, NEW D, Sound(m, D), m.loops # <<>>
    PROVE  /\ m.lists \in [Removing!Names -> Lists] /\ m.loops \in Seq(Frames) /\ m.ok \in BOOLEAN
           /\ Len(m.loops) \in {1, 2} /\ DOMAIN m.loops = 1..Len(m.loops)
           /\ \A k \in 1..Len(m.loops) : m.loops[k] \in Frames
           /\ ~m.loops[1].inside
           /\ Apart(m.lists, D) /\ Zeros(m.lists[Removing!XS])
           /\ m = [lists |-> m.lists, loops |-> m.loops, ok |-> m.ok]
<1>1. m.lists \in [Removing!Names -> Lists] /\ m.loops \in Seq(Frames) /\ m.ok \in BOOLEAN
  BY DEF Sound, Machines
<1>2. m = [lists |-> m.lists, loops |-> m.loops, ok |-> m.ok]
  BY DEF Sound, Machines
<1>3. PICK ls \in Seq(Frames) : ls = m.loops
  BY <1>1
<1>4. Len(ls) \in Nat /\ Len(ls) # 0 /\ DOMAIN ls = 1..Len(ls) /\ \A k \in 1..Len(ls) : ls[k] \in Frames
  BY <1>3, LenProperties, EmptySeq, ElementOfSeq
<1>5. Len(ls) <= 2
  BY <1>3 DEF Sound
<1>6. Len(m.loops) \in {1, 2} /\ DOMAIN m.loops = 1..Len(m.loops) /\ \A k \in 1..Len(m.loops) : m.loops[k] \in Frames
  <2>1. PICK n \in Nat : n = Len(ls)
    BY <1>4
  <2>2. n = 1 \/ n = 2
    BY <1>4, <1>5, <2>1
  <2> QED
    BY <1>3, <1>4, <2>1, <2>2
<1>7. ~m.loops[1].inside /\ Apart(m.lists, D) /\ Zeros(m.lists[Removing!XS])
  BY DEF Sound
<1> QED
  BY <1>1, <1>2, <1>6, <1>7

LEMMA NameIs ==
    ASSUME NEW m, NEW D, Sound(m, D), m.loops # <<>>, Removing!Found(m)
    PROVE  /\ Removing!Name(m) \in Removing!Names
           /\ Len(m.loops) = 1 => Removing!Name(m) = Removing!XS
           /\ Len(m.loops) = 2 => Removing!Name(m) = InnerName(m) /\ Removing!Name(m) # Removing!XS
<1>1. /\ m.lists \in [Removing!Names -> Lists] /\ Len(m.loops) \in {1, 2}
      /\ ~m.loops[1].inside /\ Apart(m.lists, D)
  BY LoopsAre
<1>2. CASE Len(m.loops) = 1
  BY <1>1, <1>2, Numbers DEF Removing!Name
<1>3. CASE Len(m.loops) = 2 /\ ~m.loops[2].inside
  BY <1>1, <1>3, Numbers DEF Removing!Name, InnerName
<1>4. CASE Len(m.loops) = 2 /\ m.loops[2].inside
  <2>1. Removing!Name(m) = m.lists[Removing!XS].slots[m.loops[1].i] /\ Removing!Name(m) = InnerName(m)
    BY <1>4 DEF Removing!Name, InnerName, Removing!Slot
  <2>2. Removing!XS \in Removing!Names /\ m.lists[Removing!XS] \in Lists
    BY <1>1, Numbers
  <2>3. m.loops[1].i \in 0..(m.lists[Removing!XS].len - 1)
    BY <1>4 DEF Removing!Found, Removing!Has, Removing!Slot
  <2>4. m.loops[1].i \in Slots
    BY <2>2, <2>3, Numbers DEF Slots, Lists
  <2>5. Removing!Name(m) \in 1..Room \cup Spare \cup {Removing!Gone}
    BY <1>1, <2>1, <2>2, <2>4, OwnedIs DEF Apart
  <2> QED
    BY <1>4, <2>1, <2>5, Numbers
<1> QED
  BY <1>1, <1>2, <1>3, <1>4

\* A machine whose list n is l and whose innermost loop is f.
With(m, n, l, f) ==
    [lists |-> [m.lists EXCEPT ![n] = l], loops |-> [m.loops EXCEPT ![Len(m.loops)] = f], ok |-> m.ok]

LEMMA FrameSet ==
    ASSUME NEW ls \in Seq(Frames), Len(ls) \in {1, 2}, NEW f \in Frames
    PROVE  /\ [ls EXCEPT ![Len(ls)] = f] \in Seq(Frames)
           /\ Len([ls EXCEPT ![Len(ls)] = f]) = Len(ls)
           /\ [ls EXCEPT ![Len(ls)] = f] # <<>>
           /\ [ls EXCEPT ![Len(ls)] = f][Len(ls)] = f
           /\ Len(ls) = 2 => [ls EXCEPT ![Len(ls)] = f][1] = ls[1]
<1>1. PICK n \in 1..Len(ls) : n = Len(ls)
  OBVIOUS
<1>2. /\ [ls EXCEPT ![n] = f] \in Seq(Frames) /\ Len([ls EXCEPT ![n] = f]) = Len(ls)
      /\ \A j \in 1..Len(ls) : [ls EXCEPT ![n] = f][j] = IF j = n THEN f ELSE ls[j]
  BY ExceptSeq
<1>3. PICK s : s = [ls EXCEPT ![n] = f]
  OBVIOUS
<1>4. s # <<>>
  BY <1>2, <1>3
<1> QED
  BY <1>1, <1>2, <1>3, <1>4

LEMMA WithSound ==
    ASSUME NEW m, NEW D, Sound(m, D), m.loops # <<>>, NEW n \in Removing!Names, NEW l, NEW f \in Frames,
           Shuffled(l, m.lists[n]), l.len = m.lists[n].len, n = Removing!XS => Zeros(l),
           f.inside <=> m.loops[Len(m.loops)].inside
    PROVE  Sound(With(m, n, l, f), D)
<1>1. /\ m.lists \in [Removing!Names -> Lists] /\ m.loops \in Seq(Frames) /\ m.ok \in BOOLEAN
      /\ Len(m.loops) \in {1, 2} /\ ~m.loops[1].inside
      /\ Apart(m.lists, D) /\ Zeros(m.lists[Removing!XS])
  BY LoopsAre
<1>2. PICK M : M = [m.lists EXCEPT ![n] = l]
  OBVIOUS
<1>3. M \in [Removing!Names -> Lists] /\ \A k \in Removing!Names : M[k] = IF k = n THEN l ELSE m.lists[k]
  BY <1>1, <1>2 DEF Shuffled
<1>4. n \in {Removing!Gone} \cup Spare => l.len = 0
  BY <1>1 DEF Apart
<1>5. Apart(M, D)
  BY <1>1, <1>2, <1>4, ApartOne
<1>6. Zeros(M[Removing!XS])
  BY <1>1, <1>3, Numbers
<1>7. PICK ls : ls = [m.loops EXCEPT ![Len(m.loops)] = f]
  OBVIOUS
<1>8. ls \in Seq(Frames) /\ Len(ls) = Len(m.loops) /\ ls # <<>> /\ ls[Len(ls)] = f /\ (Len(ls) = 2 => ls[1] = m.loops[1])
  BY <1>1, <1>7, FrameSet
<1>9. ~ls[1].inside /\ Len(ls) <= 2
  BY <1>1, <1>8
<1> DEFINE w == With(m, n, l, f)
<1>10. w.lists = M /\ w.loops = ls /\ w \in Machines
  BY <1>1, <1>2, <1>3, <1>7, <1>8 DEF With, Machines
<1> HIDE DEF w
<1> QED
  BY <1>5, <1>6, <1>8, <1>9, <1>10 DEF Sound, w

\* The frame after the keep step.
Past(f) == [f EXCEPT !.kept = IF f.removed THEN @ ELSE @ + 1, !.next = f.i + 1]

LEMMA PastIs ==
    ASSUME NEW f \in Frames
    PROVE  /\ Past(f) \in Frames /\ Past(f).i = f.i /\ Past(f).end = f.end /\ Past(f).next = f.i + 1
           /\ Past(f).kept = IF f.removed THEN f.kept ELSE f.kept + 1
           /\ Past(f).removed <=> f.removed
           /\ Past(f).inside <=> f.inside
<1>1. PICK k \in Nat, n \in Nat : k = (IF f.removed THEN f.kept ELSE f.kept + 1) /\ n = f.i + 1
  BY DEF Frames
<1>2. PICK g : g = [f EXCEPT !.kept = k, !.next = n]
  OBVIOUS
<1>3. g \in Frames /\ g.i = f.i /\ g.end = f.end /\ g.next = n /\ g.kept = k
  BY <1>2 DEF Frames
<1>4. (g.removed <=> f.removed) /\ (g.inside <=> f.inside)
  BY <1>2 DEF Frames
<1>5. Past(f) = g
  BY <1>1, <1>2 DEF Past
<1> QED
  BY <1>1, <1>3, <1>4, <1>5

LEMMA KeepStepIs ==
    ASSUME NEW m, NEW D, Sound(m, D), m.loops # <<>>, NEW f, f = m.loops[Len(m.loops)]
    PROVE  /\ ~m.ok \/ f.removed \/ f.kept = f.i =>
                Removing!KeepStep(m) = [m EXCEPT !.loops = [m.loops EXCEPT ![Len(m.loops)] = Past(f)]]
           /\ m.ok /\ ~f.removed /\ f.kept # f.i /\ ~(Removing!Found(m) /\ Removing!Has(m.lists[Removing!Name(m)], f.i) /\ Removing!Has(m.lists[Removing!Name(m)], f.kept)) =>
                Removing!KeepStep(m) = [m EXCEPT !.ok = FALSE]
           /\ m.ok /\ ~f.removed /\ f.kept # f.i /\ Removing!Found(m) /\ Removing!Has(m.lists[Removing!Name(m)], f.i) /\ Removing!Has(m.lists[Removing!Name(m)], f.kept) =>
                Removing!KeepStep(m) = With(m, Removing!Name(m), MovedDown(m.lists[Removing!Name(m)], f.i, f.kept), Past(f))
<1>1. /\ m.lists \in [Removing!Names -> Lists] /\ m.loops \in Seq(Frames)
      /\ Len(m.loops) \in {1, 2} /\ DOMAIN m.loops = 1..Len(m.loops)
      /\ m = [lists |-> m.lists, loops |-> m.loops, ok |-> m.ok]
  BY LoopsAre
<1>2. PICK n, l : n = Removing!Name(m) /\ l = m.lists[n]
  OBVIOUS
<1>3. PICK g : g = Past(f)
  OBVIOUS
<1>4. PICK done : done = [m EXCEPT !.loops[Len(m.loops)] = g]
  OBVIOUS
<1>5. Removing!KeepStep(m) =
        IF ~m.ok \/ f.removed \/ f.kept = f.i THEN done
        ELSE IF ~(Removing!Found(m) /\ Removing!Has(l, f.i) /\ Removing!Has(l, f.kept)) THEN [m EXCEPT !.ok = FALSE]
        ELSE [done EXCEPT !.lists[n].slots = [@ EXCEPT ![f.i] = Removing!Gone, ![f.kept] = l.slots[f.i]]]
  BY <1>2, <1>3, <1>4 DEF Removing!KeepStep, Past
<1>6. done = [lists |-> m.lists, loops |-> [m.loops EXCEPT ![Len(m.loops)] = g], ok |-> m.ok]
  BY <1>1, <1>4
<1>7. [m EXCEPT !.loops = [m.loops EXCEPT ![Len(m.loops)] = g]] = done
  <2>1. PICK ls : ls = [m.loops EXCEPT ![Len(m.loops)] = g]
    OBVIOUS
  <2>2. [m EXCEPT !.loops = ls] = [lists |-> m.lists, loops |-> ls, ok |-> m.ok]
    BY DEF Sound, Machines
  <2> QED
    BY <1>6, <2>1, <2>2
<1>8. ASSUME Removing!Found(m), m.ok
      PROVE [done EXCEPT !.lists[n].slots = [@ EXCEPT ![f.i] = Removing!Gone, ![f.kept] = l.slots[f.i]]] = With(m, n, MovedDown(l, f.i, f.kept), g)
  <2>1. n \in Removing!Names
    BY <1>2, <1>8, NameIs
  <2>2. PICK L, ls : L = m.lists /\ ls = [m.loops EXCEPT ![Len(m.loops)] = g]
    OBVIOUS
  <2>3. PICK ok : ok = m.ok
    OBVIOUS
  <2>4. done.lists = L /\ done.loops = ls /\ done.ok = ok /\ done = [lists |-> L, loops |-> ls, ok |-> ok]
    BY <1>6, <2>2, <2>3
  <2>5. PICK s : s = [L[n].slots EXCEPT ![f.i] = Removing!Gone, ![f.kept] = l.slots[f.i]]
    OBVIOUS
  <2>6. [done EXCEPT !.lists[n].slots = [@ EXCEPT ![f.i] = Removing!Gone, ![f.kept] = l.slots[f.i]]]
          = [done EXCEPT !.lists = [L EXCEPT ![n] = [L[n] EXCEPT !.slots = s]]]
    BY <2>4, <2>5
  <2>7. PICK c : c = [L EXCEPT ![n] = [L[n] EXCEPT !.slots = s]]
    OBVIOUS
  <2>8. [done EXCEPT !.lists = c] = [lists |-> c, loops |-> ls, ok |-> ok]
    BY <2>4
  <2>9. With(m, n, MovedDown(l, f.i, f.kept), g) = [lists |-> c, loops |-> ls, ok |-> ok]
    BY <1>2, <2>2, <2>3, <2>5, <2>7 DEF With, MovedDown
  <2> QED
    BY <2>6, <2>7, <2>8, <2>9
<1> QED
  BY <1>2, <1>3, <1>5, <1>7, <1>8

LEMMA SameShuffled ==
    ASSUME NEW L \in [Removing!Names -> Lists], NEW D, Apart(L, D), NEW n \in Removing!Names
    PROVE  Shuffled(L[n], L[n])
BY DEF Apart, Shuffled

LEMMA KeepStepSound ==
    ASSUME NEW m, NEW D, Sound(m, D), m.loops # <<>>
    PROVE  /\ Sound(Removing!KeepStep(m), D) /\ Len(Removing!KeepStep(m).loops) = Len(m.loops) /\ Removing!KeepStep(m).loops # <<>>
<1>1. /\ m.lists \in [Removing!Names -> Lists] /\ m.loops \in Seq(Frames) /\ m.ok \in BOOLEAN
      /\ Len(m.loops) \in {1, 2} /\ \A k \in 1..Len(m.loops) : m.loops[k] \in Frames
      /\ Apart(m.lists, D) /\ Zeros(m.lists[Removing!XS])
  BY LoopsAre
<1>2. PICK f \in Frames : f = m.loops[Len(m.loops)]
  BY <1>1
<1>3. PICK g \in Frames : g = Past(f)
  BY PastIs
<1>4. g.inside <=> m.loops[Len(m.loops)].inside
  BY <1>2, <1>3, PastIs
<1>5. PICK ls : ls = [m.loops EXCEPT ![Len(m.loops)] = g]
  OBVIOUS
<1>6. ls \in Seq(Frames) /\ Len(ls) = Len(m.loops) /\ ls # <<>>
  BY <1>1, <1>5, FrameSet
<1>7. CASE ~m.ok \/ f.removed \/ f.kept = f.i
  <2>1. Removing!KeepStep(m) = [m EXCEPT !.loops = ls]
    BY <1>2, <1>3, <1>5, <1>7, KeepStepIs
  <2>2. PICK L : L = m.lists
    OBVIOUS
  <2>3. [m EXCEPT !.loops = ls] = [lists |-> L, loops |-> ls, ok |-> m.ok]
    BY <2>2 DEF Sound, Machines
  <2>4. Removing!XS \in Removing!Names /\ [L EXCEPT ![Removing!XS] = L[Removing!XS]] = L
    BY <1>1, <2>2, Numbers
  <2>5. Sound(With(m, Removing!XS, L[Removing!XS], g), D)
    <3>1. Shuffled(L[Removing!XS], L[Removing!XS])
      BY <1>1, <2>2, <2>4, SameShuffled
    <3> QED
      BY <1>1, <1>4, <2>2, <2>4, <3>1, WithSound
  <2>6. With(m, Removing!XS, L[Removing!XS], g) = [lists |-> L, loops |-> ls, ok |-> m.ok]
    BY <1>5, <2>2, <2>4 DEF With
  <2>7. Removing!KeepStep(m).loops = ls
    BY <2>1, <2>3
  <2> QED
    BY <1>6, <2>1, <2>3, <2>5, <2>6, <2>7
<1>8. PICK n, l : n = Removing!Name(m) /\ l = m.lists[n]
  OBVIOUS
<1>9. CASE m.ok /\ ~f.removed /\ f.kept # f.i /\ ~(Removing!Found(m) /\ Removing!Has(l, f.i) /\ Removing!Has(l, f.kept))
  <2>1. Removing!KeepStep(m) = [m EXCEPT !.ok = FALSE]
    BY <1>2, <1>8, <1>9, KeepStepIs
  <2>2. PICK r : r = [m EXCEPT !.ok = FALSE]
    OBVIOUS
  <2>3. r.lists = m.lists /\ r.loops = m.loops /\ r \in Machines
    BY <2>2 DEF Sound, Machines
  <2> QED
    BY <2>1, <2>2, <2>3 DEF Sound
<1>10. CASE m.ok /\ ~f.removed /\ f.kept # f.i /\ Removing!Found(m) /\ Removing!Has(l, f.i) /\ Removing!Has(l, f.kept)
  <2>1. Removing!KeepStep(m) = With(m, n, MovedDown(l, f.i, f.kept), g)
    BY <1>2, <1>3, <1>8, <1>10, KeepStepIs
  <2>2. n \in Removing!Names
    BY <1>8, <1>10, NameIs
  <2>3. l \in Lists /\ Unique(l)
    BY <1>1, <1>8, <2>2 DEF Apart
  <2>4. f.i \in 0..(l.len - 1) /\ f.kept \in 0..(l.len - 1) /\ f.i # f.kept
    BY <1>10 DEF Removing!Has
  <2>5. f.i \in Slots /\ f.kept \in Slots
    BY <2>3, <2>4, Numbers DEF Slots, Lists
  <2>6. PICK c : c = MovedDown(l, f.i, f.kept)
    OBVIOUS
  <2>7. /\ Shuffled(c, l) /\ c.len = l.len
        /\ \A k \in Slots : c.slots[k] = IF k = f.kept THEN l.slots[f.i] ELSE IF k = f.i THEN Removing!Gone ELSE l.slots[k]
    BY <2>3, <2>4, <2>5, <2>6, MovedIs
  <2>8. Zeros(l) => Zeros(c)
    <3>1. l.len \in Int
      BY <2>3 DEF Lists
    <3> SUFFICES ASSUME Zeros(l), NEW k \in Slots, k >= c.len  PROVE c.slots[k] = Removing!Gone
      BY DEF Zeros
    <3>2. k \in Nat /\ k # f.i /\ k # f.kept
      BY <2>4, <2>7, <3>1, Numbers
    <3>3. l.slots[k] = Removing!Gone
      BY <2>7, <3>1, <3>2 DEF Zeros
    <3> QED
      BY <2>7, <3>2, <3>3
  <2>9. Sound(With(m, n, c, g), D)
    BY <1>1, <1>4, <1>8, <2>2, <2>7, <2>8, WithSound
  <2>10. With(m, n, c, g).loops = ls
    BY <1>5 DEF With
  <2> QED
    BY <1>6, <2>1, <2>6, <2>9, <2>10
<1> QED
  BY <1>7, <1>9, <1>10

LEMMA KeepsFound ==
    ASSUME NEW m, NEW D, NEW W, NEW mode, Sound(m, D), m.loops # <<>>, Keeps(m, W, D, mode)
    PROVE  /\ Removing!Found(m) /\ m.ok
           /\ Removing!Name(m) \in Removing!Names /\ (Len(m.loops) = 2 => Removing!Name(m) # Removing!XS)
           /\ Runs(m.lists[Removing!Name(m)], W[Removing!Name(m)], m.loops[Len(m.loops)], mode)
<1>1. /\ m.lists \in [Removing!Names -> Lists] /\ Len(m.loops) \in {1, 2} /\ ~m.loops[1].inside
      /\ \A k \in 1..Len(m.loops) : m.loops[k] \in Frames
  BY LoopsAre
<1>2. Removing!Found(m)
  <2>1. CASE Len(m.loops) = 1
    BY <1>1, <2>1 DEF Removing!Found
  <2>2. CASE Len(m.loops) = 2
    <3>1. Runs(m.lists[Removing!XS], W[Removing!XS], m.loops[1], "body")
      BY <2>2 DEF Keeps
    <3>2. m.loops[1].i \in Nat /\ Removing!XS \in Removing!Names /\ m.lists[Removing!XS] \in Lists
      BY <1>1, <2>2, Numbers DEF Frames
    <3>3. m.lists[Removing!XS].len \in Nat
      BY <3>2, Numbers DEF Lists
    <3>4. m.loops[1].i < m.lists[Removing!XS].len
      BY <3>1 DEF Runs
    <3>5. Removing!Has(m.lists[Removing!XS], Removing!Slot(m))
      BY <3>2, <3>3, <3>4 DEF Removing!Has, Removing!Slot
    <3> QED
      BY <3>5 DEF Removing!Found
  <2> QED
    BY <1>1, <2>1, <2>2
<1>3. /\ Removing!Name(m) \in Removing!Names /\ (Len(m.loops) = 1 => Removing!Name(m) = Removing!XS)
      /\ Len(m.loops) = 2 => Removing!Name(m) = InnerName(m) /\ Removing!Name(m) # Removing!XS
  BY <1>2, NameIs
<1>4. Runs(m.lists[Removing!Name(m)], W[Removing!Name(m)], m.loops[Len(m.loops)], mode)
  <2>1. CASE Len(m.loops) = 1
    BY <1>3, <2>1 DEF Keeps
  <2>2. CASE Len(m.loops) = 2
    BY <1>3, <2>2 DEF Keeps
  <2> QED
    BY <1>1, <2>1, <2>2
<1>5. m.ok
  BY DEF Keeps
<1> QED
  BY <1>2, <1>3, <1>4, <1>5

\* The list of the innermost loop changes, and what is wanted of it.
LEMMA WithKeeps ==
    ASSUME NEW m, NEW D, NEW W \in [Removing!Names -> Seq(Int)], NEW mode, Sound(m, D), m.loops # <<>>, Keeps(m, W, D, mode),
           NEW n, n = Removing!Name(m), NEW l, l.len = m.lists[n].len, NEW w,
           NEW f \in Frames, f.inside <=> m.loops[Len(m.loops)].inside,
           NEW then, Runs(l, w, f, then), NEW E, D \subseteq E
    PROVE  Keeps(With(m, n, l, f), [W EXCEPT ![n] = w], E, then)
<1>1. /\ m.lists \in [Removing!Names -> Lists] /\ m.loops \in Seq(Frames) /\ m.ok \in BOOLEAN
      /\ Len(m.loops) \in {1, 2} /\ ~m.loops[1].inside
  BY LoopsAre
<1>2. /\ Removing!Found(m) /\ m.ok /\ n \in Removing!Names /\ (Len(m.loops) = 2 => n # Removing!XS)
  BY KeepsFound
<1>3. (Len(m.loops) = 1 => n = Removing!XS) /\ (Len(m.loops) = 2 => n = InnerName(m))
  BY <1>2, NameIs
<1>4. PICK M, V : M = [m.lists EXCEPT ![n] = l] /\ V = [W EXCEPT ![n] = w]
  OBVIOUS
<1>5. \A k \in Removing!Names : M[k] = (IF k = n THEN l ELSE m.lists[k]) /\ V[k] = (IF k = n THEN w ELSE W[k])
  BY <1>1, <1>2, <1>4
<1>6. PICK ls : ls = [m.loops EXCEPT ![Len(m.loops)] = f]
  OBVIOUS
<1>7. Len(ls) = Len(m.loops) /\ ls # <<>> /\ ls[Len(ls)] = f /\ (Len(ls) = 2 => ls[1] = m.loops[1])
  BY <1>1, <1>6, FrameSet
<1>8. PICK r : r = With(m, n, l, f)
  OBVIOUS
<1>9. r.lists = M /\ r.loops = ls /\ (r.ok <=> m.ok)
  BY <1>4, <1>6, <1>8 DEF With
<1>10. Shown(E) \subseteq Shown(D) /\ Shown(E) \subseteq Removing!Names
  BY Numbers DEF Shown
<1>11. CASE Len(m.loops) = 1
  <2>1. Runs(r.lists[Removing!XS], V[Removing!XS], r.loops[1], then)
    BY <1>2, <1>3, <1>5, <1>7, <1>9, <1>11
  <2>2. Looping(r) = {Removing!XS} /\ Looping(m) = {Removing!XS}
    <3>1. Len(r.loops) = 1
      BY <1>7, <1>9, <1>11
    <3> QED
      BY <1>11, <3>1 DEF Looping
  <2>3. \A k \in Shown(E) \ Looping(r) : Rests(r.lists[k], V[k])
    BY <1>3, <1>5, <1>9, <1>10, <1>11, <2>2 DEF Keeps
  <2>4. r.ok /\ r.loops # <<>> /\ Len(r.loops) = 1
    BY <1>2, <1>7, <1>9, <1>11
  <2>5. Keeps(r, V, E, then)
    BY <2>1, <2>3, <2>4 DEF Keeps
  <2> QED
    BY <1>4, <1>8, <2>5
<1>12. CASE Len(m.loops) = 2
  <2>1. r.lists[Removing!XS] = m.lists[Removing!XS] /\ V[Removing!XS] = W[Removing!XS] /\ r.loops[1] = m.loops[1] /\ r.loops[2] = f
    BY <1>2, <1>5, <1>7, <1>9, <1>12, Numbers
  <2>2. r.loops[2].inside <=> m.loops[2].inside
    BY <1>12, <2>1
  <2>3. InnerName(r) = n
    BY <1>3, <1>12, <2>1, <2>2 DEF InnerName
  <2>4. Runs(r.lists[Removing!XS], V[Removing!XS], r.loops[1], "body") /\ (r.loops[2].inside => ~r.loops[1].removed)
    BY <1>12, <2>1, <2>2 DEF Keeps
  <2>5. Runs(r.lists[InnerName(r)], V[InnerName(r)], r.loops[2], then)
    BY <1>2, <1>5, <1>9, <2>1, <2>3
  <2>6. Looping(r) = {Removing!XS, n} /\ Looping(m) = {Removing!XS, n}
    BY <1>3, <1>7, <1>9, <1>12, <2>3 DEF Looping
  <2>7. \A k \in Shown(E) \ Looping(r) : Rests(r.lists[k], V[k])
    BY <1>5, <1>9, <1>10, <2>6 DEF Keeps
  <2>8. r.ok /\ r.loops # <<>> /\ Len(r.loops) = 2
    BY <1>2, <1>7, <1>9, <1>12
  <2>9. Keeps(r, V, E, then)
    BY <2>4, <2>5, <2>7, <2>8 DEF Keeps
  <2> QED
    BY <1>4, <1>8, <2>9
<1> QED
  BY <1>1, <1>11, <1>12

LEMMA KeepStepKeeps ==
    ASSUME NEW m, NEW D, NEW W \in [Removing!Names -> Seq(Int)], Sound(m, D), m.loops # <<>>, Keeps(m, W, D, "body")
    PROVE  Keeps(Removing!KeepStep(m), W, D, "kept")
<1>1. /\ m.lists \in [Removing!Names -> Lists] /\ Len(m.loops) \in {1, 2} /\ m.ok \in BOOLEAN
      /\ \A k \in 1..Len(m.loops) : m.loops[k] \in Frames
      /\ Apart(m.lists, D)
  BY LoopsAre
<1>2. PICK f \in Frames : f = m.loops[Len(m.loops)]
  BY <1>1
<1>3. PICK n, l : n = Removing!Name(m) /\ l = m.lists[n]
  OBVIOUS
<1>4. Removing!Found(m) /\ m.ok /\ n \in Removing!Names /\ Runs(l, W[n], f, "body")
  BY <1>2, <1>3, KeepsFound
<1>5. l \in Lists /\ Unique(l) /\ W[n] \in Seq(Int)
  BY <1>1, <1>3, <1>4 DEF Apart
<1>6. /\ f.i \in Nat /\ f.kept \in Nat /\ f.end = l.len /\ f.next = f.i /\ f.i < l.len
      /\ Packed(l, W[n], f.kept, IF f.removed THEN f.i + 1 ELSE f.i)
  BY <1>4 DEF Runs, Frames
<1>7. PICK g \in Frames : g = Past(f)
  BY PastIs
<1>8. /\ g.i = f.i /\ g.end = f.end /\ g.next = f.i + 1
      /\ g.kept = (IF f.removed THEN f.kept ELSE f.kept + 1)
      /\ g.inside <=> m.loops[Len(m.loops)].inside
  BY <1>2, <1>7, PastIs
<1>9. ASSUME NEW c, c.len = l.len, Packed(c, W[n], g.kept, f.i + 1)  PROVE Keeps(With(m, n, c, g), W, D, "kept")
  <2>1. Runs(c, W[n], g, "kept")
    BY <1>6, <1>8, <1>9 DEF Runs
  <2>2. Keeps(With(m, n, c, g), [W EXCEPT ![n] = W[n]], D, "kept")
    BY <1>3, <1>8, <1>9, <2>1, WithKeeps
  <2> QED
    BY <1>4, <2>2
<1>10. CASE f.removed \/ f.kept = f.i
  <2>1. Removing!KeepStep(m) = [m EXCEPT !.loops = [m.loops EXCEPT ![Len(m.loops)] = g]]
    BY <1>2, <1>7, <1>10, KeepStepIs
  <2>2. [m EXCEPT !.loops = [m.loops EXCEPT ![Len(m.loops)] = g]] = With(m, n, l, g)
    <3>1. PICK L, ls : L = m.lists /\ ls = [m.loops EXCEPT ![Len(m.loops)] = g]
      OBVIOUS
    <3>2. [m EXCEPT !.loops = ls] = [lists |-> L, loops |-> ls, ok |-> m.ok]
      <4>1. [m EXCEPT !.loops = ls] = [lists |-> m.lists, loops |-> ls, ok |-> m.ok]
        BY DEF Sound, Machines
      <4> QED
        BY <3>1, <4>1
    <3>3. [L EXCEPT ![n] = l] = L
      BY <1>1, <1>3, <1>4, <3>1
    <3> QED
      BY <3>1, <3>2, <3>3 DEF With
  <2>3. Packed(l, W[n], g.kept, f.i + 1)
    <3>1. CASE f.removed
      BY <1>6, <1>8, <3>1
    <3>2. CASE ~f.removed
      BY <1>5, <1>6, <1>8, <1>10, <3>2, MovedPacked
    <3> QED
      BY <3>1, <3>2
  <2> QED
    BY <1>9, <2>1, <2>2, <2>3
<1>11. CASE ~f.removed /\ f.kept # f.i
  <2>1. f.i \in Slots /\ f.kept \in Slots /\ f.kept < l.len /\ Packed(MovedDown(l, f.i, f.kept), W[n], f.kept + 1, f.i + 1)
    BY <1>5, <1>6, <1>11, MovedPacked
  <2>2. l.len \in Nat
    BY <1>5, Numbers DEF Lists
  <2>3. Removing!Has(l, f.i) /\ Removing!Has(l, f.kept)
    BY <1>6, <2>1, <2>2 DEF Removing!Has
  <2>4. Removing!KeepStep(m) = With(m, n, MovedDown(l, f.i, f.kept), g)
    BY <1>2, <1>3, <1>4, <1>7, <1>11, <2>3, KeepStepIs
  <2>5. MovedDown(l, f.i, f.kept).len = l.len
    BY <1>5, <1>11, <2>1, MovedIs
  <2> QED
    BY <1>8, <1>9, <1>11, <2>1, <2>4, <2>5
<1> QED
  BY <1>10, <1>11

(* A loop that is over. *)

LEMMA FrontIs ==
    ASSUME NEW ls \in Seq(Frames), Len(ls) \in {1, 2}
    PROVE  /\ Removing!Front(ls) \in Seq(Frames) /\ Len(Removing!Front(ls)) = Len(ls) - 1
           /\ Len(ls) = 1 => Removing!Front(ls) = <<>>
           /\ Len(ls) = 2 => Removing!Front(ls) # <<>> /\ Removing!Front(ls)[1] = ls[1]
<1>1. \A k \in 1..(Len(ls) - 1) : ls[k] \in Frames
  BY ElementOfSeq
<1>2. PICK n \in Int : n = Len(ls) - 1
  <2>1. Len(ls) \in Nat
    BY LenProperties
  <2> QED
    BY <2>1
<1>3. Removing!Front(ls) = SubSeq(ls, 1, n)
  BY <1>2 DEF Removing!Front
<1>4. PICK s : s = SubSeq(ls, 1, n)
  OBVIOUS
<1>5. /\ s \in Seq(Frames) /\ Len(s) = (IF 1 <= n THEN n - 1 + 1 ELSE 0)
      /\ \A i \in 1..(n - 1 + 1) : s[i] = ls[1 + i - 1]
  BY <1>1, <1>2, <1>4, SubSeqProperties
<1>6. Len(ls) = 1 => s = <<>>
  BY <1>2, <1>5, EmptySeq
<1>7. Len(ls) = 2 => s # <<>> /\ s[1] = ls[1]
  BY <1>2, <1>5
<1> QED
  BY <1>2, <1>3, <1>4, <1>5, <1>6, <1>7

LEMMA FinishIs ==
    ASSUME NEW m, NEW D, Sound(m, D), m.loops # <<>>, NEW f, f = m.loops[Len(m.loops)]
    PROVE  /\ ~m.ok \/ ~Removing!Found(m) =>
                Removing!Finish(m) = [lists |-> m.lists, loops |-> Removing!Front(m.loops), ok |-> FALSE]
           /\ m.ok /\ Removing!Found(m) /\ Removing!Name(m) = Removing!Gone =>
                Removing!Finish(m) = [lists |-> m.lists, loops |-> Removing!Front(m.loops), ok |-> m.ok]
           /\ m.ok /\ Removing!Found(m) /\ Removing!Name(m) # Removing!Gone =>
                Removing!Finish(m) = [lists |-> [m.lists EXCEPT ![Removing!Name(m)] = Removing!Compact(m.lists[Removing!Name(m)], f.kept, f.next)],
                             loops |-> Removing!Front(m.loops), ok |-> m.ok]
<1>1. PICK out : out = [m EXCEPT !.loops = Removing!Front(@)]
  OBVIOUS
<1>2. PICK L, ls, ok : L = m.lists /\ ls = Removing!Front(m.loops) /\ ok = m.ok
  OBVIOUS
<1>3. out = [lists |-> L, loops |-> ls, ok |-> ok]
  <2>1. \A s : [m EXCEPT !.loops = s] = [lists |-> m.lists, loops |-> s, ok |-> m.ok]
    BY DEF Sound, Machines
  <2>2. out = [m EXCEPT !.loops = ls]
    BY <1>1, <1>2
  <2> QED
    BY <1>2, <2>1, <2>2
<1>4. PICK n : n = Removing!Name(m)
  OBVIOUS
<1>5. Removing!Finish(m) = IF ~m.ok \/ ~Removing!Found(m) THEN [out EXCEPT !.ok = FALSE]
                  ELSE IF n = Removing!Gone THEN out
                  ELSE [out EXCEPT !.lists[n] = Removing!Compact(@, f.kept, f.next)]
  BY <1>1, <1>4 DEF Removing!Finish
<1>6. [out EXCEPT !.ok = FALSE] = [lists |-> L, loops |-> ls, ok |-> FALSE]
  <2>1. \A b : [out EXCEPT !.ok = b] = [lists |-> L, loops |-> ls, ok |-> b]
    BY <1>3
  <2> QED
    BY <2>1
<1>7. [out EXCEPT !.lists[n] = Removing!Compact(@, f.kept, f.next)]
        = [lists |-> [L EXCEPT ![n] = Removing!Compact(L[n], f.kept, f.next)], loops |-> ls, ok |-> ok]
  BY <1>3
<1> QED
  BY <1>2, <1>3, <1>4, <1>5, <1>6, <1>7

LEMMA FinishSound ==
    ASSUME NEW m, NEW D, Sound(m, D), m.loops # <<>>
    PROVE  /\ Sound(Removing!Finish(m), D) /\ Removing!Finish(m).loops = Removing!Front(m.loops)
<1>1. /\ m.lists \in [Removing!Names -> Lists] /\ m.loops \in Seq(Frames) /\ m.ok \in BOOLEAN
      /\ Len(m.loops) \in {1, 2} /\ \A k \in 1..Len(m.loops) : m.loops[k] \in Frames
      /\ ~m.loops[1].inside /\ Apart(m.lists, D) /\ Zeros(m.lists[Removing!XS])
  BY LoopsAre
<1>2. PICK f \in Frames : f = m.loops[Len(m.loops)]
  BY <1>1
<1>3. PICK ls : ls = Removing!Front(m.loops)
  OBVIOUS
<1>4. /\ ls \in Seq(Frames) /\ Len(ls) <= 2
      /\ Len(m.loops) = 1 => ls = <<>>
      /\ Len(m.loops) = 2 => ls # <<>> /\ ls[1] = m.loops[1]
  BY <1>1, <1>3, FrontIs
<1>5. ASSUME NEW L \in [Removing!Names -> Lists], NEW ok \in BOOLEAN, Apart(L, D), Len(m.loops) = 2 => L[Removing!XS] = m.lists[Removing!XS],
             Removing!Finish(m) = [lists |-> L, loops |-> ls, ok |-> ok]
      PROVE  Sound(Removing!Finish(m), D) /\ Removing!Finish(m).loops = ls
  <2>1. PICK r : r = Removing!Finish(m)
    OBVIOUS
  <2>2. r.lists = L /\ r.loops = ls /\ r \in Machines
    BY <1>4, <1>5, <2>1 DEF Machines
  <2>3. ls # <<>> => ~ls[1].inside /\ Zeros(L[Removing!XS])
    BY <1>1, <1>4, <1>5
  <2> QED
    BY <1>4, <1>5, <2>1, <2>2, <2>3 DEF Sound
<1>6. CASE ~m.ok \/ ~Removing!Found(m)
  BY <1>1, <1>2, <1>3, <1>5, <1>6, FinishIs
<1>7. CASE m.ok /\ Removing!Found(m) /\ Removing!Name(m) = Removing!Gone
  BY <1>1, <1>2, <1>3, <1>5, <1>7, FinishIs
<1>8. CASE m.ok /\ Removing!Found(m) /\ Removing!Name(m) # Removing!Gone
  <2>1. PICK n, l, c, L : /\ n = Removing!Name(m) /\ l = m.lists[n] /\ c = Removing!Compact(l, f.kept, f.next)
                          /\ L = [m.lists EXCEPT ![n] = c]
    OBVIOUS
  <2>2. n \in Removing!Names /\ (Len(m.loops) = 2 => n # Removing!XS)
    BY <1>8, <2>1, NameIs
  <2>3. l \in Lists /\ Unique(l) /\ f.kept \in Nat /\ f.next \in Nat
    BY <1>1, <2>1, <2>2 DEF Apart, Frames
  <2>4. Shuffled(c, l) /\ (l.len = 0 => c.len = 0)
    BY <2>1, <2>3, CompactIs
  <2>5. n \in {Removing!Gone} \cup Spare => c.len = 0
    BY <1>1, <2>1, <2>4 DEF Apart
  <2>6. Apart(L, D)
    BY <1>1, <2>1, <2>2, <2>4, <2>5, ApartOne
  <2>7. L \in [Removing!Names -> Lists] /\ (Len(m.loops) = 2 => L[Removing!XS] = m.lists[Removing!XS])
    BY <1>1, <2>1, <2>2, <2>4, Numbers DEF Shuffled
  <2>8. Removing!Finish(m) = [lists |-> L, loops |-> ls, ok |-> m.ok]
    BY <1>2, <1>3, <1>8, <2>1, FinishIs
  <2> QED
    BY <1>1, <1>3, <1>5, <2>6, <2>7, <2>8
<1> QED
  BY <1>6, <1>7, <1>8

LEMMA FinishKeeps ==
    ASSUME NEW m, NEW D, NEW W \in [Removing!Names -> Seq(Int)], Wanted(W), NEW mode \in {"top", "kept"},
           Sound(m, D), m.loops # <<>>, Keeps(m, W, D, mode)
    PROVE  Keeps(Removing!Finish(m), W, D, "body")
<1>1. /\ m.lists \in [Removing!Names -> Lists] /\ m.loops \in Seq(Frames) /\ m.ok \in BOOLEAN
      /\ Len(m.loops) \in {1, 2} /\ \A k \in 1..Len(m.loops) : m.loops[k] \in Frames
      /\ Apart(m.lists, D)
  BY LoopsAre
<1>2. PICK f \in Frames : f = m.loops[Len(m.loops)]
  BY <1>1
<1>3. PICK n, l : n = Removing!Name(m) /\ l = m.lists[n]
  OBVIOUS
<1>4. Removing!Found(m) /\ m.ok /\ n \in Removing!Names /\ (Len(m.loops) = 2 => n # Removing!XS) /\ Runs(l, W[n], f, mode)
  BY <1>2, <1>3, KeepsFound
<1>5. (Len(m.loops) = 1 => n = Removing!XS) /\ (Len(m.loops) = 2 => n = InnerName(m))
  BY <1>3, <1>4, NameIs
<1>6. l \in Lists /\ Unique(l) /\ W[n] \in Seq(Int) /\ f.kept \in Nat /\ f.next \in Nat
  BY <1>1, <1>3, <1>4 DEF Apart, Frames
<1>7. n # Removing!Gone
  <2>1. CASE Len(m.loops) = 1 \/ ~m.loops[2].inside
    BY <1>1, <1>5, <2>1, Numbers DEF InnerName
  <2>2. CASE Len(m.loops) = 2 /\ m.loops[2].inside
    <3>1. PICK g, x : g = m.loops[1] /\ g \in Frames /\ x = m.lists[Removing!XS]
      BY <1>1
    <3>2. Runs(x, W[Removing!XS], g, "body") /\ ~g.removed /\ n = x.slots[g.i]
      BY <1>5, <2>2, <3>1 DEF Keeps, InnerName
    <3>3. x \in Lists /\ W[Removing!XS] \in Seq(Int) /\ Removing!XS \in Removing!Names
      BY <1>1, <3>1, Numbers
    <3>4. g.i < x.len /\ Packed(x, W[Removing!XS], g.kept, g.i) /\ g.i \in Nat /\ g.kept \in Nat
      <4>1. g.i \in Nat /\ g.kept \in Nat
        BY <3>1 DEF Frames
      <4>2. g.next = g.i /\ g.end = x.len /\ g.i < g.end
        BY <3>2 DEF Runs
      <4>3. Packed(x, W[Removing!XS], g.kept, g.next)
        BY <3>2 DEF Runs
      <4> QED
        BY <4>1, <4>2, <4>3
    <3>5. Unique(x) /\ \A i, j \in DOMAIN W[Removing!XS] : W[Removing!XS][i] = W[Removing!XS][j] => i = j
      BY <1>1, <3>1, <3>3 DEF Apart, Wanted
    <3>6. x.slots[g.i] \in Removing!ToSet(W[Removing!XS])
      <4>1. PICK i, k : i = g.i /\ k = g.kept
        OBVIOUS
      <4>2. EmptiedTo(x, W[Removing!XS], k, i, Removing!Without(W[Removing!XS], x.slots[i]))
        BY <3>3, <3>4, <3>5, <4>1, EmptiedPacked
      <4> QED
        BY <4>1, <4>2 DEF EmptiedTo
    <3> QED
      BY <3>2, <3>3, <3>6 DEF Removing!ToSet, Wanted
  <2> QED
    BY <1>1, <2>1, <2>2
<1>8. PICK c, L, ls : /\ c = Removing!Compact(l, f.kept, f.next) /\ L = [m.lists EXCEPT ![n] = c]
                      /\ ls = Removing!Front(m.loops)
  OBVIOUS
<1>9. PICK r : r = Removing!Finish(m)
  OBVIOUS
<1>10. r.lists = L /\ r.loops = ls /\ (r.ok <=> m.ok)
  <2>1. r = [lists |-> L, loops |-> ls, ok |-> m.ok]
    BY <1>2, <1>3, <1>4, <1>7, <1>8, <1>9, FinishIs
  <2> QED
    BY <2>1
<1>11. Rests(c, W[n])
  <2>1. Packed(l, W[n], f.kept, f.next)
    BY <1>4 DEF Runs
  <2> QED
    BY <1>6, <1>8, <2>1, CompactPacked
<1>12. \A k \in Removing!Names : L[k] = IF k = n THEN c ELSE m.lists[k]
  BY <1>1, <1>4, <1>8
<1>13. Len(ls) = Len(m.loops) - 1 /\ (Len(m.loops) = 1 => ls = <<>>) /\ (Len(m.loops) = 2 => ls # <<>> /\ ls[1] = m.loops[1])
  BY <1>1, <1>8, FrontIs
<1>14. Looping(r) = {Removing!XS} /\ Shown(D) \subseteq Removing!Names
  <2>2. Len(m.loops) = 1 \/ Len(m.loops) = 2
    BY <1>1
  <2>3. PICK k : k = Len(r.loops) /\ k = Len(m.loops) - 1
    BY <1>10, <1>13
  <2>4. k = 0 \/ k = 1
    BY <2>2, <2>3
  <2>5. Len(r.loops) = k /\ k # 2
    <3>1. Len(r.loops) = k
      BY <2>3
    <3>2. k # 2
      BY <2>4
    <3> QED
      BY <3>1, <3>2
  <2>1. Len(r.loops) # 2
    BY <2>5
  <2> QED
    BY <2>1, Numbers DEF Looping, Shown
<1>15. CASE Len(m.loops) = 1
  <2>1. r.loops = <<>> /\ Len(r.loops) = 0 /\ Rests(r.lists[Removing!XS], W[Removing!XS])
    BY <1>4, <1>5, <1>10, <1>11, <1>12, <1>13, <1>15
  <2>2. \A k \in Shown(D) \ {Removing!XS} : Rests(r.lists[k], W[k])
    <3>1. Looping(m) = {Removing!XS}
      BY <1>15 DEF Looping
    <3> QED
      BY <1>5, <1>10, <1>12, <1>14, <1>15, <3>1 DEF Keeps
  <2> QED
    BY <1>4, <1>9, <1>10, <1>14, <2>1, <2>2 DEF Keeps
<1>16. CASE Len(m.loops) = 2
  <2>1. r.loops # <<>> /\ Len(r.loops) = 1 /\ r.loops[1] = m.loops[1] /\ r.lists[Removing!XS] = m.lists[Removing!XS]
    BY <1>4, <1>10, <1>12, <1>13, <1>16, Numbers
  <2>2. Runs(r.lists[Removing!XS], W[Removing!XS], r.loops[1], "body")
    BY <1>16, <2>1 DEF Keeps
  <2>3. \A k \in Shown(D) \ {Removing!XS} : Rests(r.lists[k], W[k])
    <3>1. Looping(m) = {Removing!XS, n}
      BY <1>5, <1>16 DEF Looping
    <3>2. \A k \in Shown(D) \ {Removing!XS, n} : Rests(m.lists[k], W[k])
      BY <3>1 DEF Keeps
    <3> QED
      BY <1>4, <1>10, <1>11, <1>12, <1>14, <3>2
  <2> QED
    BY <1>4, <1>9, <1>10, <1>14, <2>1, <2>2, <2>3 DEF Keeps
<1> QED
  BY <1>1, <1>15, <1>16

LEMMA BrokenSound ==
    ASSUME NEW m, NEW D, Sound(m, D), m.loops # <<>>
    PROVE  /\ Sound(Removing!Broken(m), D) /\ Len(Removing!Broken(m).loops) = Len(m.loops) - 1
           /\ \A W \in [Removing!Names -> Seq(Int)] : Wanted(W) /\ Keeps(m, W, D, "body") => Keeps(Removing!Broken(m), W, D, "body")
<1>1. PICK k : k = Removing!KeepStep(m)
  OBVIOUS
<1>2. Sound(k, D) /\ Len(k.loops) = Len(m.loops) /\ k.loops # <<>>
  BY <1>1, KeepStepSound
<1>3. k.loops \in Seq(Frames) /\ Len(k.loops) \in {1, 2}
  BY <1>2, LoopsAre
<1>4. PICK b : b = Removing!Finish(k)
  OBVIOUS
<1>5. Sound(b, D) /\ b.loops = Removing!Front(k.loops)
  BY <1>2, <1>4, FinishSound
<1>6. Len(Removing!Front(k.loops)) = Len(k.loops) - 1
  BY <1>3, FrontIs
<1>7. Removing!Broken(m) = b
  BY <1>1, <1>4 DEF Removing!Broken
<1>8. ASSUME NEW W \in [Removing!Names -> Seq(Int)], Wanted(W), Keeps(m, W, D, "body")  PROVE Keeps(b, W, D, "body")
  <2>1. Keeps(k, W, D, "kept")
    BY <1>1, <1>8, KeepStepKeeps
  <2> QED
    BY <1>2, <1>4, <1>8, <2>1, FinishKeeps
<1> QED
  BY <1>2, <1>5, <1>6, <1>7, <1>8

LEMMA ReturnedIs ==
    ASSUME NEW m, Len(m.loops) \in {1, 2}
    PROVE  /\ Len(m.loops) = 1 => Removing!Returned(m) = Removing!Broken(m)
           /\ Len(m.loops) = 2 => Removing!Returned(m) = Removing!Broken(Removing!Broken(m))
<1>1. PICK k \in {1, 2} : k = Len(m.loops)
  OBVIOUS
<1> DEFINE out == CHOOSE g : g = [n \in 0..k |-> IF n = 0 THEN m ELSE Removing!Broken(g[n - 1])]
<1>2. Removing!Returned(m) = out[k]
  BY <1>1 DEF Removing!Returned
<1> DEFINE h == [n \in 0..k |-> IF n = 0 THEN m ELSE IF n = 1 THEN Removing!Broken(m) ELSE Removing!Broken(Removing!Broken(m))]
<1>3. h = [n \in 0..k |-> IF n = 0 THEN m ELSE Removing!Broken(h[n - 1])]
  OBVIOUS
<1>4. \E g : g = [n \in 0..k |-> IF n = 0 THEN m ELSE Removing!Broken(g[n - 1])]
  <2> HIDE DEF h
  <2> QED
    BY <1>3
<1>5. out = [n \in 0..k |-> IF n = 0 THEN m ELSE Removing!Broken(out[n - 1])]
  BY <1>4
<1> HIDE DEF out
<1>6. out[0] = m /\ out[1] = Removing!Broken(out[0]) /\ (k = 2 => out[2] = Removing!Broken(out[1]))
  BY <1>5
<1> QED
  BY <1>1, <1>2, <1>6

LEMMA ReturnedSound ==
    ASSUME NEW m, NEW D, Sound(m, D), m.loops # <<>>
    PROVE  /\ Sound(Removing!Returned(m), D) /\ Removing!Returned(m).loops = <<>>
           /\ \A W \in [Removing!Names -> Seq(Int)] : Wanted(W) /\ Keeps(m, W, D, "body") => Keeps(Removing!Returned(m), W, D, "body")
<1>1. Len(m.loops) \in {1, 2}
  BY LoopsAre
<1>2. ASSUME NEW r, Sound(r, D), Len(r.loops) = 0  PROVE r.loops = <<>>
  BY <1>2, EmptySeq DEF Sound, Machines
<1>3. ASSUME NEW r, Len(r.loops) = 1  PROVE r.loops # <<>>
  BY <1>3
<1>4. PICK b : b = Removing!Broken(m)
  OBVIOUS
<1>5. /\ Sound(b, D) /\ Len(b.loops) = Len(m.loops) - 1
      /\ \A W \in [Removing!Names -> Seq(Int)] : Wanted(W) /\ Keeps(m, W, D, "body") => Keeps(b, W, D, "body")
  BY <1>4, BrokenSound
<1>6. CASE Len(m.loops) = 1
  BY <1>1, <1>2, <1>4, <1>5, <1>6, ReturnedIs
<1>7. CASE Len(m.loops) = 2
  <2>1. Len(b.loops) = 1 /\ b.loops # <<>>
    BY <1>3, <1>5, <1>7
  <2>2. PICK c : c = Removing!Broken(b)
    OBVIOUS
  <2>3. /\ Sound(c, D) /\ Len(c.loops) = 0
        /\ \A W \in [Removing!Names -> Seq(Int)] : Wanted(W) /\ Keeps(b, W, D, "body") => Keeps(c, W, D, "body")
    <3>1. Sound(c, D) /\ Len(c.loops) = Len(b.loops) - 1
      BY <1>5, <2>1, <2>2, BrokenSound
    <3>2. \A W \in [Removing!Names -> Seq(Int)] : Wanted(W) /\ Keeps(b, W, D, "body") => Keeps(c, W, D, "body")
      BY <1>5, <2>1, <2>2, BrokenSound
    <3> QED
      BY <2>1, <3>1, <3>2
  <2>4. Removing!Returned(m) = c
    BY <1>1, <1>4, <1>7, <2>2, ReturnedIs
  <2> QED
    BY <1>2, <1>5, <2>3, <2>4
<1> QED
  BY <1>1, <1>6, <1>7

(* The steps. *)

LEMMA NowSound ==
    ASSUME RemovingInv, stage \in {"top", "body"}
    PROVE  /\ Sound(Removing!Now, dropped) /\ removing # <<>> /\ Removing!Now.lists = lists /\ Removing!Now.loops = removing /\ Removing!Now.ok
           /\ lists \in [Removing!Names -> Lists] /\ removing \in Seq(Frames) /\ Len(removing) \in {1, 2}
           /\ DOMAIN removing = 1..Len(removing) /\ \A k \in 1..Len(removing) : removing[k] \in Frames
           /\ Apart(lists, dropped) /\ Zeros(lists[Removing!XS]) /\ ~removing[1].inside
           /\ want \in [Removing!Names -> Seq(Int)] /\ dropped \subseteq Int
           /\ ~shared => Wanted(want) /\ Keeps(Removing!Now, want, dropped, stage)
<1>1. Sound(Removing!Now, dropped) /\ removing # <<>>
  BY DEF RemovingInv, RemovingType
<1>2. Removing!Now.lists = lists /\ Removing!Now.loops = removing /\ Removing!Now.ok
  BY DEF Removing!Now
<1>3. /\ lists \in [Removing!Names -> Lists] /\ removing \in Seq(Frames) /\ Len(removing) \in {1, 2}
      /\ DOMAIN removing = 1..Len(removing) /\ \A k \in 1..Len(removing) : removing[k] \in Frames
      /\ Apart(lists, dropped) /\ Zeros(lists[Removing!XS]) /\ ~removing[1].inside
  <2>1. PICK m : m = Removing!Now
    OBVIOUS
  <2>2. /\ m.lists \in [Removing!Names -> Lists] /\ m.loops \in Seq(Frames) /\ Len(m.loops) \in {1, 2}
        /\ DOMAIN m.loops = 1..Len(m.loops) /\ \A k \in 1..Len(m.loops) : m.loops[k] \in Frames
        /\ Apart(m.lists, dropped) /\ Zeros(m.lists[Removing!XS]) /\ ~m.loops[1].inside
    BY <1>1, <1>2, <2>1, LoopsAre
  <2> QED
    BY <1>2, <2>1, <2>2
<1>4. ~shared => Wanted(want) /\ Keeps(Removing!Now, want, dropped, stage)
  BY DEF RemovingInv
<1>5. want \in [Removing!Names -> Seq(Int)] /\ dropped \subseteq Int
  BY DEF RemovingInv, RemovingType
<1> QED
  BY <1>1, <1>2, <1>3, <1>4, <1>5

LEMMA BecomeInv ==
    ASSUME RemovingInv, stage \in {"top", "body"}, NEW m, NEW where, Removing!Become(m, where), want' = want, dropped' = dropped,
           Sound(m, dropped), m.loops = <<>> => where # "top", m.loops # <<>> => where \in {"top", "body"},
           ~shared => Keeps(m, want, dropped, IF where = "top" THEN "top" ELSE "body")
    PROVE  RemovingInv'
<1>1. lists' = m.lists /\ removing' = m.loops /\ shared' = shared
  BY DEF Removing!Become
<1>2. /\ want \in [Removing!Names -> Seq(Int)] /\ dropped \subseteq Int /\ shared \in BOOLEAN
      /\ ~shared => Wanted(want)
  BY DEF RemovingInv, RemovingType
<1>3. CASE ~m.ok
  <2>1. stage' = "stopped"
    BY <1>3 DEF Removing!Become
  <2>2. shared
    BY <1>3 DEF Keeps
  <2>3. Apart(lists', dropped')
    BY <1>1 DEF Sound
  <2>4. RemovingType'
    BY <1>1, <1>2, <2>1 DEF RemovingType
  <2> QED
    BY <1>1, <2>1, <2>2, <2>3, <2>4 DEF RemovingInv
<1>4. CASE m.ok
  <2>1. stage' = IF m.loops = <<>> THEN "left" ELSE where
    BY <1>4 DEF Removing!Become
  <2>2. Removing!Now' = m
    <3>1. Removing!Now' = [lists |-> m.lists, loops |-> m.loops, ok |-> TRUE]
      BY <1>1 DEF Removing!Now
    <3>2. m = [lists |-> m.lists, loops |-> m.loops, ok |-> m.ok] /\ m.ok \in BOOLEAN
      BY DEF Sound, Machines
    <3>3. m.ok = TRUE
      BY <1>4, <3>2
    <3> QED
      BY <3>1, <3>2, <3>3
  <2>3. Sound(Removing!Now', dropped')
    BY <2>2
  <2>4. RemovingType'
    BY <1>1, <1>2, <2>1 DEF RemovingType
  <2>5. stage' # "stopped"
    BY <2>1
  <2>6. (IF stage' = "top" THEN "top" ELSE "body") = IF where = "top" THEN "top" ELSE "body"
    BY <2>1
  <2>7. ~shared' => Wanted(want') /\ Keeps(Removing!Now', want', dropped', IF stage' = "top" THEN "top" ELSE "body")
    BY <1>1, <1>2, <2>2, <2>6
  <2> QED
    BY <2>3, <2>4, <2>5, <2>7 DEF RemovingInv
<1> QED
  BY <1>3, <1>4

LEMMA EndInv == RemovingInv /\ Removing!End => RemovingInv'
<1> SUFFICES ASSUME RemovingInv, Removing!End  PROVE RemovingInv'
  OBVIOUS
<1>1. stage = "top" /\ Removing!Become(Removing!Finish(Removing!Now), "body") /\ want' = want /\ dropped' = dropped
  BY DEF Removing!End
<1>2. Sound(Removing!Now, dropped) /\ Removing!Now.loops # <<>> /\ want \in [Removing!Names -> Seq(Int)] /\ (~shared => Wanted(want) /\ Keeps(Removing!Now, want, dropped, "top"))
  BY <1>1, NowSound
<1>3. PICK m : m = Removing!Finish(Removing!Now)
  OBVIOUS
<1>4. Sound(m, dropped)
  BY <1>2, <1>3, FinishSound
<1>5. ~shared => Keeps(m, want, dropped, "body")
  BY <1>2, <1>3, FinishKeeps
<1> QED
  BY <1>1, <1>3, <1>4, <1>5, BecomeInv

LEMMA BreakInv == RemovingInv /\ (Removing!Break \/ Removing!Return) => RemovingInv'
<1> SUFFICES ASSUME RemovingInv, Removing!Break \/ Removing!Return  PROVE RemovingInv'
  OBVIOUS
<1>1. stage = "body" /\ want' = want /\ dropped' = dropped
  BY DEF Removing!Break, Removing!Return
<1>2. Sound(Removing!Now, dropped) /\ Removing!Now.loops # <<>> /\ want \in [Removing!Names -> Seq(Int)] /\ (~shared => Wanted(want) /\ Keeps(Removing!Now, want, dropped, "body"))
  BY <1>1, NowSound
<1>3. CASE Removing!Break
  <2>1. PICK m : m = Removing!Broken(Removing!Now)
    OBVIOUS
  <2>2. Sound(m, dropped) /\ Removing!Become(m, "body")
    BY <1>2, <1>3, <2>1, BrokenSound DEF Removing!Break
  <2>3. ~shared => Keeps(m, want, dropped, "body")
    BY <1>2, <2>1, BrokenSound
  <2> QED
    BY <1>1, <2>2, <2>3, BecomeInv
<1>4. CASE Removing!Return
  <2>1. PICK m : m = Removing!Returned(Removing!Now)
    OBVIOUS
  <2>2. Sound(m, dropped) /\ m.loops = <<>> /\ Removing!Become(m, "left")
    BY <1>2, <1>4, <2>1, ReturnedSound DEF Removing!Return
  <2>3. ~shared => Keeps(m, want, dropped, "body")
    BY <1>2, <2>1, ReturnedSound
  <2> QED
    BY <1>1, <2>2, <2>3, BecomeInv
<1> QED
  BY <1>3, <1>4

LEMMA WithSame ==
    ASSUME NEW m, NEW D, Sound(m, D), NEW n \in Removing!Names, NEW f
    PROVE  With(m, n, m.lists[n], f) = [m EXCEPT !.loops = [m.loops EXCEPT ![Len(m.loops)] = f]]
<1>1. PICK L, ls : L = m.lists /\ ls = [m.loops EXCEPT ![Len(m.loops)] = f]
  OBVIOUS
<1>2. [m EXCEPT !.loops = ls] = [lists |-> m.lists, loops |-> ls, ok |-> m.ok] /\ m.lists \in [Removing!Names -> Lists]
  BY DEF Sound, Machines
<1>3. [L EXCEPT ![n] = L[n]] = L
  BY <1>1, <1>2
<1> QED
  BY <1>1, <1>2, <1>3 DEF With

Modes == {"top", "body", "kept"}

\* With frame f, r keeps what m does.
Carries(m, r, f, D) ==
    \A W \in [Removing!Names -> Seq(Int)] : \A mode, then \in Modes :
        Keeps(m, W, D, mode) /\ Runs(m.lists[Removing!Name(m)], W[Removing!Name(m)], f, then) => Keeps(r, W, D, then)

\* The innermost loop goes on with another frame.
LEMMA FrameInv ==
    ASSUME NEW m, NEW D, Sound(m, D), m.loops # <<>>, NEW f \in Frames, f.inside <=> m.loops[Len(m.loops)].inside,
           NEW r, r = [m EXCEPT !.loops = [m.loops EXCEPT ![Len(m.loops)] = f]]
    PROVE  Sound(r, D) /\ r.loops # <<>> /\ Carries(m, r, f, D)
<1>1. m.lists \in [Removing!Names -> Lists] /\ m.loops \in Seq(Frames) /\ Len(m.loops) \in {1, 2} /\ Apart(m.lists, D) /\ Zeros(m.lists[Removing!XS])
  BY LoopsAre
<1>2. Removing!XS \in Removing!Names
  BY Numbers
<1>3. Shuffled(m.lists[Removing!XS], m.lists[Removing!XS])
  BY <1>1, <1>2, SameShuffled
<1>4. Sound(With(m, Removing!XS, m.lists[Removing!XS], f), D)
  BY <1>1, <1>2, <1>3, WithSound
<1>5. r = With(m, Removing!XS, m.lists[Removing!XS], f)
  BY <1>2, WithSame
<1>6. r.loops # <<>>
  <2>1. r.loops = [m.loops EXCEPT ![Len(m.loops)] = f]
    BY <1>5 DEF With
  <2> QED
    BY <1>1, <2>1, FrameSet
<1>7. ASSUME NEW W \in [Removing!Names -> Seq(Int)], NEW mode \in Modes, NEW then \in Modes, Keeps(m, W, D, mode),
             Runs(m.lists[Removing!Name(m)], W[Removing!Name(m)], f, then)
      PROVE  Keeps(r, W, D, then)
  <2>1. PICK n, l, w : n = Removing!Name(m) /\ l = m.lists[n] /\ w = W[n]
    OBVIOUS
  <2>2. n \in Removing!Names
    BY <1>7, <2>1, KeepsFound
  <2>3. Keeps(With(m, n, l, f), [W EXCEPT ![n] = w], D, then)
    BY <1>7, <2>1, WithKeeps
  <2>4. [W EXCEPT ![n] = w] = W
    BY <2>1, <2>2
  <2>5. r = With(m, n, l, f)
    <3>1. With(m, n, m.lists[n], f) = [m EXCEPT !.loops = [m.loops EXCEPT ![Len(m.loops)] = f]]
      BY <2>2, WithSame
    <3> QED
      BY <2>1, <3>1
  <2> QED
    BY <2>3, <2>4, <2>5
<1> QED
  BY <1>4, <1>5, <1>6, <1>7 DEF Carries

LEMMA PassInv == RemovingInv /\ Removing!Pass => RemovingInv'
<1> SUFFICES ASSUME RemovingInv, Removing!Pass  PROVE RemovingInv'
  OBVIOUS
<1>1. /\ stage = "top" /\ stage' = "body" /\ lists' = lists /\ shared' = shared /\ want' = want /\ dropped' = dropped
      /\ removing' = [removing EXCEPT ![Len(removing)].removed = FALSE]
      /\ removing[Len(removing)].i < removing[Len(removing)].end
  BY DEF Removing!Pass, Removing!Inner
<1>2. /\ Sound(Removing!Now, dropped) /\ removing # <<>> /\ Removing!Now.lists = lists /\ Removing!Now.loops = removing /\ Removing!Now.ok
      /\ removing \in Seq(Frames) /\ Len(removing) \in {1, 2} /\ \A k \in 1..Len(removing) : removing[k] \in Frames
      /\ DOMAIN removing = 1..Len(removing)
      /\ want \in [Removing!Names -> Seq(Int)] /\ dropped \subseteq Int
      /\ ~shared => Wanted(want) /\ Keeps(Removing!Now, want, dropped, "top")
  BY <1>1, NowSound
<1>3. PICK f : f \in Frames /\ f = removing[Len(removing)]
  BY <1>2
<1>4. PICK g : g = [f EXCEPT !.removed = FALSE]
  OBVIOUS
<1>5. g \in Frames /\ g.i = f.i /\ g.end = f.end /\ g.kept = f.kept /\ g.next = f.next /\ ~g.removed
  BY <1>3, <1>4 DEF Frames
<1>6. g.inside <=> f.inside
  BY <1>3, <1>4 DEF Frames
<1>7. PICK m, r : m = Removing!Now /\ r = [m EXCEPT !.loops = [m.loops EXCEPT ![Len(m.loops)] = g]]
  OBVIOUS
<1>8. Removing!Now' = r
  <2>1. removing' = [removing EXCEPT ![Len(removing)] = g]
    BY <1>1, <1>2, <1>3, <1>4
  <2>2. PICK ls : ls = removing'
    OBVIOUS
  <2>3. [Removing!Now EXCEPT !.loops = ls] = [lists |-> lists, loops |-> ls, ok |-> TRUE]
    <3>1. \A L, q, b : [[lists |-> L, loops |-> q, ok |-> b] EXCEPT !.loops = ls] = [lists |-> L, loops |-> ls, ok |-> b]
      OBVIOUS
    <3> QED
      BY <3>1 DEF Removing!Now
  <2>4. Removing!Now' = [lists |-> lists, loops |-> ls, ok |-> TRUE]
    BY <1>1, <2>2 DEF Removing!Now
  <2>5. r = [Removing!Now EXCEPT !.loops = ls]
    BY <1>2, <1>7, <2>1, <2>2
  <2> QED
    BY <2>3, <2>4, <2>5
<1>9. Sound(r, dropped) /\ r.loops # <<>> /\ Carries(m, r, g, dropped)
  <2>1. Sound(m, dropped) /\ m.loops # <<>> /\ (g.inside <=> m.loops[Len(m.loops)].inside)
    BY <1>2, <1>3, <1>6, <1>7
  <2> QED
    BY <1>5, <1>7, <2>1, FrameInv
<1>10. ~shared => Keeps(r, want, dropped, "body")
  <2> SUFFICES ASSUME ~shared  PROVE Keeps(r, want, dropped, "body")
    OBVIOUS
  <2>1. Keeps(m, want, dropped, "top")
    BY <1>2, <1>7
  <2>2. Runs(m.lists[Removing!Name(m)], want[Removing!Name(m)], f, "top")
    BY <1>2, <1>3, <1>7, <2>1, KeepsFound
  <2>3. Runs(m.lists[Removing!Name(m)], want[Removing!Name(m)], g, "body")
    BY <1>1, <1>3, <1>5, <2>2 DEF Runs
  <2> QED
    BY <1>2, <1>9, <2>1, <2>3 DEF Carries, Modes
<1>11. RemovingType' /\ r.loops = removing'
  <2>1. r.loops = removing'
    BY <1>8 DEF Removing!Now
  <2> QED
    BY <1>1, <1>2, <1>9, <2>1 DEF RemovingInv, RemovingType
<1> QED
  BY <1>1, <1>2, <1>8, <1>9, <1>10, <1>11 DEF RemovingInv

LEMMA EndBodyInv == RemovingInv /\ Removing!EndBody => RemovingInv'
<1> SUFFICES ASSUME RemovingInv, Removing!EndBody  PROVE RemovingInv'
  OBVIOUS
<1>1. PICK m : m = Removing!KeepStep(Removing!Now)
  OBVIOUS
<1>2. PICK r : r = [m EXCEPT !.loops[Len(removing)].i = @ + 1]
  OBVIOUS
<1>3. stage = "body" /\ Removing!Become(r, "top") /\ want' = want /\ dropped' = dropped
  BY <1>1, <1>2 DEF Removing!EndBody
<1>4. /\ Sound(Removing!Now, dropped) /\ Removing!Now.loops # <<>> /\ Removing!Now.loops = removing /\ want \in [Removing!Names -> Seq(Int)]
      /\ ~shared => Wanted(want) /\ Keeps(Removing!Now, want, dropped, "body")
  BY <1>3, NowSound
<1>5. Sound(m, dropped) /\ Len(m.loops) = Len(removing) /\ m.loops # <<>>
  BY <1>1, <1>4, KeepStepSound
<1>6. m.loops \in Seq(Frames) /\ Len(m.loops) \in {1, 2} /\ (\A k \in 1..Len(m.loops) : m.loops[k] \in Frames) /\ DOMAIN m.loops = 1..Len(m.loops)
  BY <1>5, LoopsAre
<1>7. PICK f : f \in Frames /\ f = m.loops[Len(m.loops)]
  BY <1>6
<1>8. PICK g : g = [f EXCEPT !.i = @ + 1]
  OBVIOUS
<1>9. g \in Frames /\ g.i = f.i + 1 /\ g.end = f.end /\ g.kept = f.kept /\ g.next = f.next
  BY <1>7, <1>8 DEF Frames
<1>10. g.inside <=> f.inside
  BY <1>7, <1>8 DEF Frames
<1>11. r = [m EXCEPT !.loops = [m.loops EXCEPT ![Len(m.loops)] = g]]
  BY <1>2, <1>5, <1>7, <1>8
<1>12. Sound(r, dropped) /\ r.loops # <<>> /\ Carries(m, r, g, dropped)
  BY <1>5, <1>7, <1>9, <1>10, <1>11, FrameInv
<1>13. ~shared => Keeps(r, want, dropped, "top")
  <2> SUFFICES ASSUME ~shared  PROVE Keeps(r, want, dropped, "top")
    OBVIOUS
  <2>1. Keeps(m, want, dropped, "kept")
    BY <1>1, <1>4, KeepStepKeeps
  <2>2. Runs(m.lists[Removing!Name(m)], want[Removing!Name(m)], f, "kept")
    BY <1>5, <1>7, <2>1, KeepsFound
  <2>3. Runs(m.lists[Removing!Name(m)], want[Removing!Name(m)], g, "top")
    BY <1>9, <2>2 DEF Runs
  <2> QED
    BY <1>4, <1>12, <2>1, <2>3 DEF Carries, Modes
<1> QED
  BY <1>3, <1>12, <1>13, BecomeInv

\* An item that is in reach names a list that is in reach.
LEMMA ItemShown ==
    ASSUME NEW m, NEW D, NEW W \in [Removing!Names -> Seq(Int)], Wanted(W), Sound(m, D), m.loops # <<>>,
           NEW f, f = m.loops[1], ~f.removed, Runs(m.lists[Removing!XS], W[Removing!XS], f, "body")
    PROVE  m.lists[Removing!XS].slots[f.i] \in Shown(D) \ {Removing!XS} /\ Removing!Has(m.lists[Removing!XS], f.i)
<1>1. /\ m.lists \in [Removing!Names -> Lists] /\ Len(m.loops) \in {1, 2} /\ Apart(m.lists, D)
      /\ \A k \in 1..Len(m.loops) : m.loops[k] \in Frames
  BY LoopsAre
<1>2. f \in Frames /\ f.i \in Nat /\ f.kept \in Nat
  <2>1. 1 \in 1..Len(m.loops)
    BY <1>1
  <2> QED
    BY <1>1, <2>1 DEF Frames
<1>3. PICK x : x = m.lists[Removing!XS]
  OBVIOUS
<1>4. x \in Lists /\ Removing!XS \in Removing!Names /\ W[Removing!XS] \in Seq(Int) /\ Unique(x) /\ x.len \in Nat
  BY <1>1, <1>3, Numbers DEF Apart, Lists
<1>5. f.next = f.i /\ f.end = x.len /\ f.i < f.end
  BY <1>3 DEF Runs
<1>6. Packed(x, W[Removing!XS], f.kept, f.next)
  BY <1>3 DEF Runs
<1>7. \A i, j \in DOMAIN W[Removing!XS] : W[Removing!XS][i] = W[Removing!XS][j] => i = j
  BY <1>4 DEF Wanted
<1>8. f.i \in Slots /\ x.slots[f.i] \in Removing!ToSet(W[Removing!XS])
  <2>1. PICK i, k : i = f.i /\ k = f.kept
    OBVIOUS
  <2>2. EmptiedTo(x, W[Removing!XS], k, i, Removing!Without(W[Removing!XS], x.slots[i]))
    BY <1>2, <1>4, <1>5, <1>6, <1>7, <2>1, EmptiedPacked
  <2> QED
    BY <2>1, <2>2 DEF EmptiedTo
<1>9. PICK b : b = x.slots[f.i]
  OBVIOUS
<1>10. b # Removing!Gone
  BY <1>4, <1>8, <1>9 DEF Removing!ToSet, Wanted
<1>11. b \in 1..Room \cup Spare
  BY <1>1, <1>3, <1>4, <1>8, <1>9, <1>10, OwnedIs DEF Apart
<1>12. Removing!XS \in Shown(D)
  BY DEF Shown
<1>13. b \notin D
  BY <1>1, <1>3, <1>8, <1>9, <1>10, <1>12 DEF Apart
<1>14. b # Removing!XS
  BY <1>11, Numbers
<1>15. Removing!Has(x, f.i)
  BY <1>2, <1>4, <1>5 DEF Removing!Has
<1> QED
  BY <1>3, <1>9, <1>11, <1>13, <1>14, <1>15 DEF Shown

LEMMA PairOf ==
    ASSUME NEW ls \in Seq(Frames), Len(ls) = 1, NEW f \in Frames
    PROVE  /\ Append(ls, f) \in Seq(Frames) /\ Len(Append(ls, f)) = 2 /\ Append(ls, f) # <<>>
           /\ Append(ls, f)[1] = ls[1] /\ Append(ls, f)[2] = f
<1>1. PICK s : s = Append(ls, f)
  OBVIOUS
<1>2. /\ s \in Seq(Frames) /\ s # <<>> /\ Len(s) = Len(ls) + 1 /\ s[Len(ls) + 1] = f
      /\ \A k \in 1..Len(ls) : s[k] = ls[k]
  <2>1. Append(ls, f) \in Seq(Frames) /\ Append(ls, f) # <<>> /\ Len(Append(ls, f)) = Len(ls) + 1
    BY AppendProperties
  <2>2. Append(ls, f)[Len(ls) + 1] = f
    BY AppendProperties
  <2>3. \A k \in 1..Len(ls) : Append(ls, f)[k] = ls[k]
    BY AppendProperties
  <2> QED
    BY <1>1, <2>1, <2>2, <2>3
<1>3. Len(s) = 2 /\ 1 \in 1..Len(ls) /\ s[2] = f
  BY <1>2
<1> QED
  BY <1>1, <1>2, <1>3

LEMMA NestInv ==
    ASSUME RemovingInv, NEW inside \in BOOLEAN, Removing!Nest(inside)
    PROVE  RemovingInv'
<1>1. PICK f0 : f0 = Removing!Loop(Removing!List(<<>>), inside, Removing!Inner.removed)
  OBVIOUS
<1>2. PICK m : m = [Removing!Now EXCEPT !.loops = Append(@, f0)]
  OBVIOUS
<1>3. PICK n : n = Removing!Name(m)
  OBVIOUS
<1>4. PICK r : r = IF Removing!Found(m) THEN [m EXCEPT !.loops[2].end = lists[n].len] ELSE [m EXCEPT !.ok = FALSE]
  OBVIOUS
<1>5. stage = "body" /\ Len(removing) = 1 /\ (inside => ~Removing!Inner.removed) /\ Removing!Become(r, "top") /\ want' = want /\ dropped' = dropped
  BY <1>1, <1>2, <1>3, <1>4 DEF Removing!Nest
<1>6. /\ Sound(Removing!Now, dropped) /\ removing # <<>> /\ Removing!Now.lists = lists /\ Removing!Now.loops = removing /\ Removing!Now.ok
      /\ lists \in [Removing!Names -> Lists] /\ removing \in Seq(Frames)
      /\ \A k \in 1..Len(removing) : removing[k] \in Frames
      /\ Apart(lists, dropped) /\ Zeros(lists[Removing!XS]) /\ ~removing[1].inside
      /\ want \in [Removing!Names -> Seq(Int)] /\ dropped \subseteq Int
      /\ ~shared => Wanted(want) /\ Keeps(Removing!Now, want, dropped, "body")
  BY <1>5, NowSound
<1>7. PICK f : f \in Frames /\ f = removing[1] /\ f = Removing!Inner
  BY <1>5, <1>6 DEF Removing!Inner
<1>8. /\ f0 \in Frames /\ f0.i = 0 /\ f0.kept = 0 /\ f0.next = 0
  BY <1>1, <1>7 DEF Removing!Loop, Removing!List, Frames
<1>9. f0.inside <=> inside
  BY <1>1 DEF Removing!Loop
<1>10. PICK ls : ls = Append(removing, f0)
  OBVIOUS
<1>11. ls \in Seq(Frames) /\ Len(ls) = 2 /\ ls # <<>> /\ ls[1] = f /\ ls[2] = f0
  BY <1>5, <1>6, <1>7, <1>8, <1>10, PairOf
<1>12. m = [lists |-> lists, loops |-> ls, ok |-> TRUE]
  <2>1. \A L, q, b, s : [[lists |-> L, loops |-> q, ok |-> b] EXCEPT !.loops = s] = [lists |-> L, loops |-> s, ok |-> b]
    OBVIOUS
  <2>2. m = [Removing!Now EXCEPT !.loops = ls]
    BY <1>2, <1>6, <1>10
  <2> QED
    BY <2>1, <2>2 DEF Removing!Now
<1>13. m.lists = lists /\ m.loops = ls /\ m.ok /\ m \in Machines
  BY <1>6, <1>11, <1>12 DEF Machines
<1>14. Sound(m, dropped)
  <2>1. PICK k \in Nat : k = Len(m.loops) /\ k <= 2
    BY <1>11, <1>13
  <2>2. ~m.loops[1].inside
    BY <1>6, <1>7, <1>11, <1>13
  <2> QED
    BY <1>6, <1>13, <2>1, <2>2 DEF Sound
<1>15. CASE ~Removing!Found(m)
  <2>1. r = [lists |-> lists, loops |-> ls, ok |-> FALSE]
    <3>1. \A L, q, b, s : [[lists |-> L, loops |-> q, ok |-> b] EXCEPT !.ok = s] = [lists |-> L, loops |-> q, ok |-> s]
      OBVIOUS
    <3>2. r = [m EXCEPT !.ok = FALSE]
      BY <1>4, <1>15
    <3> QED
      BY <1>12, <3>1, <3>2
  <2>2. r.lists = lists /\ r.loops = ls /\ r \in Machines
    BY <1>6, <1>11, <2>1 DEF Machines
  <2>3. Sound(r, dropped)
    BY <1>13, <1>14, <2>2 DEF Sound
  <2>4. ASSUME ~shared  PROVE FALSE
    <3>1. Len(m.loops) = 2 /\ (m.loops[2].inside <=> inside) /\ m.loops[1] = f
      BY <1>9, <1>11, <1>13
    <3>2. inside /\ ~Removing!Has(lists[Removing!XS], f.i)
      BY <1>13, <1>15, <3>1 DEF Removing!Found, Removing!Slot
    <3>3. Runs(lists[Removing!XS], want[Removing!XS], f, "body")
      BY <1>5, <1>6, <1>7, <2>4 DEF Keeps
    <3>4. Removing!Has(lists[Removing!XS], f.i)
      BY <1>5, <1>6, <1>7, <2>4, <3>2, <3>3, ItemShown
    <3> QED
      BY <3>2, <3>4
  <2> QED
    BY <1>5, <1>11, <2>2, <2>3, <2>4, BecomeInv
<1>16. CASE Removing!Found(m)
  <2>1. n \in Removing!Names /\ n # Removing!XS /\ n = InnerName(m)
    BY <1>3, <1>11, <1>13, <1>14, <1>16, NameIs
  <2>2. PICK l : l = lists[n]
    OBVIOUS
  <2>3. l \in Lists /\ l.len \in Nat /\ Unique(l)
    BY <1>6, <2>1, <2>2, Numbers DEF Lists, Apart
  <2>4. PICK g : g = [f0 EXCEPT !.end = l.len]
    OBVIOUS
  <2>5. g \in Frames /\ g.i = 0 /\ g.kept = 0 /\ g.next = 0 /\ g.end = l.len
    BY <1>8, <2>3, <2>4 DEF Frames
  <2>6. g.inside <=> f0.inside
    BY <1>8, <2>4 DEF Frames
  <2>7. r = [m EXCEPT !.loops = [m.loops EXCEPT ![2] = g]]
    BY <1>4, <1>11, <1>13, <1>16, <2>2, <2>4
  <2>8. r = With(m, n, l, g)
    <3>1. With(m, n, m.lists[n], g) = [m EXCEPT !.loops = [m.loops EXCEPT ![Len(m.loops)] = g]]
      BY <1>14, <2>1, WithSame
    <3> QED
      BY <1>11, <1>13, <2>2, <2>7, <3>1
  <2>9. Sound(r, dropped) /\ r.loops # <<>>
    <3>1. r = [m EXCEPT !.loops = [m.loops EXCEPT ![Len(m.loops)] = g]] /\ m.loops # <<>>
      BY <1>11, <1>13, <2>7
    <3>2. g.inside <=> m.loops[Len(m.loops)].inside
      BY <1>11, <1>13, <2>6
    <3> QED
      BY <1>14, <2>5, <3>1, <3>2, FrameInv
  <2>10. r.lists = lists /\ r.loops = [ls EXCEPT ![2] = g] /\ (r.ok <=> m.ok)
    <3>1. [lists EXCEPT ![n] = l] = lists
      BY <1>6, <2>1, <2>2
    <3> QED
      BY <1>11, <1>13, <2>8, <3>1 DEF With
  <2>11. Len(r.loops) = 2 /\ r.loops[1] = f /\ r.loops[2] = g
    BY <1>11, <2>5, <2>10, FrameSet
  <2>12. InnerName(r) = n
    BY <1>11, <1>13, <2>1, <2>6, <2>10, <2>11 DEF InnerName
  <2>13. ASSUME ~shared  PROVE Keeps(r, want, dropped, "top")
    <3>1. Runs(lists[Removing!XS], want[Removing!XS], f, "body")
      BY <1>5, <1>6, <1>7, <2>13 DEF Keeps
    <3>2. \A k \in Shown(dropped) \ {Removing!XS} : Rests(lists[k], want[k])
      <4>1. Looping(Removing!Now) = {Removing!XS}
        <5>1. Len(Removing!Now.loops) = 1
          BY <1>5, <1>6
        <5> QED
          BY <5>1 DEF Looping
      <4> QED
        BY <1>6, <2>13, <4>1 DEF Keeps
    <3>3. inside => ~f.removed
      BY <1>5, <1>7
    <3>4. n \in Shown(dropped) \ {Removing!XS}
      <4>1. CASE inside
        <5>1. lists[Removing!XS].slots[f.i] \in Shown(dropped) \ {Removing!XS}
          BY <1>6, <1>7, <2>13, <3>1, <3>3, <4>1, ItemShown
        <5>2. n = lists[Removing!XS].slots[f.i]
          BY <1>9, <1>11, <1>13, <2>1, <4>1 DEF InnerName
        <5> QED
          BY <5>1, <5>2
      <4>2. CASE ~inside
        <5>1. n = Removing!YS
          BY <1>9, <1>11, <1>13, <2>1, <4>2 DEF InnerName
        <5> QED
          BY <2>1, <5>1 DEF Shown
      <4> QED
        BY <4>1, <4>2
    <3>5. Packed(l, want[n], 0, 0)
      BY <2>2, <2>3, <3>2, <3>4, RestsBegins
    <3>6. Runs(l, want[n], g, "top")
      BY <2>5, <3>5 DEF Runs
    <3>7. r.loops[2].inside => ~r.loops[1].removed
      BY <1>9, <2>6, <2>11, <3>3
    <3>8. Looping(r) = {Removing!XS, n}
      BY <2>11, <2>12 DEF Looping
    <3>9. Runs(r.lists[Removing!XS], want[Removing!XS], r.loops[1], "body") /\ Runs(r.lists[InnerName(r)], want[InnerName(r)], r.loops[2], "top")
      BY <2>2, <2>10, <2>11, <2>12, <3>1, <3>6
    <3>10. \A k \in Shown(dropped) \ Looping(r) : Rests(r.lists[k], want[k])
      BY <2>10, <3>2, <3>8
    <3> QED
      BY <1>13, <2>9, <2>10, <2>11, <3>7, <3>9, <3>10 DEF Keeps
  <2> QED
    BY <1>5, <2>9, <2>13, BecomeInv
<1> QED
  BY <1>15, <1>16

LEMMA FreedIs ==
    ASSUME NEW L \in [Removing!Names -> Lists], NEW D, D \subseteq Int, NEW F, F \subseteq Int
    PROVE  D \cup Freed(F, L) \subseteq Int
<1>1. ASSUME NEW b \in Removing!Names, NEW v \in Removing!ToSet(Removing!Items(L[b]))  PROVE v \in Int
  <2>1. PICK k \in 1..L[b].len : v = L[b].slots[k - 1]
    BY DEF Removing!ToSet, Removing!Items
  <2>2. L[b].len \in 0..Room /\ L[b].slots \in [Slots -> Int]
    BY DEF Lists
  <2>3. k - 1 \in Slots
    BY <2>2, Numbers DEF Slots
  <2> QED
    BY <2>1, <2>2, <2>3
<1> QED
  BY <1>1 DEF Freed

LEMMA DropIs ==
    ASSUME NEW F, Removing!Drop(F)
    PROVE  dropped' = dropped \cup Freed(F, lists)
BY DEF Removing!Drop, Freed

\* The list that the loop at depth d is over, for a loop that may remove.
LEMMA RemovesFrom ==
    ASSUME RemovingInv, stage = "body", NEW d \in DOMAIN removing, ~removing[d].removed,
           d < Len(removing) => ~removing[Len(removing)].inside,
           NEW m, m = [Removing!Now EXCEPT !.loops = SubSeq(@, 1, d)], NEW n, n = Removing!Name(m)
    PROVE  /\ d = Len(removing) => m = Removing!Now
           /\ d < Len(removing) => d = 1 /\ Len(removing) = 2 /\ n = Removing!XS /\ Removing!Found(m)
           /\ Removing!Found(m) => n \in Removing!Names
           /\ ~shared => Removing!Found(m) /\ n \in Removing!Names /\ Runs(lists[n], want[n], removing[d], "body")
<1>1. /\ Sound(Removing!Now, dropped) /\ removing # <<>> /\ Removing!Now.lists = lists /\ Removing!Now.loops = removing /\ Removing!Now.ok
      /\ lists \in [Removing!Names -> Lists] /\ removing \in Seq(Frames) /\ Len(removing) \in {1, 2}
      /\ DOMAIN removing = 1..Len(removing) /\ \A k \in 1..Len(removing) : removing[k] \in Frames
      /\ ~removing[1].inside
      /\ ~shared => Wanted(want) /\ Keeps(Removing!Now, want, dropped, "body")
  BY NowSound
<1>2. CASE d = Len(removing)
  <2>1. SubSeq(removing, 1, d) = removing
    BY <1>1, <1>2, SubSeqFull
  <2>2. \A L, q, b : [[lists |-> L, loops |-> q, ok |-> b] EXCEPT !.loops = q] = [lists |-> L, loops |-> q, ok |-> b]
    OBVIOUS
  <2>3. m = Removing!Now
    <3>1. m = [Removing!Now EXCEPT !.loops = removing]
      BY <1>1, <2>1
    <3> QED
      BY <2>2, <3>1 DEF Removing!Now
  <2>4. Removing!Found(m) => n \in Removing!Names
    BY <1>1, <2>3, NameIs
  <2>5. ~shared => Removing!Found(m) /\ n \in Removing!Names /\ Runs(lists[n], want[n], removing[d], "body")
    BY <1>1, <1>2, <2>3, KeepsFound
  <2> QED
    BY <1>1, <1>2, <2>3, <2>4, <2>5
<1>3. CASE d # Len(removing)
  <2>1. d = 1 /\ Len(removing) = 2 /\ d < Len(removing)
    <3>1. PICK k : k = Len(removing)
      OBVIOUS
    <3>2. (k = 1 \/ k = 2) /\ d \in 1..k /\ d # k
      BY <1>1, <1>3, <3>1
    <3>3. d = 1 /\ k = 2 /\ d < k
      BY <3>2
    <3> QED
      BY <3>1, <3>3
  <2>2. PICK s : s = SubSeq(removing, 1, 1)
    OBVIOUS
  <2>3. Len(s) = 1 /\ s[1] = removing[1]
    <3>1. 1 \in Int /\ \A i \in 1..1 : removing[i] \in Frames
      BY <1>1, <2>1
    <3>2. PICK k \in Int : k = 1
      OBVIOUS
    <3>3. /\ Len(SubSeq(removing, k, k)) = IF k <= k THEN k - k + 1 ELSE 0
          /\ \A i \in 1..(k - k + 1) : SubSeq(removing, k, k)[i] = removing[k + i - 1]
      BY <3>1, <3>2, SubSeqProperties
    <3> QED
      BY <2>2, <3>2, <3>3
  <2>4. \A L, q, b, r : [[lists |-> L, loops |-> q, ok |-> b] EXCEPT !.loops = r].loops = r
    OBVIOUS
  <2>5. m.loops = s
    <3>1. m = [Removing!Now EXCEPT !.loops = s]
      BY <1>1, <2>1, <2>2
    <3> QED
      BY <2>4, <3>1 DEF Removing!Now
  <2>6. Removing!Found(m)
    BY <1>1, <2>3, <2>5 DEF Removing!Found
  <2>7. n = Removing!XS
    BY <1>1, <2>3, <2>5 DEF Removing!Name
  <2>8. ~shared => Runs(lists[Removing!XS], want[Removing!XS], removing[1], "body")
    BY <1>1, <2>1 DEF Keeps
  <2> QED
    BY <1>3, <2>1, <2>6, <2>7, <2>8, Numbers
<1> QED
  BY <1>2, <1>3

LEMMA FrameAt ==
    ASSUME NEW ls \in Seq(Frames), Len(ls) \in {1, 2}, NEW d \in 1..Len(ls), NEW f \in Frames
    PROVE  /\ [ls EXCEPT ![d] = f] \in Seq(Frames) /\ Len([ls EXCEPT ![d] = f]) = Len(ls) /\ [ls EXCEPT ![d] = f] # <<>>
           /\ \A j \in 1..Len(ls) : [ls EXCEPT ![d] = f][j] = IF j = d THEN f ELSE ls[j]
<1>1. /\ [ls EXCEPT ![d] = f] \in Seq(Frames) /\ Len([ls EXCEPT ![d] = f]) = Len(ls)
      /\ \A j \in 1..Len(ls) : [ls EXCEPT ![d] = f][j] = IF j = d THEN f ELSE ls[j]
  BY ExceptSeq
<1>2. [ls EXCEPT ![d] = f] # <<>>
  BY <1>1
<1> QED
  BY <1>1, <1>2

LEMMA RemoveItemInv ==
    ASSUME RemovingInv, NEW d \in DOMAIN removing, Removing!RemoveItem(d)
    PROVE  RemovingInv'
<1>1. PICK m, n : m = [Removing!Now EXCEPT !.loops = SubSeq(@, 1, d)] /\ n = Removing!Name(m)
  OBVIOUS
<1>2. PICK l, i, b : l = lists[n] /\ i = removing[d].i /\ b = l.slots[i]
  OBVIOUS
<1>3. /\ stage = "body" /\ ~removing[d].removed /\ shared' = shared
      /\ d < Len(removing) => ~removing[Len(removing)].inside
  BY DEF Removing!RemoveItem, Removing!Inner
<1>4. IF Removing!Found(m) /\ Removing!Has(l, i)
      THEN /\ lists' = [lists EXCEPT ![n].slots[i] = Removing!Gone]
           /\ Removing!Drop({b})
           /\ want' = [want EXCEPT ![n] = Removing!Without(@, b)]
           /\ removing' = [removing EXCEPT ![d].removed = TRUE]
           /\ stage' = stage
      ELSE stage' = "stopped" /\ lists' = lists /\ removing' = removing /\ want' = want /\ dropped' = dropped
  BY <1>1, <1>2 DEF Removing!RemoveItem
<1>5. /\ Sound(Removing!Now, dropped) /\ removing # <<>> /\ Removing!Now.lists = lists /\ Removing!Now.loops = removing /\ Removing!Now.ok
      /\ lists \in [Removing!Names -> Lists] /\ removing \in Seq(Frames) /\ Len(removing) \in {1, 2}
      /\ DOMAIN removing = 1..Len(removing) /\ \A k \in 1..Len(removing) : removing[k] \in Frames
      /\ Apart(lists, dropped) /\ Zeros(lists[Removing!XS]) /\ ~removing[1].inside
      /\ want \in [Removing!Names -> Seq(Int)] /\ dropped \subseteq Int
      /\ ~shared => Wanted(want) /\ Keeps(Removing!Now, want, dropped, "body")
  BY <1>3, NowSound
<1>6. /\ d = Len(removing) => m = Removing!Now
      /\ d < Len(removing) => d = 1 /\ Len(removing) = 2 /\ n = Removing!XS /\ Removing!Found(m)
      /\ Removing!Found(m) => n \in Removing!Names
      /\ ~shared => Removing!Found(m) /\ n \in Removing!Names /\ Runs(l, want[n], removing[d], "body")
  <2>1. ~shared => Removing!Found(m) /\ n \in Removing!Names /\ Runs(lists[n], want[n], removing[d], "body")
    BY <1>1, <1>3, RemovesFrom
  <2>2. /\ d = Len(removing) => m = Removing!Now
        /\ d < Len(removing) => d = 1 /\ Len(removing) = 2 /\ n = Removing!XS /\ Removing!Found(m)
        /\ Removing!Found(m) => n \in Removing!Names
    BY <1>1, <1>3, RemovesFrom
  <2> QED
    BY <1>2, <2>1, <2>2
<1>7. PICK f : f \in Frames /\ f = removing[d]
  BY <1>5
<1>8. ~shared => Removing!Has(l, i)
  <2> SUFFICES ASSUME ~shared  PROVE Removing!Has(l, i)
    OBVIOUS
  <2>1. l \in Lists /\ f.i \in Nat
    BY <1>2, <1>5, <1>6, <1>7 DEF Frames
  <2>2. l.len \in Nat /\ f.i < l.len
    BY <1>6, <1>7, <2>1, Numbers DEF Runs, Lists
  <2> QED
    BY <1>2, <1>7, <2>1, <2>2 DEF Removing!Has
<1>9. shared \in BOOLEAN
  BY DEF RemovingInv, RemovingType
<1>10. CASE ~(Removing!Found(m) /\ Removing!Has(l, i))
  <2>1. shared
    BY <1>6, <1>8, <1>10
  <2>2. stage' = "stopped" /\ lists' = lists /\ want' = want /\ dropped' = dropped
    BY <1>4, <1>10
  <2>3. RemovingType'
    BY <1>3, <1>5, <1>9, <2>2 DEF RemovingType
  <2> QED
    BY <1>3, <1>5, <2>1, <2>2, <2>3 DEF RemovingInv
<1>11. CASE Removing!Found(m) /\ Removing!Has(l, i)
  <2>1. n \in Removing!Names /\ l \in Lists /\ Unique(l) /\ l.len \in Nat
    BY <1>2, <1>5, <1>6, <1>11, Numbers DEF Apart, Lists
  <2>2. i \in 0..(l.len - 1) /\ i \in Slots
    BY <1>11, <2>1, Numbers DEF Removing!Has, Slots, Lists
  <2>3. b \in Owned(n) \cup {Removing!Gone}
    BY <1>2, <1>5, <2>1, <2>2 DEF Apart
  <2>4. PICK c : c = Emptied(l, i)
    OBVIOUS
  <2>5. Shuffled(c, l) /\ c.len = l.len /\ \A k \in Slots : c.slots[k] = IF k = i THEN Removing!Gone ELSE l.slots[k]
    BY <2>1, <2>2, <2>4, EmptiedIs
  <2>6. \A k \in Slots : b # Removing!Gone => c.slots[k] # b
    BY <1>2, <2>1, <2>2, <2>5 DEF Unique
  <2>7. PICK L : L = [lists EXCEPT ![n] = c]
    OBVIOUS
  <2>8. lists' = L
    BY <1>2, <1>4, <1>11, <2>4, <2>7 DEF Emptied
  <2>9. PICK E : E = dropped \cup Freed({b}, lists)
    OBVIOUS
  <2>10. dropped' = E
    <3>1. Removing!Drop({b})
      BY <1>4, <1>11
    <3> QED
      BY <2>9, <3>1, DropIs
  <2>11. Apart(L, E)
    <3>1. n \in {Removing!Gone} \cup Spare => c.len = 0
      BY <1>2, <1>5, <2>5 DEF Apart
    <3> QED
      <4>1. PICK F : F = {b}
        OBVIOUS
      <4>2. F \subseteq Owned(n) \cup {Removing!Gone} /\ \A x \in F \ {Removing!Gone} : \A k \in Slots : c.slots[k] # x
        BY <2>3, <2>6, <4>1
      <4>3. Shuffled(c, lists[n])
        BY <1>2, <2>5
      <4>4. Apart([lists EXCEPT ![n] = c], dropped \cup Freed(F, lists))
        BY <1>5, <2>1, <3>1, <4>2, <4>3, ApartDropped
      <4> QED
        BY <2>7, <2>9, <4>1, <4>4
  <2>12. E \subseteq Int /\ dropped \subseteq E
    <3>1. {b} \subseteq Int
      BY <2>1, <2>3, OwnedApart, Numbers
    <3> QED
      BY <1>5, <2>9, <3>1, FreedIs
  <2>13. Zeros(L[Removing!XS]) /\ L \in [Removing!Names -> Lists] /\ \A k \in Removing!Names : L[k] = IF k = n THEN c ELSE lists[k]
    <3>1. Removing!XS \in Removing!Names
      BY Numbers
    <3>2. L \in [Removing!Names -> Lists] /\ \A k \in Removing!Names : L[k] = IF k = n THEN c ELSE lists[k]
      BY <1>5, <2>5, <2>7 DEF Shuffled
    <3>3. n = Removing!XS => Zeros(c)
      BY <1>2, <1>5, <2>5 DEF Zeros
    <3> QED
      BY <1>5, <3>1, <3>2, <3>3
  <2>14. PICK g : g = [f EXCEPT !.removed = TRUE]
    OBVIOUS
  <2>15. g \in Frames /\ g.i = f.i /\ g.end = f.end /\ g.kept = f.kept /\ g.next = f.next /\ g.removed
    BY <1>7, <2>14 DEF Frames
  <2>16. g.inside <=> f.inside
    BY <1>7, <2>14 DEF Frames
  <2>17. PICK ls : ls = [removing EXCEPT ![d] = g]
    OBVIOUS
  <2>18. removing' = ls
    BY <1>4, <1>7, <1>11, <2>14, <2>17
  <2>19. /\ ls \in Seq(Frames) /\ Len(ls) = Len(removing) /\ ls # <<>>
         /\ \A j \in 1..Len(removing) : ls[j] = IF j = d THEN g ELSE removing[j]
    BY <1>5, <2>15, <2>17, FrameAt
  <2>20. ~ls[1].inside
    <3>1. 1 \in 1..Len(removing)
      BY <1>5
    <3> QED
      BY <1>5, <1>7, <2>16, <2>19, <3>1
  <2>21. PICK r : r = [lists |-> L, loops |-> ls, ok |-> TRUE]
    OBVIOUS
  <2>22. Removing!Now' = r /\ r.lists = L /\ r.loops = ls /\ r.ok /\ r \in Machines
    BY <2>8, <2>13, <2>18, <2>19, <2>21 DEF Removing!Now, Machines
  <2>23. Sound(r, E)
    <3>1. PICK k \in Nat : k = Len(r.loops) /\ k <= 2
      <4>1. Len(removing) = 1 \/ Len(removing) = 2
        BY <1>5
      <4>2. Len(r.loops) = Len(removing)
        BY <2>19, <2>22
      <4>3. ASSUME NEW k, k = 1 \/ k = 2  PROVE k \in Nat /\ k <= 2
        BY <4>3
      <4> QED
        BY <4>1, <4>2, <4>3
    <3> QED
      BY <2>11, <2>13, <2>19, <2>20, <2>22, <3>1 DEF Sound
  <2>24. stage' = "body"
    BY <1>3, <1>4, <1>11
  <2>25. PICK w, V : w = Removing!Without(want[n], b) /\ V = [want EXCEPT ![n] = w]
    OBVIOUS
  <2>26. want' = V
    BY <1>4, <1>11, <2>25
  <2>27. V \in [Removing!Names -> Seq(Int)]
    <3>1. w \in Seq(Int)
      <4>1. PICK s \in Seq(Int) : s = want[n]
        BY <1>5, <2>1
      <4> QED
        BY <2>25, <4>1, WithoutTyped
    <3> QED
      BY <1>5, <2>25, <3>1
  <2>28. ASSUME ~shared  PROVE Wanted(V) /\ Keeps(r, V, E, "body")
    <3>1. PICK s \in Seq(Int) : s = want[n]
      BY <1>5, <2>1
    <3>2. Runs(l, s, f, "body") /\ Wanted(want)
      BY <1>5, <1>6, <1>7, <2>28, <3>1
    <3>3. f.next = f.i /\ f.end = l.len /\ f.i < f.end /\ Packed(l, s, f.kept, f.i) /\ i = f.i
      BY <1>2, <1>3, <1>7, <3>2 DEF Runs
    <3>4. f.kept \in Nat /\ f.i \in Nat
      BY <1>7 DEF Frames
    <3>5. (\A x, y \in DOMAIN s : s[x] = s[y] => x = y) /\ \A x \in DOMAIN s : s[x] # Removing!Gone
      BY <2>1, <3>1, <3>2 DEF Wanted
    <3>6. /\ \A x, y \in DOMAIN w : w[x] = w[y] => x = y
          /\ \A x \in DOMAIN w : w[x] \in Removing!ToSet(s)
          /\ Packed(c, w, f.kept, f.i + 1)
      <4>1. PICK v : v = Removing!Without(s, l.slots[f.i])
        OBVIOUS
      <4>4. f.i < l.len /\ Packed(l, s, f.kept, f.i) /\ \A x, y \in DOMAIN s : s[x] = s[y] => x = y
        BY <3>3, <3>5
      <4>2. /\ \A x, y \in DOMAIN v : v[x] = v[y] => x = y
            /\ \A x \in DOMAIN v : v[x] \in Removing!ToSet(s)
            /\ Packed(Emptied(l, f.i), v, f.kept, f.i + 1)
        <5>1. PICK j, k : j = f.i /\ k = f.kept
          OBVIOUS
        <5>2. EmptiedTo(l, s, k, j, Removing!Without(s, l.slots[j]))
          BY <2>1, <3>4, <4>4, <5>1, EmptiedPacked
        <5> QED
          BY <4>1, <5>1, <5>2 DEF EmptiedTo
      <4>3. v = w
        BY <1>2, <2>25, <3>1, <3>3, <4>1
      <4> QED
        BY <2>4, <3>3, <4>2, <4>3
    <3>7. Wanted(V)
      <4>1. \A x \in DOMAIN w : w[x] # Removing!Gone
        BY <3>5, <3>6 DEF Removing!ToSet
      <4>2. \A k \in Removing!Names : V[k] = IF k = n THEN w ELSE want[k]
        BY <1>5, <2>25
      <4> QED
        BY <3>2, <3>6, <4>1, <4>2 DEF Wanted
    <3>8. Runs(c, w, g, "body")
      BY <2>5, <2>15, <3>3, <3>6 DEF Runs
    <3>9. CASE d = Len(removing)
      <4>1. m = Removing!Now /\ Keeps(m, want, dropped, "body") /\ Sound(m, dropped) /\ m.loops = removing /\ m.lists = lists
        BY <1>5, <1>6, <2>28, <3>9
      <4>2. Keeps(With(m, n, c, g), V, E, "body")
        <5>1. g.inside <=> m.loops[Len(m.loops)].inside
          BY <1>7, <2>16, <3>9, <4>1
        <5>2. m.loops # <<>> /\ c.len = m.lists[n].len
          BY <1>2, <1>5, <2>5, <4>1
        <5> QED
          BY <1>1, <1>5, <2>12, <2>15, <2>25, <3>8, <4>1, <5>1, <5>2, WithKeeps
      <4>3. With(m, n, c, g) = r
        <5>1. With(m, n, c, g) = [lists |-> L, loops |-> ls, ok |-> m.ok]
          BY <2>7, <2>17, <3>9, <4>1 DEF With
        <5>2. m.ok = TRUE
          BY <4>1 DEF Removing!Now
        <5> QED
          BY <2>21, <5>1, <5>2
      <4> QED
        BY <3>7, <4>2, <4>3
    <3>10. CASE d # Len(removing)
      <4>1. d = 1 /\ Len(removing) = 2 /\ n = Removing!XS /\ ~removing[2].inside
        <5>1. d < Len(removing)
          BY <1>5, <3>10
        <5> QED
          BY <1>3, <1>6, <5>1
      <4>2. ls[1] = g /\ ls[2] = removing[2] /\ Len(r.loops) = 2 /\ r.loops # <<>>
        BY <2>19, <2>22, <4>1
      <4>3. InnerName(r) = Removing!YS /\ InnerName(Removing!Now) = Removing!YS
        BY <1>5, <2>22, <4>1, <4>2 DEF InnerName
      <4>4. Removing!YS \in Removing!Names /\ Removing!YS # Removing!XS /\ Removing!XS \in Removing!Names
        BY Numbers
      <4>5. Runs(lists[Removing!YS], want[Removing!YS], removing[2], "body") /\ \A k \in Shown(dropped) \ {Removing!XS, Removing!YS} : Rests(lists[k], want[k])
        <5>1. Looping(Removing!Now) = {Removing!XS, Removing!YS}
          BY <1>5, <4>1, <4>3 DEF Looping
        <5> QED
          BY <1>5, <2>28, <4>1, <4>3, <5>1 DEF Keeps
      <4>6. Looping(r) = {Removing!XS, Removing!YS}
        BY <4>2, <4>3 DEF Looping
      <4>7. \A k \in Removing!Names : V[k] = IF k = Removing!XS THEN w ELSE want[k]
        BY <1>5, <2>25, <4>1
      <4>8. Runs(r.lists[Removing!XS], V[Removing!XS], r.loops[1], "body")
        BY <2>13, <2>22, <3>8, <4>1, <4>2, <4>4, <4>7
      <4>9. Runs(r.lists[InnerName(r)], V[InnerName(r)], r.loops[2], "body")
        BY <2>13, <2>22, <4>1, <4>2, <4>3, <4>4, <4>5, <4>7
      <4>10. ~r.loops[2].inside
        BY <2>22, <4>1, <4>2
      <4>11. \A k \in Shown(E) \ Looping(r) : Rests(r.lists[k], V[k])
        <5>1. Shown(E) \subseteq Shown(dropped) /\ Shown(E) \subseteq Removing!Names
          BY <2>12, Numbers DEF Shown
        <5> QED
          BY <2>13, <2>22, <4>1, <4>5, <4>6, <4>7, <5>1
      <4> QED
        BY <2>22, <3>7, <4>2, <4>8, <4>9, <4>10, <4>11 DEF Keeps
    <3> QED
      BY <3>9, <3>10
  <2>29. RemovingType'
    BY <1>3, <1>9, <2>10, <2>12, <2>18, <2>19, <2>24, <2>26, <2>27 DEF RemovingType
  <2> QED
    BY <1>3, <2>10, <2>22, <2>23, <2>24, <2>26, <2>28, <2>29 DEF RemovingInv
<1> QED
  BY <1>10, <1>11

\* Others change xs.
LEMMA OthersKeep ==
    ASSUME RemovingInv, stage = "body", shared, NEW l \in Lists, Zeros(l), lists' = [lists EXCEPT ![Removing!XS] = l],
           Apart([lists EXCEPT ![Removing!XS] = l], dropped'), dropped' \subseteq Int,
           removing' = removing, stage' = stage, shared' = shared, want' = want
    PROVE  RemovingInv'
<1>1. /\ Sound(Removing!Now, dropped) /\ removing # <<>> /\ Removing!Now.lists = lists /\ Removing!Now.loops = removing
      /\ lists \in [Removing!Names -> Lists] /\ removing \in Seq(Frames) /\ ~removing[1].inside
      /\ want \in [Removing!Names -> Seq(Int)]
  BY NowSound
<1>2. PICK L, E : L = [lists EXCEPT ![Removing!XS] = l] /\ E = dropped'
  OBVIOUS
<1>3. L \in [Removing!Names -> Lists] /\ L[Removing!XS] = l
  BY <1>1, <1>2, Numbers
<1>4. PICK r : r = [lists |-> L, loops |-> removing, ok |-> TRUE]
  OBVIOUS
<1>5. Removing!Now' = r /\ r.lists = L /\ r.loops = removing /\ r \in Machines
  BY <1>1, <1>2, <1>3, <1>4 DEF Removing!Now, Machines
<1>6. Len(r.loops) <= 2
  <2>1. Len(removing) <= 2
    BY <1>1 DEF Sound
  <2> QED
    BY <1>5, <2>1
<1>7. Sound(r, E)
  BY <1>1, <1>2, <1>3, <1>5, <1>6 DEF Sound
<1>8. RemovingType' /\ shared'
  BY <1>1 DEF RemovingInv, RemovingType
<1> QED
  BY <1>2, <1>5, <1>7, <1>8 DEF RemovingInv

LEMMA OthersInv == RemovingInv /\ Removing!Others => RemovingInv'
<1> SUFFICES ASSUME RemovingInv, Removing!Others  PROVE RemovingInv'
  OBVIOUS
<1>1. PICK l : l = lists[Removing!XS]
  OBVIOUS
<1>2. /\ stage = "body" /\ shared /\ removing' = removing /\ stage' = stage /\ shared' = shared /\ want' = want
      /\ \/ /\ \E k \in 0..(l.len - 1) : lists' = [lists EXCEPT ![Removing!XS] = Removing!TakeOut(l, k)] /\ Removing!Drop({l.slots[k]})
         \/ /\ l.len < Room
            /\ \E b \in Spare \ (Removing!ToSet(Removing!Items(l)) \cup dropped), k \in 0..l.len :
                   lists' = [lists EXCEPT ![Removing!XS] = Removing!Insert(l, k, b)]
            /\ dropped' = dropped
         \/ /\ lists' = [lists EXCEPT ![Removing!XS] = Removing!Clear(l)]
            /\ Removing!Drop(Removing!ToSet(Removing!Items(l)))
  BY <1>1 DEF Removing!Others
<1>3. lists \in [Removing!Names -> Lists] /\ Apart(lists, dropped) /\ Zeros(lists[Removing!XS]) /\ dropped \subseteq Int
  BY <1>2, NowSound
<1>4. Removing!XS \in Removing!Names /\ Removing!XS \notin {Removing!Gone} \cup Spare /\ Owned(Removing!XS) \subseteq Int
  BY Numbers, OwnedApart
<1>5. l \in Lists /\ Unique(l) /\ Zeros(l) /\ l.len \in Nat /\ l.slots \in [Slots -> Int]
  BY <1>1, <1>3, <1>4, Numbers DEF Apart, Lists
<1>6. \A k \in Slots : l.slots[k] \in Owned(Removing!XS) \cup {Removing!Gone}
  BY <1>1, <1>3, <1>4 DEF Apart
<1>7. ASSUME NEW c, Shuffled(c, l), Zeros(c), NEW F, F \subseteq Owned(Removing!XS) \cup {Removing!Gone}, F \subseteq Int,
             \A b \in F \ {Removing!Gone} : \A k \in Slots : c.slots[k] # b, lists' = [lists EXCEPT ![Removing!XS] = c], Removing!Drop(F)
      PROVE  RemovingInv'
  <2>1. dropped' = dropped \cup Freed(F, lists)
    BY <1>7, DropIs
  <2>2. dropped \cup Freed(F, lists) \subseteq Int
    BY <1>3, <1>7, FreedIs
  <2>3. Shuffled(c, lists[Removing!XS])
    BY <1>1, <1>7
  <2>4. Apart([lists EXCEPT ![Removing!XS] = c], dropped \cup Freed(F, lists))
    BY <1>3, <1>4, <1>7, <2>3, ApartDropped
  <2>5. c \in Lists
    BY <1>7 DEF Shuffled
  <2> QED
    BY <1>2, <1>7, <2>1, <2>2, <2>4, <2>5, OthersKeep
<1>8. ASSUME NEW k \in 0..(l.len - 1), lists' = [lists EXCEPT ![Removing!XS] = Removing!TakeOut(l, k)], Removing!Drop({l.slots[k]})
      PROVE  RemovingInv'
  <2>1. PICK c, b, F : c = Removing!TakeOut(l, k) /\ b = l.slots[k] /\ F = {b}
    OBVIOUS
  <2>2. Shuffled(c, l) /\ Zeros(c) /\ k \in Slots /\ \A j \in Slots : c.slots[j] = b => b = Removing!Gone
    BY <1>5, <2>1, TakeOutIs
  <2>3. F \subseteq Owned(Removing!XS) \cup {Removing!Gone} /\ F \subseteq Int /\ \A x \in F \ {Removing!Gone} : \A j \in Slots : c.slots[j] # x
    BY <1>5, <1>6, <2>1, <2>2
  <2> QED
    BY <1>7, <1>8, <2>1, <2>2, <2>3
<1>9. ASSUME l.len < Room, NEW b \in Spare \ (Removing!ToSet(Removing!Items(l)) \cup dropped), NEW k \in 0..l.len,
             lists' = [lists EXCEPT ![Removing!XS] = Removing!Insert(l, k, b)], dropped' = dropped
      PROVE  RemovingInv'
  <2>1. PICK c : c = Removing!Insert(l, k, b)
    OBVIOUS
  <2>2. b \in Int /\ b # Removing!Gone /\ b \in Owned(Removing!XS) /\ b \notin dropped
    BY Numbers, OwnedIs
  <2>3. /\ c \in Lists /\ Unique(c) /\ Zeros(c)
        /\ \A j \in Slots : c.slots[j] \in {Removing!Gone, b} \/ \E x \in Slots : c.slots[j] = l.slots[x]
    BY <1>5, <1>9, <2>1, <2>2, InsertIs
  <2>4. PICK L : L = [lists EXCEPT ![Removing!XS] = c]
    OBVIOUS
  <2>5. \A n \in Removing!Names : L[n] = IF n = Removing!XS THEN c ELSE lists[n]
    BY <1>3, <2>4
  <2>6. \A j \in Slots : c.slots[j] \in Owned(Removing!XS) \cup {Removing!Gone} /\ c.slots[j] \notin dropped \ {Removing!Gone}
    <3>1. Removing!XS \in Shown(dropped)
      BY DEF Shown
    <3>2. \A j \in Slots : l.slots[j] \notin dropped \ {Removing!Gone}
      BY <1>1, <1>3, <3>1 DEF Apart
    <3> QED
      BY <1>6, <2>2, <2>3, <3>2
  <2>7. Apart(L, dropped)
    <3>1. Shown(dropped) \subseteq Removing!Names /\ {Removing!Gone} \cup Spare \subseteq Removing!Names
      BY Numbers DEF Shown
    <3>2. \A n \in Removing!Names : Unique(L[n])
      BY <1>3, <2>3, <2>5 DEF Apart
    <3>3. \A n \in Removing!Names : \A j \in Slots : L[n].slots[j] \in Owned(n) \cup {Removing!Gone}
      BY <1>3, <2>5, <2>6 DEF Apart
    <3>4. \A n \in Shown(dropped) : \A j \in Slots : L[n].slots[j] \notin dropped \ {Removing!Gone}
      BY <1>3, <2>5, <2>6, <3>1 DEF Apart
    <3>5. \A n \in {Removing!Gone} \cup Spare : L[n].len = 0
      BY <1>3, <1>4, <2>5, <3>1 DEF Apart
    <3> QED
      BY <3>2, <3>3, <3>4, <3>5 DEF Apart
  <2>8. Apart(L, dropped') /\ dropped' \subseteq Int /\ lists' = L
    BY <1>3, <1>9, <2>1, <2>4, <2>7
  <2> QED
    BY <1>2, <2>3, <2>4, <2>8, OthersKeep
<1>10. ASSUME lists' = [lists EXCEPT ![Removing!XS] = Removing!Clear(l)], Removing!Drop(Removing!ToSet(Removing!Items(l)))
       PROVE  RemovingInv'
  <2>1. PICK c, F : c = Removing!Clear(l) /\ F = Removing!ToSet(Removing!Items(l))
    OBVIOUS
  <2>2. Shuffled(c, l) /\ Zeros(c) /\ \A k \in Slots : c.slots[k] = Removing!Gone
    BY <1>5, <2>1, ClearIs
  <2>3. F \subseteq Owned(Removing!XS) \cup {Removing!Gone}
    <3> SUFFICES ASSUME NEW v \in F  PROVE v \in Owned(Removing!XS) \cup {Removing!Gone}
      OBVIOUS
    <3>1. PICK k \in 1..l.len : v = l.slots[k - 1]
      BY <2>1 DEF Removing!ToSet, Removing!Items
    <3>2. k - 1 \in Slots
      BY <1>5, <3>1, Numbers DEF Slots, Lists
    <3> QED
      BY <1>6, <3>1, <3>2
  <2>4. F \subseteq Int
    BY <1>4, <2>3, Numbers
  <2> QED
    BY <1>7, <1>10, <2>1, <2>2, <2>3, <2>4
<1> QED
  BY <1>2, <1>8, <1>9, <1>10

(* A program begins and ends. *)

LEMMA ListIs ==
    ASSUME NEW items \in Seq(Int), Len(items) <= Room, \A i, j \in DOMAIN items : items[i] = items[j] => i = j
    PROVE  /\ Removing!List(items) \in Lists /\ Unique(Removing!List(items)) /\ Zeros(Removing!List(items))
           /\ Removing!List(items).len = Len(items) /\ Rests(Removing!List(items), items)
           /\ \A k \in Slots : Removing!List(items).slots[k] = Removing!Gone \/ Removing!List(items).slots[k] \in Removing!ToSet(items)
<1>1. PICK n \in Nat : n = Len(items) /\ DOMAIN items = 1..n /\ n <= Room
  BY LenProperties
<1>2. PICK c : c = Removing!List(items)
  OBVIOUS
<1>3. c = [len |-> n, slots |-> [k \in Slots |-> IF k < n THEN items[k + 1] ELSE Removing!Gone]]
  BY <1>1, <1>2 DEF Removing!List, Slots
<1>4. \A k \in Slots : k \in Nat /\ (k < n => k + 1 \in 1..n /\ items[k + 1] \in Int)
  BY <1>1, Numbers
<1>5. [k \in Slots |-> IF k < n THEN items[k + 1] ELSE Removing!Gone] \in [Slots -> Int]
  BY <1>4, Numbers
<1>6. c \in Lists
  BY <1>1, <1>3, <1>5, Numbers DEF Lists
<1>7. c.len = n /\ \A k \in Slots : c.slots[k] = IF k < n THEN items[k + 1] ELSE Removing!Gone
  BY <1>3
<1>8. Unique(c)
  <2> SUFFICES ASSUME NEW j \in Slots, NEW k \in Slots, c.slots[j] = c.slots[k], j # k, c.slots[j] # Removing!Gone
               PROVE  FALSE
    BY DEF Unique
  <2>1. j < n /\ k < n /\ items[j + 1] = items[k + 1]
    BY <1>7
  <2>2. j + 1 \in 1..n /\ k + 1 \in 1..n /\ j \in Nat /\ k \in Nat
    BY <1>4, <2>1
  <2>3. j + 1 = k + 1
    BY <1>1, <2>1, <2>2
  <2> QED
    BY <2>2, <2>3
<1>9. Zeros(c)
  BY <1>1, <1>4, <1>7 DEF Zeros
<1>10. Rests(c, items)
  BY <1>1, <1>4, <1>7 DEF Rests, Packed
<1>11. \A k \in Slots : c.slots[k] = Removing!Gone \/ c.slots[k] \in Removing!ToSet(items)
  BY <1>1, <1>4, <1>7 DEF Removing!ToSet
<1> QED
  BY <1>1, <1>2, <1>6, <1>7, <1>8, <1>9, <1>10, <1>11

\* What each list is to hold at first.
FirstWanted(W) ==
    /\ W \in [Removing!Names -> Seq(Int)]
    /\ \A n \in Removing!Names :
          /\ Len(W[n]) <= Room
          /\ \A i, j \in DOMAIN W[n] : W[n][i] = W[n][j] => i = j
          /\ Removing!ToSet(W[n]) \subseteq Owned(n)
    /\ \A n \in {Removing!Gone} \cup Spare : Len(W[n]) = 0

LEMMA FirstLists ==
    ASSUME NEW W, FirstWanted(W), NEW L, L = [n \in Removing!Names |-> Removing!List(W[n])]
    PROVE  /\ L \in [Removing!Names -> Lists] /\ Apart(L, {}) /\ Wanted(W)
           /\ \A n \in Removing!Names : Zeros(L[n]) /\ Rests(L[n], W[n])
<1>1. ASSUME NEW n \in Removing!Names
      PROVE  /\ L[n] \in Lists /\ Unique(L[n]) /\ Zeros(L[n]) /\ Rests(L[n], W[n])
             /\ L[n].len = Len(W[n])
             /\ \A k \in Slots : L[n].slots[k] = Removing!Gone \/ L[n].slots[k] \in Removing!ToSet(W[n])
  <2>1. PICK s \in Seq(Int) : s = W[n]
    BY DEF FirstWanted
  <2>2. Len(s) <= Room /\ \A i, j \in DOMAIN s : s[i] = s[j] => i = j
    BY <2>1 DEF FirstWanted
  <2>3. L[n] = Removing!List(s)
    BY <2>1
  <2> QED
    BY <2>1, <2>2, <2>3, ListIs
<1>2. L \in [Removing!Names -> Lists]
  BY <1>1
<1>3. Apart(L, {})
  <2>1. {Removing!Gone} \cup Spare \subseteq Removing!Names
    BY Numbers
  <2>2. \A n \in Removing!Names : \A k \in Slots : L[n].slots[k] \in Owned(n) \cup {Removing!Gone}
    BY <1>1 DEF FirstWanted
  <2>3. \A n \in {Removing!Gone} \cup Spare : L[n].len = 0
    BY <1>1, <2>1 DEF FirstWanted
  <2> QED
    BY <1>1, <2>2, <2>3 DEF Apart
<1>4. Wanted(W)
  <2>1. ASSUME NEW n \in Removing!Names, NEW k \in DOMAIN W[n]  PROVE W[n][k] # Removing!Gone
    <3>1. W[n][k] \in Owned(n)
      BY DEF FirstWanted, Removing!ToSet
    <3> QED
      BY <3>1, OwnedApart
  <2> QED
    BY <2>1 DEF FirstWanted, Wanted
<1> QED
  BY <1>1, <1>2, <1>3, <1>4

LEMMA NothingWanted == FirstWanted(Removing!NoItems) /\ Removing!NoLists = [n \in Removing!Names |-> Removing!List(Removing!NoItems[n])]
<1>1. \A n \in Removing!Names : Removing!NoItems[n] = <<>>
  BY DEF Removing!NoItems
<1>2. <<>> \in Seq(Int) /\ Len(<<>>) = 0 /\ DOMAIN <<>> = {} /\ Removing!ToSet(<<>>) = {}
  BY DEF Removing!ToSet
<1>3. {Removing!Gone} \cup Spare \subseteq Removing!Names /\ 0 <= Room
  BY Numbers
<1>4. Removing!NoItems \in [Removing!Names -> Seq(Int)]
  BY <1>2 DEF Removing!NoItems
<1> QED
  BY <1>1, <1>2, <1>3, <1>4 DEF FirstWanted, Removing!NoLists

LEMMA IdleKeeps ==
    ASSUME NEW m, m = [lists |-> Removing!NoLists, loops |-> <<>>, ok |-> TRUE]
    PROVE  Sound(m, {}) /\ Wanted(Removing!NoItems) /\ Keeps(m, Removing!NoItems, {}, "body")
<1>1. PICK L, W : L = Removing!NoLists /\ W = Removing!NoItems
  OBVIOUS
<1>2. /\ L \in [Removing!Names -> Lists] /\ Apart(L, {}) /\ Wanted(W)
      /\ \A n \in Removing!Names : Zeros(L[n]) /\ Rests(L[n], W[n])
  BY <1>1, NothingWanted, FirstLists
<1>3. PICK e : e = <<>> /\ e \in Seq(Frames) /\ Len(e) = 0
  BY EmptySeq
<1>4. m.lists = L /\ m.loops = e /\ m.ok /\ m \in Machines
  BY <1>1, <1>2, <1>3 DEF Machines
<1>5. Sound(m, {})
  <2>1. Len(m.loops) <= 2
    BY <1>3, <1>4
  <2> QED
    BY <1>2, <1>3, <1>4, <2>1 DEF Sound
<1>6. Shown({}) \subseteq Removing!Names /\ Removing!XS \in Removing!Names
  BY Numbers DEF Shown
<1>7. Len(m.loops) # 1 /\ Len(m.loops) # 2
  BY <1>3, <1>4
<1>8. Keeps(m, W, {}, "body")
  BY <1>2, <1>4, <1>6, <1>7 DEF Keeps
<1> QED
  BY <1>1, <1>2, <1>5, <1>8


\* The lists of a program whose xs has m items, and every list inside them n.
ItemsOf(W, m, n) ==
    /\ DOMAIN W = Removing!Names /\ W = [x \in Removing!Names |-> W[x]]
    /\ W[Removing!XS] = [k \in 1..m |-> k] /\ W[Removing!YS] = Removing!Inside(Room + 1, n)
    /\ \A x \in 1..Room : W[x] = Removing!Inside(x, n)
    /\ \A x \in Removing!Names : x # Removing!XS /\ x # Removing!YS /\ x \notin 1..Room => W[x] = <<>>

LEMMA FirstItemsOf ==
    ASSUME NEW W, NEW m \in 0..Room, NEW n \in 0..Room, ItemsOf(W, m, n)
    PROVE  FirstWanted(W)
<1>1. m \in 0..Room /\ n \in 0..Room /\ Room \in Nat
  BY Numbers
<1>2. PICK e : e = <<>>
  OBVIOUS
<1>3. /\ W[Removing!XS] = [k \in 1..m |-> k] /\ W[Removing!YS] = Removing!Inside(Room + 1, n)
      /\ \A x \in 1..Room : W[x] = Removing!Inside(x, n)
      /\ \A x \in Removing!Names : x # Removing!XS /\ x # Removing!YS /\ x \notin 1..Room => W[x] = e
  BY <1>2 DEF ItemsOf
<1>4. ASSUME NEW s, s = [k \in 1..m |-> k]
      PROVE  s \in Seq(Int) /\ Len(s) <= Room /\ (\A i, j \in DOMAIN s : s[i] = s[j] => i = j) /\ Removing!ToSet(s) \subseteq Owned(Removing!XS)
  <2>1. s \in Seq(Int) /\ DOMAIN s = 1..m /\ Len(s) = m /\ \A k \in 1..m : s[k] = k /\ k \in 1..Room
    BY <1>1, <1>4
  <2>2. Removing!ToSet(s) \subseteq Owned(Removing!XS)
    BY <2>1, OwnedIs DEF Removing!ToSet
  <2> QED
    BY <1>1, <2>1, <2>2
<1>5. ASSUME NEW b \in 1..(Room + 1), NEW s, s = Removing!Inside(b, n)
      PROVE  /\ s \in Seq(Int) /\ Len(s) <= Room /\ (\A i, j \in DOMAIN s : s[i] = s[j] => i = j)
             /\ Removing!ToSet(s) \subseteq {Removing!Item(b, k) : k \in 1..Room}
  <2>1. \A k \in 1..n : k \in 1..Room /\ Removing!Item(b, k) \in Int
    BY <1>1, ItemIs
  <2>2. s = [k \in 1..n |-> Removing!Item(b, k)]
    BY <1>5 DEF Removing!Inside
  <2>3. s \in Seq(Int) /\ DOMAIN s = 1..n /\ Len(s) = n
    BY <1>1, <2>1, <2>2
  <2>4. \A k \in 1..n : s[k] = Removing!Item(b, k)
    BY <2>2
  <2>5. \A i, j \in 1..n : s[i] = s[j] => i = j
    BY <2>1, <2>4, ItemIs
  <2>6. Removing!ToSet(s) \subseteq {Removing!Item(b, k) : k \in 1..Room}
    BY <2>1, <2>3, <2>4 DEF Removing!ToSet
  <2> QED
    BY <1>1, <2>3, <2>5, <2>6
<1>6. e \in Seq(Int) /\ Len(e) = 0 /\ DOMAIN e = {} /\ Removing!ToSet(e) = {}
  BY <1>2 DEF Removing!ToSet
<1>7. ASSUME NEW x \in Removing!Names
      PROVE  /\ W[x] \in Seq(Int) /\ Len(W[x]) <= Room /\ (\A i, j \in DOMAIN W[x] : W[x][i] = W[x][j] => i = j)
             /\ Removing!ToSet(W[x]) \subseteq Owned(x)
  <2>1. CASE x = Removing!XS
    <3>1. PICK s : s = [k \in 1..m |-> k]
      OBVIOUS
    <3>2. W[x] = s
      BY <1>3, <2>1, <3>1
    <3>3. /\ s \in Seq(Int) /\ Len(s) <= Room /\ (\A i, j \in DOMAIN s : s[i] = s[j] => i = j)
          /\ Removing!ToSet(s) \subseteq Owned(Removing!XS)
      BY <1>4, <3>1
    <3> QED
      BY <2>1, <3>2, <3>3
  <2>2. CASE x = Removing!YS
    <3>1. Room + 1 \in 1..(Room + 1)
      BY <1>1
    <3>2. PICK s : s = Removing!Inside(Room + 1, n)
      OBVIOUS
    <3> QED
      BY <1>3, <1>5, <2>2, <3>1, <3>2, OwnedIs
  <2>3. CASE x \in 1..Room
    <3>1. x \in 1..(Room + 1)
      BY <1>1, <2>3
    <3>2. PICK s : s = Removing!Inside(x, n)
      OBVIOUS
    <3> QED
      BY <1>3, <1>5, <2>3, <3>1, <3>2, OwnedIs
  <2>4. CASE x # Removing!XS /\ x # Removing!YS /\ x \notin 1..Room
    <3>1. W[x] = e
      BY <1>3, <2>4
    <3>2. /\ e \in Seq(Int) /\ Len(e) <= Room /\ (\A i, j \in DOMAIN e : e[i] = e[j] => i = j)
          /\ Removing!ToSet(e) \subseteq Owned(x)
      BY <1>1, <1>6
    <3> QED
      BY <3>1, <3>2
  <2> QED
    BY <2>1, <2>2, <2>3, <2>4
<1>8. \A x \in {Removing!Gone} \cup Spare : Len(W[x]) = 0
  <2>1. \A x \in {Removing!Gone} \cup Spare : x \in Removing!Names /\ x # Removing!XS /\ x # Removing!YS /\ x \notin 1..Room
    BY Numbers
  <2> QED
    BY <1>3, <1>6, <2>1
<1>9. W \in [Removing!Names -> Seq(Int)]
  <2>1. DOMAIN W = Removing!Names /\ W = [x \in Removing!Names |-> W[x]]
    BY DEF ItemsOf
  <2> QED
    BY <1>7, <2>1
<1> QED
  BY <1>7, <1>8, <1>9 DEF FirstWanted

LEMMA FirstItems ==
    ASSUME NEW p \in Programs, NEW W,
           W = [x \in Removing!Names |-> CASE x = Removing!XS -> [k \in 1..p[1] |-> k]
                                  [] x = Removing!YS -> Removing!Inside(Room + 1, p[2])
                                  [] x \in 1..Room -> Removing!Inside(x, p[2])
                                  [] OTHER -> <<>>]
    PROVE  FirstWanted(W)
<1>1. PICK m, n : m = p[1] /\ n = p[2]
  OBVIOUS
<1>2. m \in 0..Room /\ n \in 0..Room /\ Room \in Nat
  BY <1>1, ProgramsAssumption
<1>3. Removing!XS \in Removing!Names /\ Removing!YS \in Removing!Names /\ Removing!XS # Removing!YS /\ Removing!XS \notin 1..Room /\ Removing!YS \notin 1..Room /\ 1..Room \subseteq Removing!Names
  BY Numbers
<1>4. /\ W[Removing!XS] = [k \in 1..m |-> k] /\ W[Removing!YS] = Removing!Inside(Room + 1, n)
      /\ \A x \in 1..Room : W[x] = Removing!Inside(x, n)
      /\ \A x \in Removing!Names : x # Removing!XS /\ x # Removing!YS /\ x \notin 1..Room => W[x] = <<>>
  BY <1>1, <1>3
<1>5. DOMAIN W = Removing!Names /\ W = [x \in Removing!Names |-> W[x]]
  OBVIOUS
<1>6. ItemsOf(W, m, n)
  BY <1>4, <1>5 DEF ItemsOf
<1> QED
  BY <1>2, <1>6, FirstItemsOf

LEMMA BeginInv == RemovingInv /\ Removing!Begin => RemovingInv'
<1> SUFFICES ASSUME RemovingInv, Removing!Begin  PROVE RemovingInv'
  OBVIOUS
<1>1. PICK p \in Programs :
        /\ want' = [x \in Removing!Names |-> CASE x = Removing!XS -> [k \in 1..p[1] |-> k]
                                      [] x = Removing!YS -> Removing!Inside(Room + 1, p[2])
                                      [] x \in 1..Room -> Removing!Inside(x, p[2])
                                      [] OTHER -> <<>>]
        /\ shared' = p[3]
  BY DEF Removing!Begin
<1>2. PICK W : W = want'
  OBVIOUS
<1>3. PICK L : L = lists'
  OBVIOUS
<1>4. /\ stage = "idle" /\ L = [x \in Removing!Names |-> Removing!List(W[x])]
      /\ removing' = <<Removing!Loop(L[Removing!XS], FALSE, FALSE)>> /\ stage' = "top" /\ dropped' = dropped
  BY <1>2, <1>3 DEF Removing!Begin
<1>5. dropped' = {}
  BY <1>4 DEF RemovingInv, RemovingType
<1>6. FirstWanted(W)
  BY <1>1, <1>2, FirstItems
<1>7. /\ L \in [Removing!Names -> Lists] /\ Apart(L, {}) /\ Wanted(W)
      /\ \A n \in Removing!Names : Zeros(L[n]) /\ Rests(L[n], W[n])
  BY <1>4, <1>6, FirstLists
<1>8. shared' \in BOOLEAN
  BY <1>1, ProgramsAssumption
<1>9. Removing!XS \in Removing!Names /\ {} \subseteq Int /\ Shown({}) \subseteq Removing!Names
  BY Numbers DEF Shown
<1>10. PICK l \in Lists : l = L[Removing!XS]
  BY <1>7, <1>9
<1>11. l.len \in Nat
  BY DEF Lists
<1>12. PICK f : f = [i |-> 0, end |-> l.len, kept |-> 0, next |-> 0, removed |-> FALSE, inside |-> FALSE, gone |-> FALSE]
  OBVIOUS
<1>13. f \in Frames
  BY <1>11, <1>12 DEF Frames
<1>14. PICK ls : ls = <<f>>
  OBVIOUS
<1>15. ls \in Seq(Frames) /\ Len(ls) = 1 /\ ls[1] = f /\ ls # <<>>
  BY <1>13, <1>14
<1>16. removing' = ls
  BY <1>4, <1>10, <1>12, <1>14 DEF Removing!Loop
<1>17. PICK r : r = [lists |-> L, loops |-> ls, ok |-> TRUE]
  OBVIOUS
<1>18. r.lists = L /\ r.loops = ls /\ r.ok /\ r \in Machines
  BY <1>7, <1>15, <1>17 DEF Machines
<1>19. Removing!Now' = r
  BY <1>3, <1>16, <1>17 DEF Removing!Now
<1>20. Sound(r, {})
  <2>1. ~f.inside /\ r.loops = ls /\ 1 <= 2
    BY <1>12, <1>18
  <2>2. Len(r.loops) <= 2 /\ ~r.loops[1].inside
    BY <1>15, <2>1
  <2> QED
    BY <1>7, <1>9, <1>18, <2>2 DEF Sound
<1>21. Keeps(r, W, {}, "top")
  <2>1. Packed(l, W[Removing!XS], 0, 0)
    BY <1>7, <1>9, <1>10, RestsBegins
  <2>2. Runs(l, W[Removing!XS], f, "top")
    BY <1>12, <2>1 DEF Runs
  <2>3. Len(r.loops) = 1 /\ Len(r.loops) # 2 /\ r.loops # <<>> /\ r.loops[1] = f
    BY <1>15, <1>18
  <2>4. \A n \in Shown({}) \ Looping(r) : Rests(L[n], W[n])
    BY <1>7, <1>9
  <2> QED
    BY <1>10, <1>18, <2>2, <2>3, <2>4 DEF Keeps
<1>22. RemovingType'
  BY <1>2, <1>4, <1>5, <1>6, <1>8, <1>15, <1>16 DEF RemovingType, FirstWanted
<1> QED
  BY <1>2, <1>4, <1>5, <1>7, <1>19, <1>20, <1>21, <1>22 DEF RemovingInv

LEMMA IdleInv ==
    ASSUME Removing!Init
    PROVE  RemovingInv
<1>1. PICK m : m = [lists |-> Removing!NoLists, loops |-> <<>>, ok |-> TRUE]
  OBVIOUS
<1>2. Removing!Now = m
  BY <1>1 DEF Removing!Init, Removing!Now
<1>3. Sound(m, {}) /\ Wanted(Removing!NoItems) /\ Keeps(m, Removing!NoItems, {}, "body")
  BY <1>1, IdleKeeps
<1>4. Removing!NoItems \in [Removing!Names -> Seq(Int)]
  BY NothingWanted DEF FirstWanted
<1>5. RemovingType
  BY <1>4 DEF RemovingType, Removing!Init
<1> QED
  BY <1>2, <1>3, <1>5 DEF RemovingInv, Removing!Init

LEMMA RestInv == Removing!Rest => RemovingInv'
<1> SUFFICES ASSUME Removing!Rest  PROVE RemovingInv'
  OBVIOUS
<1>1. PICK m : m = [lists |-> Removing!NoLists, loops |-> <<>>, ok |-> TRUE]
  OBVIOUS
<1>2. Removing!Now' = m
  BY <1>1 DEF Removing!Rest, Removing!Now
<1>3. Sound(m, {}) /\ Wanted(Removing!NoItems) /\ Keeps(m, Removing!NoItems, {}, "body")
  BY <1>1, IdleKeeps
<1>4. Removing!NoItems \in [Removing!Names -> Seq(Int)]
  BY NothingWanted DEF FirstWanted
<1>5. RemovingType'
  BY <1>4 DEF RemovingType, Removing!Rest
<1> QED
  BY <1>2, <1>3, <1>5 DEF RemovingInv, Removing!Rest

LEMMA RemovingStep == RemovingInv /\ (Removing!Next \/ UNCHANGED list) => RemovingInv'
<1> SUFFICES ASSUME RemovingInv, Removing!Next \/ UNCHANGED list  PROVE RemovingInv'
  OBVIOUS
<1>1. CASE Removing!Begin
  BY <1>1, BeginInv
<1>2. CASE Removing!Pass
  BY <1>2, PassInv
<1>3. CASE Removing!End
  BY <1>3, EndInv
<1>4. CASE Removing!EndBody
  BY <1>4, EndBodyInv
<1>5. CASE Removing!Break \/ Removing!Return
  BY <1>5, BreakInv
<1>6. CASE Removing!Others
  BY <1>6, OthersInv
<1>7. CASE Removing!Rest
  BY <1>7, RestInv
<1>8. ASSUME NEW d \in DOMAIN removing, Removing!RemoveItem(d)  PROVE RemovingInv'
  BY <1>8, RemoveItemInv
<1>9. ASSUME NEW inside \in BOOLEAN, Removing!Nest(inside)  PROVE RemovingInv'
  BY <1>9, NestInv
<1>10. CASE UNCHANGED list
  BY <1>10 DEF list, RemovingInv, RemovingType, Removing!Now
<1> QED
  BY <1>1, <1>2, <1>3, <1>4, <1>5, <1>6, <1>7, <1>8, <1>9, <1>10 DEF Removing!Next


LEMMA WholeIs ==
    ASSUME RemovingInv, NEW n \in Removing!Names, lists \in [Removing!Names -> Lists], Rests(lists[n], want[n])
    PROVE  Removing!Whole(n)
<1>1. want[n] \in Seq(Int) /\ lists[n] \in Lists
  BY DEF RemovingInv, RemovingType
<1>2. PICK l \in Lists, items \in Seq(Int) : l = lists[n] /\ items = want[n]
  BY <1>1
<1>3. Removing!Items(l) = items /\ \A k \in DOMAIN l.slots : k >= l.len => l.slots[k] = Removing!Gone
  BY <1>2, RestsWhole
<1> QED
  BY <1>2, <1>3 DEF Removing!Whole

LEMMA HeldOnce ==
    ASSUME Apart(lists, dropped), NEW p \in Removing!Places
    PROVE  Removing!Held(p) \notin dropped /\ \A q \in Removing!Places : Removing!Held(p) = Removing!Held(q) => p = q
<1>1. Removing!Reached = Shown(dropped) /\ Shown(dropped) \subseteq Removing!Names
  BY Numbers DEF Removing!Reached, Shown
<1>2. ASSUME NEW q \in Removing!Places
      PROVE  /\ q = <<q[1], q[2]>> /\ q[1] \in Shown(dropped) /\ q[1] \in Removing!Names /\ q[2] \in Slots
             /\ Removing!Held(q) = lists[q[1]].slots[q[2]] /\ Removing!Held(q) # Removing!Gone
  BY <1>1 DEF Removing!Places, Removing!Held, Slots
<1>3. Removing!Held(p) \notin dropped
  BY <1>2 DEF Apart
<1>4. ASSUME NEW q \in Removing!Places, Removing!Held(p) = Removing!Held(q)  PROVE p = q
  <2>1. Removing!Held(p) \in Owned(p[1]) /\ Removing!Held(p) \in Owned(q[1])
    BY <1>2, <1>4 DEF Apart
  <2>2. q[1] = p[1]
    BY <1>2, <2>1, OwnedApart
  <2>3. Unique(lists[p[1]])
    BY <1>2 DEF Apart
  <2>4. q[2] = p[2]
    BY <1>2, <1>4, <2>2, <2>3 DEF Unique
  <2> QED
    BY <1>2, <2>2, <2>4
<1> QED
  BY <1>3, <1>4

LEMMA RemovingShows == RemovingInv /\ stage # "idle" => Removing!RemovingIsWhole
<1> SUFFICES ASSUME RemovingInv, stage # "idle"  PROVE Removing!RemovingIsWhole
  OBVIOUS
<1>1. stage = "stopped" => shared
  BY DEF RemovingInv
<1>2. Apart(lists, dropped)
  BY DEF RemovingInv, Sound, Removing!Now
<1>3. \A p \in Removing!Places : Removing!Held(p) \notin dropped /\ \A q \in Removing!Places : Removing!Held(p) = Removing!Held(q) => p = q
  BY <1>2, HeldOnce
<1>4. ~shared => Wanted(want) /\ Sound(Removing!Now, dropped) /\ \E mode \in {"top", "body"} : Keeps(Removing!Now, want, dropped, mode)
  BY <1>1 DEF RemovingInv
<1>5. Removing!Now.lists = lists /\ Removing!Now.loops = removing
  BY DEF Removing!Now
<1>6. ~shared => lists \in [Removing!Names -> Lists]
  BY <1>4, <1>5 DEF Sound, Machines
<1>7. Removing!XS \in Removing!Names /\ Shown(dropped) \subseteq Removing!Names /\ Removing!Reached = Shown(dropped)
  BY Numbers DEF Shown, Removing!Reached
<1>8. ASSUME ~shared, stage = "left"  PROVE Removing!Whole(Removing!XS)
  <2>1. removing = <<>>
    BY <1>8 DEF RemovingInv, RemovingType
  <2>2. Rests(lists[Removing!XS], want[Removing!XS])
    BY <1>4, <1>5, <1>8, <2>1 DEF Keeps
  <2> QED
    BY <1>6, <1>7, <1>8, <2>2, WholeIs
<1>9. ASSUME ~shared, Len(removing) <= 1, NEW n \in Removing!Reached \ {Removing!XS}  PROVE Removing!Whole(n)
  <2>1. Len(Removing!Now.loops) # 2
    <3> SUFFICES ASSUME Len(removing) = 2  PROVE FALSE
      BY <1>5
    <3>1. 2 <= 1
      BY <1>9
    <3> QED
      BY <3>1
  <2>2. n \notin Looping(Removing!Now)
    BY <1>9, <2>1 DEF Looping
  <2>3. Rests(lists[n], want[n])
    BY <1>4, <1>5, <1>7, <1>9, <2>2 DEF Keeps
  <2> QED
    BY <1>6, <1>7, <1>9, <2>3, WholeIs
<1> QED
  BY <1>1, <1>3, <1>8, <1>9 DEF Removing!RemovingIsWhole

\* However a loop that removes is left, and whatever the loops inside it removed, the
\* list is whole, no legal program fails at an index, and nobody reaches freed memory
\* (kir/src/lower/remove.rs): for lists of any room, and for every program.
THEOREM RemovingStaysWhole == CollectionsSpec => []RemovingIsWhole
<1>1. CollectionsInit => RemovingInv
  BY IdleInv DEF CollectionsInit
<1>2. RemovingInv /\ [CollectionsNext]_<<vars, list>> => RemovingInv'
  <2> SUFFICES ASSUME RemovingInv, [CollectionsNext]_<<vars, list>>  PROVE RemovingInv'
    OBVIOUS
  <2>1. Removing!Next \/ UNCHANGED list
    BY DEF CollectionsNext, OverMaps, OverLists
  <2> QED
    BY <2>1, RemovingStep
<1>3. RemovingInv => RemovingIsWhole
  BY RemovingShows DEF RemovingIsWhole
<1> QED
  BY <1>1, <1>2, <1>3, PTL DEF CollectionsSpec
=============================================================================
