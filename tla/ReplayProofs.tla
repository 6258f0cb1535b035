---------------------------- MODULE ReplayProofs ----------------------------
(***************************************************************************)
(* Theorems about Replay, for any programs, natives, results, bytes and    *)
(* writes: the same program's replay matches, and no other does.           *)
(*                                                                         *)
(* The file is what a function of the run makes of it (RecordedAs, then    *)
(* WrittenAs), and the replay's places in the file are those functions of  *)
(* what it did (RepeatedAs).  Lines are told from the text they are of     *)
(* (SplitTells), a log from its run (LogTells), and the answers of a       *)
(* window from its number of frames (FramesTell).                          *)
(***************************************************************************)
EXTENDS Replay, WellFoundedInduction, FiniteSetTheorems, SequenceTheorems, TLAPS
-----------------------------------------------------------------------------
(* Numbers. *)

LEMMA LeastExists ==
    ASSUME NEW S, S \subseteq Nat, S # {}
    PROVE  \E x \in S : \A y \in S : x <= y
<1> DEFINE R == OpToRel(<, Nat)
<1>1. PICK x \in S : \A y \in S : ~(<<y, x>> \in R)
  BY NatLessThanWellFounded, WFMin, Zenon
<1>2. \A y \in S : ~(y < x)
  BY <1>1 DEF OpToRel
<1> QED
  BY <1>2

LEMMA UpTo ==
    ASSUME NEW n \in Nat, NEW S, 0 \in S, \A i \in 0..(n - 1) : i \in S => i + 1 \in S
    PROVE  0..n \subseteq S
<1> DEFINE T == {i \in 0..n : i \notin S}
<1> SUFFICES ASSUME T # {}  PROVE FALSE
  OBVIOUS
<1>1. T \subseteq Nat
  OBVIOUS
<1>2. PICK x \in T : \A i \in T : x <= i
  <2> HIDE DEF T
  <2> QED
    BY <1>1, LeastExists
<1>3. x - 1 \in 0..(n - 1) /\ x - 1 \notin T
  BY <1>2
<1> QED
  BY <1>2, <1>3

\* A definition by recursion over 0..n has a solution.
Solves(g, m, X, x, F) ==
    g \in [0..m -> X] /\ \A i \in 0..m : g[i] = IF i = 0 THEN x ELSE F[i][g[i - 1]]

LEMMA RecursionExists ==
    ASSUME NEW n \in Nat, NEW X, NEW x \in X, NEW F \in [1..n -> [X -> X]]
    PROVE  \E g : Solves(g, n, X, x, F)
<1> DEFINE S == {m \in 0..n : \E g : Solves(g, m, X, x, F)}
<1>1. 0 \in S
  <2>1. Solves([i \in 0..0 |-> x], 0, X, x, F)
    BY DEF Solves
  <2> QED
    BY <2>1
<1>2. ASSUME NEW m \in 0..(n - 1), m \in S  PROVE m + 1 \in S
  <2>1. PICK g : Solves(g, m, X, x, F)
    BY <1>2
  <2> DEFINE h == [i \in 0..(m + 1) |-> IF i <= m THEN g[i] ELSE F[m + 1][g[m]]]
  <2>2. g[m] \in X /\ F[m + 1][g[m]] \in X
    BY <2>1 DEF Solves
  <2>3. h \in [0..(m + 1) -> X]
    BY <2>1, <2>2 DEF Solves
  <2>4. \A i \in 0..(m + 1) : h[i] = IF i = 0 THEN x ELSE F[i][h[i - 1]]
    BY <2>1 DEF Solves
  <2>5. Solves(h, m + 1, X, x, F)
    BY <2>3, <2>4 DEF Solves
  <2> QED
    BY <2>5
<1>3. n \in S
  <2> HIDE DEF S
  <2>1. 0..n \subseteq S
    BY <1>1, <1>2, UpTo
  <2> QED
    BY <2>1
<1> QED
  BY <1>3

LEMMA SolutionsAgree ==
    ASSUME NEW n \in Nat, NEW X, NEW x, NEW F, NEW G, NEW m \in Nat, n <= m, NEW g, NEW h,
           Solves(g, n, X, x, F), Solves(h, m, X, x, G), \A i \in 1..n : F[i] = G[i]
    PROVE  g[n] = h[n]
<1> DEFINE S == {i \in 0..n : g[i] = h[i]}
<1>1. 0 \in S
  BY DEF Solves
<1>2. ASSUME NEW i \in 0..(n - 1), i \in S  PROVE i + 1 \in S
  <2>1. i + 1 \in 0..n /\ i + 1 \in 0..m /\ i + 1 # 0 /\ i + 1 - 1 = i /\ i + 1 \in 1..n
    OBVIOUS
  <2>2. g[i + 1] = F[i + 1][g[i]] /\ h[i + 1] = G[i + 1][h[i]]
    BY <2>1 DEF Solves
  <2> QED
    BY <1>2, <2>1, <2>2
<1>3. 0..n \subseteq S
  <2> HIDE DEF S
  <2> QED
    BY <1>1, <1>2, UpTo
<1> QED
  BY <1>3

(* What is made of bytes and of steps, one after the other. *)

Open   == Bytes \ {NL}
Splits == [lines : Seq(Seq(Open)), rest : Seq(Open)]

NativeSteps == [op : {<<"native", id>> : id \in Natives}, result : Values]
FrameSteps  == [op : {<<"frame">>}, result : BOOLEAN]
QuietSteps  == [op : {<<"draw">>, <<"close">>} \cup {<<"print", chunk>> : chunk \in Chunks}, result : {"none"}]
EndSteps    == [op : {<<"end", ending>> : ending \in Endings}, result : {"none"}]
ResultSteps == NativeSteps \cup FrameSteps
Steps       == ResultSteps \cup QuietSteps \cup EndSteps

SplitAt(s, b)  == IF b = NL THEN [lines |-> Append(s.lines, s.rest), rest |-> <<>>]
                  ELSE [lines |-> s.lines, rest |-> Append(s.rest, b)]
ResultAt(s, e) == IF IsResult(e) THEN Append(s, e) ELSE s
OutputAt(s, e, w) == s \o Text(e, w)

LEMMA SplitTyped == \A s \in Splits, b \in Bytes : SplitAt(s, b) \in Splits
<1> SUFFICES ASSUME NEW s \in Splits, NEW b \in Bytes  PROVE SplitAt(s, b) \in Splits
  OBVIOUS
<1>1. PICK lines \in Seq(Seq(Open)), rest \in Seq(Open) : lines = s.lines /\ rest = s.rest
  BY DEF Splits
<1>2. Append(lines, rest) \in Seq(Seq(Open)) /\ <<>> \in Seq(Open)
  OBVIOUS
<1>3. CASE b = NL
  BY <1>1, <1>2, <1>3 DEF SplitAt, Splits
<1>4. CASE b # NL
  <2>1. b \in Open
    BY <1>4 DEF Open
  <2>2. Append(rest, b) \in Seq(Open)
    BY <2>1
  <2> QED
    BY <1>1, <1>4, <2>2 DEF SplitAt, Splits
<1> QED
  BY <1>3, <1>4

LEMMA TextIs ==
    /\ \A e, w : e.op[1] = "print" => Text(e, w) = e.op[2]
    /\ \A e, w : e.op[1] = "draw" => Text(e, w) = IF w THEN DrawLine ELSE <<>>
    /\ \A e, w : e.op[1] \notin {"print", "draw"} => Text(e, w) = <<>>
BY DEF Text

LEMMA OpsAre ==
    \A e \in Steps : \/ e.op[1] \in {"native", "frame", "close", "end", "draw"}
                     \/ e.op[1] = "print" /\ e.op[2] \in Chunks
<1> SUFFICES ASSUME NEW e \in Steps
             PROVE  e.op[1] \in {"native", "frame", "close", "end", "draw"} \/ (e.op[1] = "print" /\ e.op[2] \in Chunks)
  OBVIOUS
<1>1. CASE e \in NativeSteps
  <2>1. PICK id \in Natives : e.op = <<"native", id>>
    BY <1>1 DEF NativeSteps
  <2> QED
    BY <2>1
<1>2. CASE e \in FrameSteps
  <2>1. e.op = <<"frame">>
    BY <1>2 DEF FrameSteps
  <2> QED
    BY <2>1
<1>3. CASE e \in QuietSteps
  <2>1. e.op = <<"draw">> \/ e.op = <<"close">> \/ \E chunk \in Chunks : e.op = <<"print", chunk>>
    BY <1>3 DEF QuietSteps
  <2> QED
    BY <2>1
<1>4. CASE e \in EndSteps
  <2>1. PICK ending \in Endings : e.op = <<"end", ending>>
    BY <1>4 DEF EndSteps
  <2> QED
    BY <2>1
<1> QED
  BY <1>1, <1>2, <1>3, <1>4 DEF Steps, ResultSteps

LEMMA ResultsAre ==
    /\ \A e \in NativeSteps : e.op[1] = "native" /\ e.op[2] \in Natives /\ e.op = <<"native", e.op[2]>> /\ e.result \in Values
    /\ \A e \in FrameSteps : e.op[1] = "frame" /\ e.op = <<"frame">> /\ e.result \in BOOLEAN
    /\ \A e \in Steps : IsResult(e) <=> e \in ResultSteps
<1>1. ASSUME NEW e \in NativeSteps
      PROVE  e.op[1] = "native" /\ e.op[2] \in Natives /\ e.op = <<"native", e.op[2]>> /\ e.result \in Values
  <2>1. PICK id \in Natives : e.op = <<"native", id>>
    BY DEF NativeSteps
  <2>2. e.result \in Values
    BY DEF NativeSteps
  <2> QED
    BY <2>1, <2>2
<1>2. ASSUME NEW e \in FrameSteps  PROVE e.op[1] = "frame" /\ e.op = <<"frame">> /\ e.result \in BOOLEAN
  BY DEF FrameSteps
<1>3. ASSUME NEW e \in QuietSteps  PROVE e.op[1] \notin {"native", "frame"}
  <2>1. e.op = <<"draw">> \/ e.op = <<"close">> \/ \E chunk \in Chunks : e.op = <<"print", chunk>>
    BY DEF QuietSteps
  <2> QED
    BY <2>1
<1>4. ASSUME NEW e \in EndSteps  PROVE e.op[1] \notin {"native", "frame"}
  <2>1. PICK ending \in Endings : e.op = <<"end", ending>>
    BY DEF EndSteps
  <2> QED
    BY <2>1
<1>5. \A e \in Steps : IsResult(e) <=> e \in ResultSteps
  BY <1>1, <1>2, <1>3, <1>4 DEF Steps, ResultSteps, IsResult
<1> QED
  BY <1>1, <1>2, <1>5

LEMMA ResultTyped == \A s \in Seq(ResultSteps), e \in Steps : ResultAt(s, e) \in Seq(ResultSteps)
BY ResultsAre DEF ResultAt

LEMMA TextTyped == \A e \in Steps, w \in BOOLEAN : Text(e, w) \in Seq(Bytes)
<1> SUFFICES ASSUME NEW e \in Steps, NEW w \in BOOLEAN  PROVE Text(e, w) \in Seq(Bytes)
  OBVIOUS
<1>1. DrawLine \in Seq(Bytes) /\ \A c \in Chunks : c \in Seq(Bytes)
  BY PrintAssumption
<1>2. <<>> \in Seq(Bytes)
  OBVIOUS
<1> QED
  BY <1>1, <1>2, OpsAre, TextIs

LEMMA OutputTyped == \A s \in Seq(Bytes), e \in Steps, w \in BOOLEAN : OutputAt(s, e, w) \in Seq(Bytes)
BY TextTyped DEF OutputAt

SplitBy(bytes) == [i \in 1..Len(bytes) |-> [s \in Splits |-> SplitAt(s, bytes[i])]]

LEMMA SplitSolves ==
    ASSUME NEW left \in Seq(Open), NEW bytes \in Seq(Bytes)
    PROVE  \E g : Solves(g, Len(bytes), Splits, [lines |-> <<>>, rest |-> left], SplitBy(bytes)) /\ Split(left, bytes) = g[Len(bytes)]
<1>1. [lines |-> <<>>, rest |-> left] \in Splits
  <2>1. <<>> \in Seq(Seq(Open))
    OBVIOUS
  <2> QED
    BY <2>1 DEF Splits
<1>2. PICK n, X, F, x : n = Len(bytes) /\ X = Splits /\ F = SplitBy(bytes) /\ x = [lines |-> <<>>, rest |-> left]
  OBVIOUS
<1>3. n \in Nat /\ x \in X
  BY <1>1, <1>2
<1>4. \A i \in 1..n : bytes[i] \in Bytes
  BY <1>2
<1>5. F = [i \in 1..n |-> [s \in X |-> SplitAt(s, bytes[i])]]
  BY <1>2 DEF SplitBy
<1>6. \A i \in 1..n : \A s \in X : SplitAt(s, bytes[i]) \in X
  BY <1>3, <1>2, <1>4, SplitTyped
<1>7. F \in [1..n -> [X -> X]]
  BY <1>5, <1>6
<1>8. PICK g : Solves(g, n, X, x, F)
  BY <1>3, <1>7, RecursionExists
<1> DEFINE Is(f) == f = [n0 \in 0..Len(bytes) |-> IF n0 = 0 THEN [lines |-> <<>>, rest |-> left] ELSE IF bytes[n0] = NL THEN [lines |-> Append(f[n0 - 1].lines, f[n0 - 1].rest), rest |-> <<>>] ELSE [lines |-> f[n0 - 1].lines, rest |-> Append(f[n0 - 1].rest, bytes[n0])]]
<1>9. \A i \in 1..n : g[i] = SplitAt(g[i - 1], bytes[i])
  <2> SUFFICES ASSUME NEW i \in 1..n  PROVE g[i] = SplitAt(g[i - 1], bytes[i])
    OBVIOUS
  <2>1. i \in 0..n /\ i - 1 \in 0..n /\ i # 0
    BY <1>3
  <2>2. g[i] = F[i][g[i - 1]] /\ g[i - 1] \in X
    BY <1>8, <2>1 DEF Solves
  <2> QED
    BY <1>5, <2>2
<1>10. g[0] = x
  BY <1>3, <1>8 DEF Solves
<1>11. Is(g)
  <2>1. g = [i \in 0..n |-> g[i]]
    BY <1>8 DEF Solves
  <2>2. \A i \in 0..n : i = 0 \/ i \in 1..n
    OBVIOUS
  <2>3. \A n0 \in 0..n : g[n0] = IF n0 = 0 THEN [lines |-> <<>>, rest |-> left] ELSE IF bytes[n0] = NL THEN [lines |-> Append(g[n0 - 1].lines, g[n0 - 1].rest), rest |-> <<>>] ELSE [lines |-> g[n0 - 1].lines, rest |-> Append(g[n0 - 1].rest, bytes[n0])]
    BY <1>2, <1>9, <1>10, <2>2 DEF SplitAt
  <2> QED
    BY <1>2, <2>1, <2>3, Zenon
<1>12. PICK h : Split(left, bytes) = h[Len(bytes)] /\ Is(h)
  <2>1. Split(left, bytes) = (CHOOSE f : Is(f))[Len(bytes)]
    BY DEF Split
  <2>2. Is(CHOOSE f : Is(f))
    BY <1>11
  <2> QED
    BY <2>1, <2>2
<1>13. h[0] = x /\ \A i \in 1..n : h[i] = SplitAt(h[i - 1], bytes[i])
  <2> SUFFICES ASSUME NEW i \in 0..n  PROVE h[i] = IF i = 0 THEN x ELSE SplitAt(h[i - 1], bytes[i])
    BY <1>2
  <2> QED
    BY <1>2, <1>12 DEF SplitAt
<1> HIDE DEF Is
<1> DEFINE S == {i \in 0..n : h[i] = g[i]}
<1>14. 0 \in S
  BY <1>3, <1>10, <1>13
<1>15. ASSUME NEW i \in 0..(n - 1), i \in S  PROVE i + 1 \in S
  <2>1. i + 1 \in 1..n /\ i + 1 \in 0..n /\ i + 1 - 1 = i
    BY <1>3
  <2> QED
    BY <1>9, <1>13, <1>15, <2>1
<1>16. 0..n \subseteq S
  <2> HIDE DEF S
  <2> QED
    BY <1>3, <1>14, <1>15, UpTo
<1>17. h[n] = g[n]
  BY <1>3, <1>16
<1> QED
  BY <1>2, <1>8, <1>12, <1>17

\* Splitting goes on with each byte.
LEMMA SplitIs ==
    ASSUME NEW left \in Seq(Open), NEW bytes \in Seq(Bytes)
    PROVE  /\ Split(left, bytes) \in Splits
           /\ Split(left, <<>>) = [lines |-> <<>>, rest |-> left]
           /\ \A e \in Bytes : Split(left, Append(bytes, e)) = SplitAt(Split(left, bytes), e)
<1>1. PICK g : Solves(g, Len(bytes), Splits, [lines |-> <<>>, rest |-> left], SplitBy(bytes)) /\ Split(left, bytes) = g[Len(bytes)]
  BY SplitSolves
<1>2. Split(left, bytes) \in Splits
  BY <1>1 DEF Solves
<1>3. Split(left, <<>>) = [lines |-> <<>>, rest |-> left]
  <2>1. PICK z : z = <<>>
    OBVIOUS
  <2>2. z \in Seq(Bytes) /\ Len(z) = 0
    BY <2>1
  <2>3. PICK h : Solves(h, Len(z), Splits, [lines |-> <<>>, rest |-> left], SplitBy(z)) /\ Split(left, z) = h[Len(z)]
    BY <2>2, SplitSolves
  <2> QED
    BY <2>1, <2>3, <2>2 DEF Solves
<1>4. ASSUME NEW e \in Bytes  PROVE Split(left, Append(bytes, e)) = SplitAt(Split(left, bytes), e)
  <2>1. PICK n, m, t : n = Len(bytes) /\ m = n + 1 /\ t = Append(bytes, e)
    OBVIOUS
  <2>2. n \in Nat /\ m \in Nat /\ t \in Seq(Bytes) /\ Len(t) = m /\ n <= m /\ t[m] = e /\ \A i \in 1..n : t[i] = bytes[i]
    BY <2>1, AppendProperties
  <2>3. PICK h : Solves(h, m, Splits, [lines |-> <<>>, rest |-> left], SplitBy(t)) /\ Split(left, t) = h[m]
    BY <2>2, SplitSolves
  <2>4. \A i \in 1..n : SplitBy(bytes)[i] = SplitBy(t)[i]
    BY <2>1, <2>2 DEF SplitBy
  <2>5. PICK X, x, F, G : X = Splits /\ x = [lines |-> <<>>, rest |-> left] /\ F = SplitBy(bytes) /\ G = SplitBy(t)
    OBVIOUS
  <2>6. Solves(g, n, X, x, F) /\ Solves(h, m, X, x, G) /\ \A i \in 1..n : F[i] = G[i]
    BY <1>1, <2>1, <2>3, <2>4, <2>5
  <2>7. g[n] = h[n]
    BY <2>2, <2>6, SolutionsAgree
  <2>8. h[m] = G[m][h[n]] /\ h[n] \in X
    <3>1. m \in 0..m /\ m # 0 /\ m - 1 = n /\ n \in 0..m
      BY <2>1, <2>2
    <3> QED
      BY <2>6, <3>1 DEF Solves
  <2>9. G = [i \in 1..m |-> [s \in X |-> SplitAt(s, t[i])]]
    BY <2>2, <2>5 DEF SplitBy
  <2>10. h[m] = SplitAt(h[n], e)
    <3>1. m \in 1..m
      BY <2>1, <2>2
    <3>2. G[m] = [s \in X |-> SplitAt(s, t[m])]
      BY <2>9, <3>1
    <3> QED
      BY <2>2, <2>8, <3>2
  <2> QED
    BY <1>1, <2>1, <2>3, <2>7, <2>10
<1> QED
  BY <1>2, <1>3, <1>4

ResultsBy(ops) == [i \in 1..Len(ops) |-> [s \in Seq(ResultSteps) |-> ResultAt(s, ops[i])]]

LEMMA ResultsSolves ==
    ASSUME NEW ops \in Seq(Steps)
    PROVE  \E g : Solves(g, Len(ops), Seq(ResultSteps), <<>>, ResultsBy(ops)) /\ Results(ops) = g[Len(ops)]
<1>1. PICK n, X, F, x : n = Len(ops) /\ X = Seq(ResultSteps) /\ F = ResultsBy(ops) /\ x = <<>>
  OBVIOUS
<1>2. n \in Nat /\ x \in X
  BY <1>1
<1>3. \A i \in 1..n : ops[i] \in Steps
  BY <1>1
<1>4. F = [i \in 1..n |-> [s \in X |-> ResultAt(s, ops[i])]]
  BY <1>1 DEF ResultsBy
<1>5. \A i \in 1..n : \A s \in X : ResultAt(s, ops[i]) \in X
  BY <1>2, <1>1, <1>3, ResultTyped
<1>6. F \in [1..n -> [X -> X]]
  BY <1>4, <1>5
<1>7. PICK g : Solves(g, n, X, x, F)
  BY <1>2, <1>6, RecursionExists
<1> DEFINE Is(f) == f = [n0 \in 0..Len(ops) |-> IF n0 = 0 THEN <<>> ELSE IF IsResult(ops[n0]) THEN Append(f[n0 - 1], ops[n0]) ELSE f[n0 - 1]]
<1>8. \A i \in 1..n : g[i] = ResultAt(g[i - 1], ops[i])
  <2> SUFFICES ASSUME NEW i \in 1..n  PROVE g[i] = ResultAt(g[i - 1], ops[i])
    OBVIOUS
  <2>1. i \in 0..n /\ i - 1 \in 0..n /\ i # 0
    BY <1>2
  <2>2. g[i] = F[i][g[i - 1]] /\ g[i - 1] \in X
    BY <1>7, <2>1 DEF Solves
  <2> QED
    BY <1>4, <2>2
<1>9. g[0] = x
  BY <1>2, <1>7 DEF Solves
<1>10. Is(g)
  <2>1. g = [i \in 0..n |-> g[i]]
    BY <1>7 DEF Solves
  <2>2. \A i \in 0..n : i = 0 \/ i \in 1..n
    OBVIOUS
  <2>3. \A n0 \in 0..n : g[n0] = IF n0 = 0 THEN <<>> ELSE IF IsResult(ops[n0]) THEN Append(g[n0 - 1], ops[n0]) ELSE g[n0 - 1]
    BY <1>1, <1>8, <1>9, <2>2 DEF ResultAt
  <2> QED
    BY <1>1, <2>1, <2>3, Zenon
<1>11. PICK h : Results(ops) = h[Len(ops)] /\ Is(h)
  <2>1. Results(ops) = (CHOOSE f : Is(f))[Len(ops)]
    BY DEF Results
  <2>2. Is(CHOOSE f : Is(f))
    BY <1>10
  <2> QED
    BY <2>1, <2>2
<1>12. h[0] = x /\ \A i \in 1..n : h[i] = ResultAt(h[i - 1], ops[i])
  <2> SUFFICES ASSUME NEW i \in 0..n  PROVE h[i] = IF i = 0 THEN x ELSE ResultAt(h[i - 1], ops[i])
    BY <1>1
  <2> QED
    BY <1>1, <1>11 DEF ResultAt
<1> HIDE DEF Is
<1> DEFINE S == {i \in 0..n : h[i] = g[i]}
<1>13. 0 \in S
  BY <1>2, <1>9, <1>12
<1>14. ASSUME NEW i \in 0..(n - 1), i \in S  PROVE i + 1 \in S
  <2>1. i + 1 \in 1..n /\ i + 1 \in 0..n /\ i + 1 - 1 = i
    BY <1>2
  <2> QED
    BY <1>8, <1>12, <1>14, <2>1
<1>15. 0..n \subseteq S
  <2> HIDE DEF S
  <2> QED
    BY <1>2, <1>13, <1>14, UpTo
<1>16. h[n] = g[n]
  BY <1>2, <1>15
<1> QED
  BY <1>1, <1>7, <1>11, <1>16

\* The results of a run grow with each step.
LEMMA ResultsIs ==
    ASSUME NEW ops \in Seq(Steps)
    PROVE  /\ Results(ops) \in Seq(ResultSteps)
           /\ Results(<<>>) = <<>>
           /\ \A e \in Steps : Results(Append(ops, e)) = ResultAt(Results(ops), e)
<1>1. PICK g : Solves(g, Len(ops), Seq(ResultSteps), <<>>, ResultsBy(ops)) /\ Results(ops) = g[Len(ops)]
  BY ResultsSolves
<1>2. Results(ops) \in Seq(ResultSteps)
  BY <1>1 DEF Solves
<1>3. Results(<<>>) = <<>>
  <2>1. PICK z : z = <<>>
    OBVIOUS
  <2>2. z \in Seq(Steps) /\ Len(z) = 0
    BY <2>1
  <2>3. PICK h : Solves(h, Len(z), Seq(ResultSteps), <<>>, ResultsBy(z)) /\ Results(z) = h[Len(z)]
    BY <2>2, ResultsSolves
  <2> QED
    BY <2>1, <2>3, <2>2 DEF Solves
<1>4. ASSUME NEW e \in Steps  PROVE Results(Append(ops, e)) = ResultAt(Results(ops), e)
  <2>1. PICK n, m, t : n = Len(ops) /\ m = n + 1 /\ t = Append(ops, e)
    OBVIOUS
  <2>2. n \in Nat /\ m \in Nat /\ t \in Seq(Steps) /\ Len(t) = m /\ n <= m /\ t[m] = e /\ \A i \in 1..n : t[i] = ops[i]
    BY <2>1, AppendProperties
  <2>3. PICK h : Solves(h, m, Seq(ResultSteps), <<>>, ResultsBy(t)) /\ Results(t) = h[m]
    BY <2>2, ResultsSolves
  <2>4. \A i \in 1..n : ResultsBy(ops)[i] = ResultsBy(t)[i]
    BY <2>1, <2>2 DEF ResultsBy
  <2>5. PICK X, x, F, G : X = Seq(ResultSteps) /\ x = <<>> /\ F = ResultsBy(ops) /\ G = ResultsBy(t)
    OBVIOUS
  <2>6. Solves(g, n, X, x, F) /\ Solves(h, m, X, x, G) /\ \A i \in 1..n : F[i] = G[i]
    BY <1>1, <2>1, <2>3, <2>4, <2>5
  <2>7. g[n] = h[n]
    BY <2>2, <2>6, SolutionsAgree
  <2>8. h[m] = G[m][h[n]] /\ h[n] \in X
    <3>1. m \in 0..m /\ m # 0 /\ m - 1 = n /\ n \in 0..m
      BY <2>1, <2>2
    <3> QED
      BY <2>6, <3>1 DEF Solves
  <2>9. G = [i \in 1..m |-> [s \in X |-> ResultAt(s, t[i])]]
    BY <2>2, <2>5 DEF ResultsBy
  <2>10. h[m] = ResultAt(h[n], e)
    <3>1. m \in 1..m
      BY <2>1, <2>2
    <3>2. G[m] = [s \in X |-> ResultAt(s, t[m])]
      BY <2>9, <3>1
    <3> QED
      BY <2>2, <2>8, <3>2
  <2> QED
    BY <1>1, <2>1, <2>3, <2>7, <2>10
<1> QED
  BY <1>2, <1>3, <1>4

OutputBy(ops, w) == [i \in 1..Len(ops) |-> [s \in Seq(Bytes) |-> OutputAt(s, ops[i], w)]]

LEMMA OutputSolves ==
    ASSUME NEW ops \in Seq(Steps), NEW w \in BOOLEAN
    PROVE  \E g : Solves(g, Len(ops), Seq(Bytes), <<>>, OutputBy(ops, w)) /\ Output(ops, w) = g[Len(ops)]
<1>1. PICK n, X, F, x : n = Len(ops) /\ X = Seq(Bytes) /\ F = OutputBy(ops, w) /\ x = <<>>
  OBVIOUS
<1>2. n \in Nat /\ x \in X
  BY <1>1
<1>3. \A i \in 1..n : ops[i] \in Steps
  BY <1>1
<1>4. F = [i \in 1..n |-> [s \in X |-> OutputAt(s, ops[i], w)]]
  BY <1>1 DEF OutputBy
<1>5. \A i \in 1..n : \A s \in X : OutputAt(s, ops[i], w) \in X
  BY <1>2, <1>1, <1>3, OutputTyped
<1>6. F \in [1..n -> [X -> X]]
  BY <1>4, <1>5
<1>7. PICK g : Solves(g, n, X, x, F)
  BY <1>2, <1>6, RecursionExists
<1> DEFINE Is(f) == f = [n0 \in 0..Len(ops) |-> IF n0 = 0 THEN <<>> ELSE f[n0 - 1] \o Text(ops[n0], w)]
<1>8. \A i \in 1..n : g[i] = OutputAt(g[i - 1], ops[i], w)
  <2> SUFFICES ASSUME NEW i \in 1..n  PROVE g[i] = OutputAt(g[i - 1], ops[i], w)
    OBVIOUS
  <2>1. i \in 0..n /\ i - 1 \in 0..n /\ i # 0
    BY <1>2
  <2>2. g[i] = F[i][g[i - 1]] /\ g[i - 1] \in X
    BY <1>7, <2>1 DEF Solves
  <2> QED
    BY <1>4, <2>2
<1>9. g[0] = x
  BY <1>2, <1>7 DEF Solves
<1>10. Is(g)
  <2>1. g = [i \in 0..n |-> g[i]]
    BY <1>7 DEF Solves
  <2>2. \A i \in 0..n : i = 0 \/ i \in 1..n
    OBVIOUS
  <2>3. \A n0 \in 0..n : g[n0] = IF n0 = 0 THEN <<>> ELSE g[n0 - 1] \o Text(ops[n0], w)
    BY <1>1, <1>8, <1>9, <2>2 DEF OutputAt
  <2> QED
    BY <1>1, <2>1, <2>3, Zenon
<1>11. PICK h : Output(ops, w) = h[Len(ops)] /\ Is(h)
  <2>1. Output(ops, w) = (CHOOSE f : Is(f))[Len(ops)]
    BY DEF Output
  <2>2. Is(CHOOSE f : Is(f))
    BY <1>10
  <2> QED
    BY <2>1, <2>2
<1>12. h[0] = x /\ \A i \in 1..n : h[i] = OutputAt(h[i - 1], ops[i], w)
  <2> SUFFICES ASSUME NEW i \in 0..n  PROVE h[i] = IF i = 0 THEN x ELSE OutputAt(h[i - 1], ops[i], w)
    BY <1>1
  <2> QED
    BY <1>1, <1>11 DEF OutputAt
<1> HIDE DEF Is
<1> DEFINE S == {i \in 0..n : h[i] = g[i]}
<1>13. 0 \in S
  BY <1>2, <1>9, <1>12
<1>14. ASSUME NEW i \in 0..(n - 1), i \in S  PROVE i + 1 \in S
  <2>1. i + 1 \in 1..n /\ i + 1 \in 0..n /\ i + 1 - 1 = i
    BY <1>2
  <2> QED
    BY <1>8, <1>12, <1>14, <2>1
<1>15. 0..n \subseteq S
  <2> HIDE DEF S
  <2> QED
    BY <1>2, <1>13, <1>14, UpTo
<1>16. h[n] = g[n]
  BY <1>2, <1>15
<1> QED
  BY <1>1, <1>7, <1>11, <1>16

\* The output of a run grows with each step.
LEMMA OutputIs ==
    ASSUME NEW ops \in Seq(Steps), NEW w \in BOOLEAN
    PROVE  /\ Output(ops, w) \in Seq(Bytes)
           /\ Output(<<>>, w) = <<>>
           /\ \A e \in Steps : Output(Append(ops, e), w) = OutputAt(Output(ops, w), e, w)
<1>1. PICK g : Solves(g, Len(ops), Seq(Bytes), <<>>, OutputBy(ops, w)) /\ Output(ops, w) = g[Len(ops)]
  BY OutputSolves
<1>2. Output(ops, w) \in Seq(Bytes)
  BY <1>1 DEF Solves
<1>3. Output(<<>>, w) = <<>>
  <2>1. PICK z : z = <<>>
    OBVIOUS
  <2>2. z \in Seq(Steps) /\ Len(z) = 0
    BY <2>1
  <2>3. PICK h : Solves(h, Len(z), Seq(Bytes), <<>>, OutputBy(z, w)) /\ Output(z, w) = h[Len(z)]
    BY <2>2, OutputSolves
  <2> QED
    BY <2>1, <2>3, <2>2 DEF Solves
<1>4. ASSUME NEW e \in Steps  PROVE Output(Append(ops, e), w) = OutputAt(Output(ops, w), e, w)
  <2>1. PICK n, m, t : n = Len(ops) /\ m = n + 1 /\ t = Append(ops, e)
    OBVIOUS
  <2>2. n \in Nat /\ m \in Nat /\ t \in Seq(Steps) /\ Len(t) = m /\ n <= m /\ t[m] = e /\ \A i \in 1..n : t[i] = ops[i]
    BY <2>1, AppendProperties
  <2>3. PICK h : Solves(h, m, Seq(Bytes), <<>>, OutputBy(t, w)) /\ Output(t, w) = h[m]
    BY <2>2, OutputSolves
  <2>4. \A i \in 1..n : OutputBy(ops, w)[i] = OutputBy(t, w)[i]
    BY <2>1, <2>2 DEF OutputBy
  <2>5. PICK X, x, F, G : X = Seq(Bytes) /\ x = <<>> /\ F = OutputBy(ops, w) /\ G = OutputBy(t, w)
    OBVIOUS
  <2>6. Solves(g, n, X, x, F) /\ Solves(h, m, X, x, G) /\ \A i \in 1..n : F[i] = G[i]
    BY <1>1, <2>1, <2>3, <2>4, <2>5
  <2>7. g[n] = h[n]
    BY <2>2, <2>6, SolutionsAgree
  <2>8. h[m] = G[m][h[n]] /\ h[n] \in X
    <3>1. m \in 0..m /\ m # 0 /\ m - 1 = n /\ n \in 0..m
      BY <2>1, <2>2
    <3> QED
      BY <2>6, <3>1 DEF Solves
  <2>9. G = [i \in 1..m |-> [s \in X |-> OutputAt(s, t[i], w)]]
    BY <2>2, <2>5 DEF OutputBy
  <2>10. h[m] = OutputAt(h[n], e, w)
    <3>1. m \in 1..m
      BY <2>1, <2>2
    <3>2. G[m] = [s \in X |-> OutputAt(s, t[m], w)]
      BY <2>9, <3>1
    <3> QED
      BY <2>2, <2>8, <3>2
  <2> QED
    BY <1>1, <2>1, <2>3, <2>7, <2>10
<1> QED
  BY <1>2, <1>3, <1>4


(* Sequences. *)

LEMMA OneLonger ==
    ASSUME NEW X, NEW s \in Seq(X), NEW n \in 0..(Len(s) - 1)
    PROVE  /\ SubSeq(s, 1, n) \in Seq(X) /\ s[n + 1] \in X
           /\ SubSeq(s, 1, n + 1) = Append(SubSeq(s, 1, n), s[n + 1])
<1>1. n \in Nat /\ n + 1 \in 1..Len(s) /\ Len(s) \in Nat
  OBVIOUS
<1>2. s[n + 1] \in X /\ SubSeq(s, 1, n) \in Seq(X) /\ Len(SubSeq(s, 1, n)) = n
  BY <1>1, SubSeqProperties
<1>3. SubSeq(s, 1, n + 1) \in Seq(X) /\ Len(SubSeq(s, 1, n + 1)) = n + 1
  BY <1>1, SubSeqProperties
<1>4. Append(SubSeq(s, 1, n), s[n + 1]) \in Seq(X) /\ Len(Append(SubSeq(s, 1, n), s[n + 1])) = n + 1
  BY <1>2, AppendProperties
<1>5. ASSUME NEW i \in 1..(n + 1)
      PROVE  SubSeq(s, 1, n + 1)[i] = Append(SubSeq(s, 1, n), s[n + 1])[i]
  <2>1. SubSeq(s, 1, n + 1)[i] = s[i]
    BY <1>1, <1>3
  <2>2. CASE i = n + 1
    BY <1>2, <2>1, <2>2, AppendProperties
  <2>3. CASE i # n + 1
    <3>1. i \in 1..n
      BY <2>3
    <3>2. SubSeq(s, 1, n)[i] = s[i]
      BY <1>1, <1>2, <3>1
    <3> QED
      BY <1>2, <2>1, <3>1, <3>2, AppendProperties
  <2> QED
    BY <2>2, <2>3
<1> QED
  BY <1>2, <1>3, <1>4, <1>5, SeqEqual

LEMMA WholeIs ==
    ASSUME NEW X, NEW s \in Seq(X)
    PROVE  SubSeq(s, 1, Len(s)) = s /\ SubSeq(s, 1, 0) = <<>>
<1>1. SubSeq(s, 1, Len(s)) \in Seq(X) /\ Len(SubSeq(s, 1, Len(s))) = Len(s)
  BY SubSeqProperties
<1>2. \A i \in 1..Len(s) : SubSeq(s, 1, Len(s))[i] = s[i]
  BY <1>1
<1>3. SubSeq(s, 1, Len(s)) = s
  BY <1>1, <1>2, SeqEqual
<1>4. SubSeq(s, 1, 0) = <<>>
  OBVIOUS
<1> QED
  BY <1>3, <1>4

LEMMA ConcatOneMore ==
    ASSUME NEW X, NEW a \in Seq(X), NEW b \in Seq(X), NEW e \in X
    PROVE  a \o Append(b, e) = Append(a \o b, e)
<1>1. PICK c : c = a \o b
  OBVIOUS
<1>2. PICK d : d = Append(b, e)
  OBVIOUS
<1>3. c \in Seq(X) /\ Len(c) = Len(a) + Len(b) /\ \A i \in 1..(Len(a) + Len(b)) : c[i] = IF i <= Len(a) THEN a[i] ELSE b[i - Len(a)]
  BY <1>1, ConcatProperties
<1>4. d \in Seq(X) /\ Len(d) = Len(b) + 1 /\ d[Len(b) + 1] = e /\ \A i \in 1..Len(b) : d[i] = b[i]
  BY <1>2, AppendProperties
<1>5. Len(a) \in Nat /\ Len(b) \in Nat
  OBVIOUS
<1>6. a \o d \in Seq(X) /\ Len(a \o d) = Len(a) + Len(d) /\ \A i \in 1..(Len(a) + Len(d)) : (a \o d)[i] = IF i <= Len(a) THEN a[i] ELSE d[i - Len(a)]
  <2>1. d \in Seq(X)
    BY <1>4
  <2> QED
    BY <2>1, ConcatProperties
<1>7. Append(c, e) \in Seq(X) /\ Len(Append(c, e)) = Len(c) + 1 /\ Append(c, e)[Len(c) + 1] = e /\ \A i \in 1..Len(c) : Append(c, e)[i] = c[i]
  <2>1. c \in Seq(X)
    BY <1>3
  <2> QED
    BY <2>1, AppendProperties
<1>8. \A i \in 1..(Len(a) + Len(b) + 1) : (a \o d)[i] = Append(c, e)[i]
  <2> SUFFICES ASSUME NEW i \in 1..(Len(a) + Len(b) + 1)  PROVE (a \o d)[i] = Append(c, e)[i]
    OBVIOUS
  <2>1. i \in 1..(Len(a) + Len(d)) /\ Len(d) = Len(b) + 1
    BY <1>5, <1>4
  <2>2. (a \o d)[i] = IF i <= Len(a) THEN a[i] ELSE d[i - Len(a)]
    BY <1>6, <2>1
  <2>3. CASE i = Len(a) + Len(b) + 1
    <3>1. i - Len(a) = Len(b) + 1 /\ i = Len(c) + 1 /\ ~(i <= Len(a))
      BY <1>5, <1>3, <2>3
    <3> QED
      BY <1>4, <1>7, <2>2, <3>1
  <2>4. CASE i <= Len(a)
    <3>1. i \in 1..(Len(a) + Len(b)) /\ i \in 1..Len(c)
      BY <1>5, <1>3, <2>4
    <3> QED
      BY <1>3, <1>7, <2>2, <2>4, <3>1
  <2>5. CASE ~(i <= Len(a)) /\ i # Len(a) + Len(b) + 1
    <3>1. i \in 1..(Len(a) + Len(b)) /\ i - Len(a) \in 1..Len(b)
      BY <1>5, <2>5
    <3>2. i \in 1..Len(c)
      BY <1>3, <3>1
    <3> QED
      BY <1>3, <1>4, <1>7, <2>2, <2>5, <3>1, <3>2
  <2> QED
    BY <2>3, <2>4, <2>5
<1>9. Len(a \o d) = Len(a) + Len(b) + 1 /\ Len(Append(c, e)) = Len(a) + Len(b) + 1
  BY <1>5, <1>3, <1>4, <1>6, <1>7
<1> QED
  <2>1. a \o d = Append(c, e)
    BY <1>6, <1>7, <1>8, <1>9, SeqEqual
  <2> QED
    BY <1>1, <1>2, <2>1

LEMMA ConcatNothing ==
    ASSUME NEW X, NEW a \in Seq(X)
    PROVE  a \o <<>> = a /\ <<>> \o a = a
OBVIOUS

Before(s, t) == Len(s) <= Len(t) /\ \A i \in 1..Len(s) : s[i] = t[i]

LEMMA BeforeIs ==
    ASSUME NEW X, NEW s \in Seq(X), NEW t \in Seq(X)
    PROVE  IsPrefix(s, t) <=> Before(s, t)
<1>1. SubSeq(s, 1, Len(s)) = s
  BY WholeIs
<1>2. ASSUME Len(s) <= Len(t)  PROVE SubSeq(s, 1, Len(s)) = SubSeq(t, 1, Len(s)) <=> \A i \in 1..Len(s) : s[i] = t[i]
  <2>1. PICK u : u = SubSeq(t, 1, Len(s))
    OBVIOUS
  <2>2. u \in Seq(X) /\ Len(u) = Len(s) /\ \A i \in 1..Len(s) : u[i] = t[i]
    BY <1>2, <2>1, SubSeqProperties
  <2>3. (\A i \in 1..Len(s) : s[i] = t[i]) => s = u
    BY <2>2, SeqEqual
  <2> QED
    BY <1>1, <2>1, <2>2, <2>3
<1> QED
  BY <1>2 DEF IsPrefix, Before

LEMMA ConcatBefore ==
    ASSUME NEW X, NEW s \in Seq(X), NEW t \in Seq(X)
    PROVE  Before(s, s \o t)
BY ConcatProperties DEF Before

(* Bytes are split as they come. *)

Joined(s, t) == [lines |-> s.lines \o t.lines, rest |-> t.rest]

LEMMA JoinedIs == \A s, t : Joined(s, t).lines = s.lines \o t.lines /\ Joined(s, t).rest = t.rest
BY DEF Joined

LEMMA JoinedOneMore ==
    ASSUME NEW s \in Splits, NEW t \in Splits, NEW e \in Bytes
    PROVE  SplitAt(Joined(s, t), e) = Joined(s, SplitAt(t, e))
<1>1. PICK a, b, c : a = s.lines /\ b = t.lines /\ c = t.rest
  OBVIOUS
<1>2. a \in Seq(Seq(Open)) /\ b \in Seq(Seq(Open)) /\ c \in Seq(Open)
  BY <1>1 DEF Splits
<1>3. a \o Append(b, c) = Append(a \o b, c)
  BY <1>2, ConcatOneMore
<1>4. CASE e = NL
  BY <1>1, <1>3, <1>4 DEF Joined, SplitAt
<1>5. CASE e # NL
  BY <1>1, <1>5 DEF Joined, SplitAt
<1> QED
  BY <1>4, <1>5

LEMMA SplitTwo ==
    ASSUME NEW left \in Seq(Open), NEW a \in Seq(Bytes), NEW b \in Seq(Bytes)
    PROVE  Split(left, a \o b) = Joined(Split(left, a), Split(Split(left, a).rest, b))
<1>1. PICK s : s = Split(left, a)
  OBVIOUS
<1>2. s \in Splits
  BY <1>1, SplitIs
<1>3. PICK rest, n : rest = s.rest /\ n = Len(b)
  OBVIOUS
<1>4. rest \in Seq(Open) /\ n \in Nat
  BY <1>2, <1>3 DEF Splits
<1> DEFINE Fits(m) == Split(left, a \o SubSeq(b, 1, m)) = Joined(s, Split(rest, SubSeq(b, 1, m)))
<1> DEFINE S == {m \in 0..n : Fits(m)}
<1>5. 0 \in S
  <2>1. SubSeq(b, 1, 0) = <<>> /\ a \o <<>> = a
    BY WholeIs, ConcatNothing
  <2>2. Split(rest, <<>>) = [lines |-> <<>>, rest |-> rest]
    <3>1. <<>> \in Seq(Bytes)
      OBVIOUS
    <3> QED
      BY <1>4, <3>1, SplitIs
  <2>3. s = [lines |-> s.lines, rest |-> s.rest] /\ s.lines \o <<>> = s.lines
    BY <1>2 DEF Splits
  <2>4. Joined(s, [lines |-> <<>>, rest |-> rest]) = s
    BY <1>3, <2>3 DEF Joined
  <2>5. Fits(0)
    BY <1>1, <2>1, <2>2, <2>4
  <2> HIDE DEF Fits
  <2> QED
    BY <1>4, <2>5
<1>6. ASSUME NEW m \in 0..(n - 1), m \in S  PROVE m + 1 \in S
  <2>1. PICK c, e : c = SubSeq(b, 1, m) /\ e = b[m + 1]
    OBVIOUS
  <2>2. c \in Seq(Bytes) /\ e \in Bytes /\ SubSeq(b, 1, m + 1) = Append(c, e)
    <3>1. m \in 0..(Len(b) - 1)
      BY <1>3
    <3> QED
      BY <2>1, <3>1, OneLonger
  <2>3. a \o Append(c, e) = Append(a \o c, e) /\ a \o c \in Seq(Bytes)
    BY <2>2, ConcatOneMore
  <2>4. Split(left, Append(a \o c, e)) = SplitAt(Split(left, a \o c), e)
    BY <2>2, <2>3, SplitIs
  <2>5. Split(rest, Append(c, e)) = SplitAt(Split(rest, c), e) /\ Split(rest, c) \in Splits
    BY <1>4, <2>2, SplitIs
  <2>6. Split(left, a \o c) = Joined(s, Split(rest, c))
    BY <1>6, <2>1
  <2>7. Fits(m + 1)
    BY <1>2, <2>2, <2>3, <2>4, <2>5, <2>6, JoinedOneMore
  <2>8. m + 1 \in 0..n
    BY <1>4
  <2> HIDE DEF Fits
  <2> QED
    BY <2>7, <2>8
<1>7. n \in S
  <2> HIDE DEF S
  <2>1. 0..n \subseteq S
    BY <1>4, <1>5, <1>6, UpTo
  <2> QED
    BY <1>4, <2>1
<1>8. SubSeq(b, 1, n) = b
  BY <1>3, WholeIs
<1> QED
  BY <1>1, <1>3, <1>7, <1>8

LEMMA AppendSome ==
    ASSUME NEW X, NEW s \in Seq(X), NEW Y, X \subseteq Y, NEW e \in Y
    PROVE  Append(s, e) # <<>>
<1>1. s \in Seq(Y)
  OBVIOUS
<1> QED
  BY <1>1, AppendProperties

\* The bytes can be told from how they are split.
LEMMA SplitLast ==
    ASSUME NEW s \in Splits, NEW t \in Splits, NEW e \in Bytes, NEW f \in Bytes, SplitAt(s, e) = SplitAt(t, f)
    PROVE  s = t /\ e = f
<1>1. PICK a, b, c, d : a = s.lines /\ b = s.rest /\ c = t.lines /\ d = t.rest
  OBVIOUS
<1>2. a \in Seq(Seq(Open)) /\ b \in Seq(Open) /\ c \in Seq(Seq(Open)) /\ d \in Seq(Open) /\ s = [lines |-> a, rest |-> b] /\ t = [lines |-> c, rest |-> d]
  BY <1>1 DEF Splits
<1>3. Append(b, e) # <<>> /\ Append(d, f) # <<>>
  <2>1. Open \subseteq Bytes
    BY DEF Open
  <2> QED
    BY <1>2, <2>1, AppendSome
<1>4. CASE e = NL /\ f = NL
  <2>1. Append(a, b) = Append(c, d)
    BY <1>1, <1>4 DEF SplitAt
  <2>2. a = c /\ b = d
    BY <1>2, <2>1, AppendInjective
  <2> QED
    BY <1>2, <1>4, <2>2
<1>5. CASE e # NL /\ f # NL
  <2>1. a = c /\ Append(b, e) = Append(d, f)
    BY <1>1, <1>5 DEF SplitAt
  <2>2. e \in Open /\ f \in Open
    BY <1>5 DEF Open
  <2>3. b = d /\ e = f
    BY <1>2, <2>1, <2>2, AppendInjective
  <2> QED
    BY <1>2, <2>1, <2>3
<1>6. CASE e = NL /\ f # NL
  <2>1. <<>> = Append(d, f)
    BY <1>1, <1>6 DEF SplitAt
  <2> QED
    BY <1>3, <2>1
<1>7. CASE e # NL /\ f = NL
  <2>1. <<>> = Append(b, e)
    BY <1>1, <1>7 DEF SplitAt
  <2> QED
    BY <1>3, <2>1
<1> QED
  BY <1>4, <1>5, <1>6, <1>7

LEMMA SplitSome ==
    ASSUME NEW a \in Seq(Bytes), NEW e \in Bytes
    PROVE  Split(<<>>, Append(a, e)) # [lines |-> <<>>, rest |-> <<>>]
<1>1. <<>> \in Seq(Open)
  OBVIOUS
<1>2. PICK s : s = Split(<<>>, a)
  OBVIOUS
<1>3. s \in Splits /\ Split(<<>>, Append(a, e)) = SplitAt(s, e)
  BY <1>1, <1>2, SplitIs
<1>4. PICK x, y : x = s.lines /\ y = s.rest
  OBVIOUS
<1>5. x \in Seq(Seq(Open)) /\ y \in Seq(Open)
  BY <1>3, <1>4 DEF Splits
<1>6. Append(x, y) # <<>> /\ Append(y, e) # <<>>
  <2>1. Open \subseteq Bytes
    BY DEF Open
  <2> QED
    BY <1>5, <2>1, AppendSome
<1> QED
  BY <1>3, <1>4, <1>6 DEF SplitAt

LEMMA LastOf ==
    ASSUME NEW X, NEW s \in Seq(X), s # <<>>
    PROVE  \E a \in Seq(X) : \E e \in X : s = Append(a, e) /\ Len(a) = Len(s) - 1
<1>1. PICK n : n = Len(s) - 1
  OBVIOUS
<1>2. n \in 0..(Len(s) - 1) /\ n + 1 = Len(s)
  <2>1. Len(s) \in Nat /\ Len(s) # 0
    OBVIOUS
  <2> QED
    BY <1>1, <2>1
<1>3. SubSeq(s, 1, n) \in Seq(X) /\ s[n + 1] \in X /\ SubSeq(s, 1, n + 1) = Append(SubSeq(s, 1, n), s[n + 1])
  BY <1>2, OneLonger
<1>4. SubSeq(s, 1, n + 1) = s
  BY <1>2, WholeIs
<1>5. Len(SubSeq(s, 1, n)) = n
  BY <1>2, SubSeqProperties
<1> QED
  BY <1>1, <1>3, <1>4, <1>5

LEMMA SplitTells ==
    ASSUME NEW a \in Seq(Bytes), NEW b \in Seq(Bytes), Split(<<>>, a) = Split(<<>>, b)
    PROVE  a = b
<1>1. <<>> \in Seq(Open) /\ <<>> \in Seq(Bytes)
  OBVIOUS
<1>2. Split(<<>>, <<>>) = [lines |-> <<>>, rest |-> <<>>]
  BY <1>1, SplitIs
<1> DEFINE Tells(n) == \A x, y \in Seq(Bytes) : Len(x) = n /\ Split(<<>>, x) = Split(<<>>, y) => x = y
<1> DEFINE S == {n \in 0..Len(a) : Tells(n)}
<1>3. 0 \in S
  <2>1. Tells(0)
    <3> SUFFICES ASSUME NEW x \in Seq(Bytes), NEW y \in Seq(Bytes), Len(x) = 0, Split(<<>>, x) = Split(<<>>, y)  PROVE x = y
      OBVIOUS
    <3>1. x = <<>>
      OBVIOUS
    <3>2. CASE y = <<>>
      BY <3>1, <3>2
    <3>3. CASE y # <<>>
      <4>1. PICK c \in Seq(Bytes) : \E e \in Bytes : y = Append(c, e)
        BY <3>3, LastOf
      <4>2. PICK e \in Bytes : y = Append(c, e)
        BY <4>1
      <4> QED
        BY <1>2, <3>1, <4>2, SplitSome
    <3> QED
      BY <3>2, <3>3
  <2> HIDE DEF Tells
  <2> QED
    BY <2>1
<1>4. ASSUME NEW n \in 0..(Len(a) - 1), n \in S  PROVE n + 1 \in S
  <2>1. ASSUME NEW x \in Seq(Bytes), NEW y \in Seq(Bytes), Len(x) = n + 1, Split(<<>>, x) = Split(<<>>, y)  PROVE x = y
    <3>1. x # <<>>
      BY <2>1
    <3>2. PICK c \in Seq(Bytes) : \E e \in Bytes : x = Append(c, e) /\ Len(c) = Len(x) - 1
      BY <3>1, LastOf
    <3>3. PICK e \in Bytes : x = Append(c, e) /\ Len(c) = n
      BY <2>1, <3>2
    <3>4. y # <<>>
      BY <1>2, <2>1, <3>3, SplitSome
    <3>5. PICK d \in Seq(Bytes) : \E f \in Bytes : y = Append(d, f) /\ Len(d) = Len(y) - 1
      BY <3>4, LastOf
    <3>6. PICK f \in Bytes : y = Append(d, f)
      BY <3>5
    <3>7. PICK s, t : s = Split(<<>>, c) /\ t = Split(<<>>, d)
      OBVIOUS
    <3>8. s \in Splits /\ t \in Splits /\ SplitAt(s, e) = SplitAt(t, f)
      <4>1. s \in Splits /\ SplitAt(s, e) = Split(<<>>, x)
        BY <1>1, <3>3, <3>7, SplitIs
      <4>2. t \in Splits /\ SplitAt(t, f) = Split(<<>>, y)
        BY <1>1, <3>6, <3>7, SplitIs
      <4> QED
        BY <2>1, <4>1, <4>2
    <3>9. s = t /\ e = f
      BY <3>8, SplitLast
    <3>10. c = d
      BY <1>4, <3>3, <3>7, <3>9
    <3> QED
      BY <3>3, <3>6, <3>9, <3>10
  <2>2. Tells(n + 1)
    BY <2>1
  <2> HIDE DEF Tells
  <2> QED
    BY <2>2
<1>5. Len(a) \in S
  <2> HIDE DEF S
  <2>1. Len(a) \in Nat
    OBVIOUS
  <2>2. 0..Len(a) \subseteq S
    BY <1>3, <1>4, <2>1, UpTo
  <2> QED
    BY <2>1, <2>2
<1> QED
  BY <1>5

(* What a run did comes before what it did later. *)

LEMMA BeforeGoesOn ==
    ASSUME NEW X, NEW s \in Seq(X), NEW t \in Seq(X), NEW u \in Seq(X), Before(s, t), Before(t, u)
    PROVE  Before(s, u)
<1>1. Len(s) \in Nat /\ Len(t) \in Nat /\ Len(u) \in Nat
  OBVIOUS
<1> QED
  BY <1>1 DEF Before

LEMMA BeforeItself == ASSUME NEW X, NEW s \in Seq(X) PROVE Before(s, s)
BY DEF Before

LEMMA BeforeAppend ==
    ASSUME NEW X, NEW s \in Seq(X), NEW e \in X
    PROVE  Before(s, Append(s, e))
BY AppendProperties DEF Before

LEMMA ResultsGrow ==
    ASSUME NEW ops \in Seq(Steps), NEW n \in 0..Len(ops)
    PROVE  Before(Results(SubSeq(ops, 1, n)), Results(ops))
<1>1. PICK m : m = Len(ops) - n
  OBVIOUS
<1>2. m \in Nat /\ n \in Nat /\ n + m = Len(ops)
  BY <1>1
<1> DEFINE Grown(i) == Before(Results(SubSeq(ops, 1, n)), Results(SubSeq(ops, 1, n + i)))
<1> DEFINE S == {i \in 0..m : Grown(i)}
<1>3. SubSeq(ops, 1, n) \in Seq(Steps)
  BY <1>2, SubSeqProperties
<1>4. Results(SubSeq(ops, 1, n)) \in Seq(ResultSteps)
  BY <1>3, ResultsIs
<1>5. 0 \in S
  <2>1. n + 0 = n
    BY <1>2
  <2>2. Grown(0)
    BY <1>4, <2>1, BeforeItself
  <2> HIDE DEF Grown
  <2> QED
    BY <1>2, <2>2
<1>6. ASSUME NEW i \in 0..(m - 1), i \in S  PROVE i + 1 \in S
  <2>1. n + i \in 0..(Len(ops) - 1) /\ n + (i + 1) = n + i + 1 /\ i + 1 \in 0..m
    BY <1>2
  <2>2. PICK j, c, e : j = n + i /\ c = SubSeq(ops, 1, j) /\ e = ops[j + 1]
    OBVIOUS
  <2>3. c \in Seq(Steps) /\ e \in Steps /\ SubSeq(ops, 1, j + 1) = Append(c, e)
    <3>1. j \in 0..(Len(ops) - 1)
      BY <2>1, <2>2
    <3> QED
      BY <2>2, <3>1, OneLonger
  <2>4. PICK r : r = Results(c)
    OBVIOUS
  <2>5. r \in Seq(ResultSteps) /\ Results(Append(c, e)) = ResultAt(r, e)
    BY <2>3, <2>4, ResultsIs
  <2>6. Before(r, ResultAt(r, e)) /\ ResultAt(r, e) \in Seq(ResultSteps)
    <3>1. CASE IsResult(e)
      <4>1. e \in ResultSteps
        BY <2>3, <3>1, ResultsAre
      <4> QED
        BY <2>5, <3>1, <4>1, BeforeAppend DEF ResultAt
    <3>2. CASE ~IsResult(e)
      BY <2>5, <3>2, BeforeItself DEF ResultAt
    <3> QED
      BY <3>1, <3>2
  <2>7. Before(Results(SubSeq(ops, 1, n)), r)
    BY <1>6, <2>2, <2>4
  <2>8. Before(Results(SubSeq(ops, 1, n)), ResultAt(r, e))
    BY <1>4, <2>5, <2>6, <2>7, BeforeGoesOn
  <2>9. Grown(i + 1)
    BY <2>1, <2>2, <2>3, <2>5, <2>8
  <2> HIDE DEF Grown
  <2> QED
    BY <2>1, <2>9
<1>7. m \in S
  <2> HIDE DEF S
  <2>1. 0..m \subseteq S
    BY <1>2, <1>5, <1>6, UpTo
  <2> QED
    BY <1>2, <2>1
<1> QED
  BY <1>2, <1>7, WholeIs

\* How far the lines of a run are.
Printing(ops, w) == Split(<<>>, Output(ops, w))

LEMMA PrintingIs ==
    ASSUME NEW ops \in Seq(Steps), NEW w \in BOOLEAN
    PROVE  /\ Printing(ops, w) \in Splits
           /\ Printing(<<>>, w) = [lines |-> <<>>, rest |-> <<>>]
           /\ \A e \in Steps : Printing(Append(ops, e), w) = Joined(Printing(ops, w), Split(Printing(ops, w).rest, Text(e, w)))
<1>1. <<>> \in Seq(Open) /\ <<>> \in Seq(Bytes)
  OBVIOUS
<1>2. Output(ops, w) \in Seq(Bytes) /\ Output(<<>>, w) = <<>>
  BY OutputIs
<1>3. ASSUME NEW e \in Steps
      PROVE  Printing(Append(ops, e), w) = Joined(Printing(ops, w), Split(Printing(ops, w).rest, Text(e, w)))
  <2>1. Output(Append(ops, e), w) = Output(ops, w) \o Text(e, w)
    BY OutputIs DEF OutputAt
  <2>2. Text(e, w) \in Seq(Bytes)
    BY TextTyped
  <2>3. PICK nothing, a, b : nothing = <<>> /\ a = Output(ops, w) /\ b = Text(e, w)
    OBVIOUS
  <2>4. nothing \in Seq(Open) /\ a \in Seq(Bytes) /\ b \in Seq(Bytes)
    BY <1>1, <1>2, <2>2, <2>3
  <2>5. Split(nothing, a \o b) = Joined(Split(nothing, a), Split(Split(nothing, a).rest, b))
    BY <2>4, SplitTwo
  <2> QED
    BY <2>1, <2>3, <2>5 DEF Printing
<1> QED
  BY <1>1, <1>2, <1>3, SplitIs DEF Printing

LEMMA PrintingNothing ==
    ASSUME NEW ops \in Seq(Steps), NEW w \in BOOLEAN, NEW e \in Steps, Text(e, w) = <<>>
    PROVE  Printing(Append(ops, e), w) = Printing(ops, w)
<1>1. PICK p : p = Printing(ops, w)
  OBVIOUS
<1>2. p \in Splits /\ Printing(Append(ops, e), w) = Joined(p, Split(p.rest, <<>>))
  BY <1>1, PrintingIs
<1>3. p.lines \in Seq(Seq(Open)) /\ p.rest \in Seq(Open) /\ p = [lines |-> p.lines, rest |-> p.rest]
  BY <1>2 DEF Splits
<1>4. Split(p.rest, <<>>) = [lines |-> <<>>, rest |-> p.rest]
  <2>1. <<>> \in Seq(Bytes)
    OBVIOUS
  <2> QED
    BY <1>3, <2>1, SplitIs
<1>5. p.lines \o <<>> = p.lines
  BY <1>3, ConcatNothing
<1> QED
  BY <1>1, <1>2, <1>3, <1>4, <1>5 DEF Joined

LEMMA LinesGrow ==
    ASSUME NEW ops \in Seq(Steps), NEW w \in BOOLEAN, NEW n \in 0..Len(ops)
    PROVE  Before(Printing(SubSeq(ops, 1, n), w).lines, Printing(ops, w).lines)
<1>1. PICK m : m = Len(ops) - n
  OBVIOUS
<1>2. m \in Nat /\ n \in Nat /\ n + m = Len(ops)
  BY <1>1
<1>3. SubSeq(ops, 1, n) \in Seq(Steps)
  BY <1>2, SubSeqProperties
<1>4. PICK s : s = Printing(SubSeq(ops, 1, n), w).lines
  OBVIOUS
<1>5. s \in Seq(Seq(Open))
  BY <1>3, <1>4, PrintingIs DEF Splits
<1> DEFINE Grown(i) == Before(s, Printing(SubSeq(ops, 1, n + i), w).lines)
<1> DEFINE S == {i \in 0..m : Grown(i)}
<1>6. 0 \in S
  <2>1. n + 0 = n
    BY <1>2
  <2>2. Grown(0)
    BY <1>4, <1>5, <2>1, BeforeItself
  <2> HIDE DEF Grown
  <2> QED
    BY <1>2, <2>2
<1>7. ASSUME NEW i \in 0..(m - 1), i \in S  PROVE i + 1 \in S
  <2>1. n + i \in 0..(Len(ops) - 1) /\ n + (i + 1) = n + i + 1 /\ i + 1 \in 0..m
    BY <1>2
  <2>2. PICK j, c, e : j = n + i /\ c = SubSeq(ops, 1, j) /\ e = ops[j + 1]
    OBVIOUS
  <2>3. c \in Seq(Steps) /\ e \in Steps /\ SubSeq(ops, 1, j + 1) = Append(c, e)
    <3>1. j \in 0..(Len(ops) - 1)
      BY <2>1, <2>2
    <3> QED
      BY <2>2, <3>1, OneLonger
  <2>4. PICK p, q : p = Printing(c, w) /\ q = Split(p.rest, Text(e, w))
    OBVIOUS
  <2>5. p \in Splits /\ Printing(Append(c, e), w) = Joined(p, q)
    BY <2>3, <2>4, PrintingIs
  <2>6. q \in Splits
    <3>1. p.rest \in Seq(Open) /\ Text(e, w) \in Seq(Bytes)
      BY <2>3, <2>5, TextTyped DEF Splits
    <3> QED
      BY <2>4, <3>1, SplitIs
  <2>7. p.lines \in Seq(Seq(Open)) /\ q.lines \in Seq(Seq(Open))
    BY <2>5, <2>6 DEF Splits
  <2>8. Before(p.lines, p.lines \o q.lines) /\ p.lines \o q.lines \in Seq(Seq(Open))
    BY <2>7, ConcatBefore
  <2>9. Before(s, p.lines)
    BY <1>7, <2>2, <2>4
  <2>10. Before(s, p.lines \o q.lines)
    BY <1>5, <2>7, <2>8, <2>9, BeforeGoesOn
  <2>11. Grown(i + 1)
    <3>1. SubSeq(ops, 1, n + (i + 1)) = Append(c, e)
      BY <2>1, <2>2, <2>3
    <3>2. PICK a : a = p.lines \o q.lines
      OBVIOUS
    <3>3. Printing(Append(c, e), w).lines = a
      BY <2>5, <3>2, JoinedIs
    <3> QED
      BY <2>10, <3>1, <3>2, <3>3
  <2> HIDE DEF Grown
  <2> QED
    BY <2>1, <2>11
<1>8. m \in S
  <2> HIDE DEF S
  <2>1. 0..m \subseteq S
    BY <1>2, <1>6, <1>7, UpTo
  <2> QED
    BY <1>2, <2>1
<1> QED
  BY <1>2, <1>4, <1>8, WholeIs

(* Windows and frames, from what a run did. *)

StartedAt(ops, i) == ops[i].op[1] = "frame" /\ ops[i].result = TRUE
RefusedAt(ops, i) == ops[i].op[1] = "frame" /\ ops[i].result = FALSE
AskedAt(ops, i)   == ops[i].op[1] = "close"

WindowOf(ops) ==
    IF \E i \in 1..Len(ops) : RefusedAt(ops, i) THEN "closed"
    ELSE IF \E i \in 1..Len(ops) : AskedAt(ops, i) THEN "asked" ELSE "open"
Started(ops)  == {i \in 1..Len(ops) : StartedAt(ops, i)}
FramesOf(ops) == Cardinality(Started(ops))

\* Frames start only while the window is open.
WellStarted(ops) ==
    \A i \in 1..Len(ops) : StartedAt(ops, i) => WindowOf(SubSeq(ops, 1, i - 1)) = "open"

LEMMA WindowIs ==
    ASSUME NEW ops \in Seq(Steps), NEW e \in Steps
    PROVE  /\ WindowOf(<<>>) = "open"
           /\ WindowOf(Append(ops, e)) = IF e.op[1] = "frame" /\ e.result = FALSE THEN "closed"
                                         ELSE IF e.op[1] = "close" /\ WindowOf(ops) = "open" THEN "asked"
                                         ELSE WindowOf(ops)
<1>1. WindowOf(<<>>) = "open"
  BY DEF WindowOf
<1>2. PICK n, t : n = Len(ops) /\ t = Append(ops, e)
  OBVIOUS
<1>3. n \in Nat /\ Len(t) = n + 1 /\ t[n + 1] = e /\ \A i \in 1..n : t[i] = ops[i]
  BY <1>2, AppendProperties
<1>4. \A i \in 1..(n + 1) : i \in 1..n \/ i = n + 1
  BY <1>3
<1>5. 1..n \subseteq 1..(n + 1) /\ n + 1 \in 1..(n + 1)
  BY <1>3
<1>6. (\E i \in 1..Len(t) : RefusedAt(t, i)) <=> ((\E i \in 1..n : RefusedAt(ops, i)) \/ (e.op[1] = "frame" /\ e.result = FALSE))
  BY <1>3, <1>4, <1>5 DEF RefusedAt
<1>7. (\E i \in 1..Len(t) : AskedAt(t, i)) <=> ((\E i \in 1..n : AskedAt(ops, i)) \/ e.op[1] = "close")
  BY <1>3, <1>4, <1>5 DEF AskedAt
<1> QED
  BY <1>1, <1>2, <1>6, <1>7 DEF WindowOf

LEMMA FramesAre ==
    ASSUME NEW ops \in Seq(Steps), NEW e \in Steps
    PROVE  /\ FramesOf(<<>>) = 0
           /\ FramesOf(ops) \in 0..Len(ops)
           /\ FramesOf(Append(ops, e)) = IF e.op[1] = "frame" /\ e.result = TRUE THEN FramesOf(ops) + 1 ELSE FramesOf(ops)
<1>1. FramesOf(<<>>) = 0
  <2>1. Started(<<>>) = {}
    BY DEF Started
  <2> QED
    BY <2>1, FS_EmptySet DEF FramesOf
<1>2. PICK n, t : n = Len(ops) /\ t = Append(ops, e)
  OBVIOUS
<1>3. n \in Nat /\ Len(t) = n + 1 /\ t[n + 1] = e /\ \A i \in 1..n : t[i] = ops[i]
  BY <1>2, AppendProperties
<1>4. IsFiniteSet(1..n) /\ Cardinality(1..n) = n
  <2>1. 1 \in Int /\ n \in Int
    BY <1>3
  <2> QED
    BY <1>3, <2>1, FS_Interval
<1>5. Started(ops) \subseteq 1..n
  BY <1>2 DEF Started
<1>6. IsFiniteSet(Started(ops)) /\ Cardinality(Started(ops)) <= n /\ Cardinality(Started(ops)) \in Nat
  BY <1>4, <1>5, FS_Subset, FS_CardinalityType
<1>7. FramesOf(ops) \in 0..Len(ops)
  BY <1>2, <1>3, <1>6 DEF FramesOf
<1>8. CASE e.op[1] = "frame" /\ e.result = TRUE
  <2>1. Started(t) = Started(ops) \cup {n + 1}
    BY <1>2, <1>3, <1>8 DEF Started, StartedAt
  <2>2. n + 1 \notin Started(ops)
    BY <1>3, <1>5
  <2>3. Cardinality(Started(ops) \cup {n + 1}) = Cardinality(Started(ops)) + 1
    BY <1>6, <2>2, FS_AddElement
  <2> QED
    BY <1>1, <1>2, <1>7, <1>8, <2>1, <2>3 DEF FramesOf
<1>9. CASE ~(e.op[1] = "frame" /\ e.result = TRUE)
  <2>1. Started(t) = Started(ops)
    BY <1>2, <1>3, <1>9 DEF Started, StartedAt
  <2> QED
    BY <1>1, <1>2, <1>7, <1>9, <2>1 DEF FramesOf
<1> QED
  BY <1>8, <1>9

LEMMA WellStartedGoesOn ==
    ASSUME NEW ops \in Seq(Steps), NEW e \in Steps, WellStarted(ops),
           e.op[1] = "frame" /\ e.result = TRUE => WindowOf(ops) = "open"
    PROVE  WellStarted(Append(ops, e))
<1>1. PICK n, t : n = Len(ops) /\ t = Append(ops, e)
  OBVIOUS
<1>2. n \in Nat /\ Len(t) = n + 1 /\ t[n + 1] = e /\ t \in Seq(Steps) /\ \A i \in 1..n : t[i] = ops[i]
  BY <1>1, AppendProperties
<1>3. ASSUME NEW i \in 1..(n + 1)  PROVE SubSeq(t, 1, i - 1) = SubSeq(ops, 1, i - 1)
  <2>1. i - 1 \in 0..n /\ i - 1 \in Nat
    BY <1>2
  <2>2. SubSeq(t, 1, i - 1) \in Seq(Steps) /\ Len(SubSeq(t, 1, i - 1)) = i - 1
    BY <1>2, <2>1, SubSeqProperties
  <2>3. SubSeq(ops, 1, i - 1) \in Seq(Steps) /\ Len(SubSeq(ops, 1, i - 1)) = i - 1
    BY <1>1, <1>2, <2>1, SubSeqProperties
  <2>4. \A j \in 1..(i - 1) : SubSeq(t, 1, i - 1)[j] = SubSeq(ops, 1, i - 1)[j]
    <3> SUFFICES ASSUME NEW j \in 1..(i - 1)  PROVE SubSeq(t, 1, i - 1)[j] = SubSeq(ops, 1, i - 1)[j]
      OBVIOUS
    <3>1. j \in 1..n /\ j \in 1..(n + 1)
      BY <1>2, <2>1
    <3>2. SubSeq(t, 1, i - 1)[j] = t[j]
      BY <1>2, <2>1, <2>2, SubSeqProperties
    <3>3. SubSeq(ops, 1, i - 1)[j] = ops[j]
      BY <1>1, <1>2, <2>1, <2>3, SubSeqProperties
    <3> QED
      BY <1>2, <3>1, <3>2, <3>3
  <2> QED
    BY <2>2, <2>3, <2>4, SeqEqual
<1>4. SubSeq(ops, 1, n) = ops
  BY <1>1, WholeIs
<1>5. ASSUME NEW i \in 1..(n + 1), StartedAt(t, i)  PROVE WindowOf(SubSeq(t, 1, i - 1)) = "open"
  <2>1. CASE i = n + 1
    <3>1. i - 1 = n /\ e.op[1] = "frame" /\ e.result = TRUE
      BY <1>2, <1>5, <2>1 DEF StartedAt
    <3> QED
      BY <1>3, <1>4, <3>1
  <2>2. CASE i # n + 1
    <3>1. i \in 1..n
      BY <1>2, <2>2
    <3>2. StartedAt(ops, i)
      BY <1>2, <1>5, <3>1 DEF StartedAt
    <3> QED
      BY <1>1, <1>3, <3>1, <3>2 DEF WellStarted
  <2> QED
    BY <2>1, <2>2
<1> QED
  BY <1>1, <1>2, <1>5 DEF WellStarted

\* A window that is open as it was starts a frame if there are more to come.
LEMMA FramesTell ==
    ASSUME NEW ops \in Seq(Steps), WellStarted(ops), NEW k \in 0..(Len(ops) - 1),
           ops[k + 1].op[1] = "frame", ops[k + 1].result \in BOOLEAN
    PROVE  ops[k + 1].result = TRUE <=>
             (WindowOf(SubSeq(ops, 1, k)) = "open" /\ FramesOf(SubSeq(ops, 1, k)) < FramesOf(ops))
<1>1. PICK n, t : n = Len(ops) /\ t = SubSeq(ops, 1, k)
  OBVIOUS
<1>2. n \in Nat /\ k \in Nat /\ k + 1 \in 1..n /\ t \in Seq(Steps) /\ Len(t) = k /\ \A i \in 1..k : t[i] = ops[i]
  BY <1>1, SubSeqProperties
<1>3. IsFiniteSet(Started(ops)) /\ FramesOf(ops) \in Nat
  <2>1. IsFiniteSet(1..n)
    <3>1. 1 \in Int /\ n \in Int
      BY <1>2
    <3> QED
      BY <3>1, FS_Interval
  <2>2. Started(ops) \subseteq 1..n
    BY <1>1 DEF Started
  <2> QED
    BY <2>1, <2>2, FS_Subset, FS_CardinalityType DEF FramesOf
<1>4. Started(t) = {i \in Started(ops) : i <= k}
  BY <1>1, <1>2 DEF Started, StartedAt
<1>5. Started(t) \subseteq Started(ops)
  BY <1>4
<1>6. FramesOf(t) \in Nat /\ FramesOf(t) <= FramesOf(ops) /\ (FramesOf(t) = FramesOf(ops) => Started(t) = Started(ops))
  BY <1>3, <1>5, FS_Subset, FS_CardinalityType DEF FramesOf
<1>7. CASE ops[k + 1].result = TRUE
  <2>1. StartedAt(ops, k + 1)
    BY <1>7 DEF StartedAt
  <2>2. WindowOf(SubSeq(ops, 1, k + 1 - 1)) = "open"
    BY <1>1, <1>2, <2>1 DEF WellStarted
  <2>3. k + 1 \in Started(ops) /\ k + 1 \notin Started(t) /\ k + 1 - 1 = k
    BY <1>1, <1>2, <1>4, <2>1 DEF Started
  <2> QED
    BY <1>1, <1>3, <1>6, <1>7, <2>2, <2>3
<1>8. CASE ops[k + 1].result = FALSE
  <2>1. ASSUME NEW i \in Started(ops), i > k  PROVE FALSE
    <3>1. i \in 1..n /\ StartedAt(ops, i)
      BY <1>1 DEF Started
    <3>2. i # k + 1
      BY <1>8, <3>1 DEF StartedAt
    <3>3. PICK u : u = SubSeq(ops, 1, i - 1)
      OBVIOUS
    <3>4. Len(u) = i - 1 /\ \A j \in 1..(i - 1) : u[j] = ops[j]
      BY <1>1, <1>2, <3>1, <3>3, SubSeqProperties
    <3>5. k + 1 \in 1..(i - 1)
      BY <1>2, <2>1, <3>1, <3>2
    <3>6. RefusedAt(u, k + 1)
      BY <1>8, <3>4, <3>5 DEF RefusedAt
    <3>7. WindowOf(u) = "closed"
      BY <3>4, <3>5, <3>6 DEF WindowOf
    <3>8. WindowOf(u) = "open"
      BY <1>1, <3>1, <3>3 DEF WellStarted
    <3> QED
      BY <3>7, <3>8
  <2>2. Started(ops) \subseteq Int
    BY DEF Started
  <2>3. Started(t) = Started(ops)
    BY <1>2, <1>4, <2>1, <2>2
  <2> QED
    BY <1>1, <1>3, <1>8, <2>3 DEF FramesOf
<1> QED
  BY <1>7, <1>8

(* The file of a recording. *)

IdOf(e)     == IF e.op[1] = "native" THEN e.op[2] ELSE FrameId
LogEntry(e) == [id |-> IdOf(e), result |-> e.result]
LogOf(rs)   == [i \in 1..Len(rs) |-> LogEntry(rs[i])]
Logs        == [id : Natives \cup {FrameId}, result : Values \cup BOOLEAN]

LEMMA LogIs ==
    ASSUME NEW rs \in Seq(ResultSteps)
    PROVE  /\ LogOf(rs) \in Seq(Logs) /\ Len(LogOf(rs)) = Len(rs)
           /\ \A i \in 1..Len(rs) : LogOf(rs)[i] = LogEntry(rs[i])
           /\ LogOf(<<>>) = <<>>
           /\ \A e \in ResultSteps : LogOf(Append(rs, e)) = Append(LogOf(rs), LogEntry(e))
<1>1. \A e \in ResultSteps : LogEntry(e) \in Logs
  <2> SUFFICES ASSUME NEW e \in ResultSteps  PROVE IdOf(e) \in Natives \cup {FrameId} /\ e.result \in Values \cup BOOLEAN
    BY DEF LogEntry, Logs
  <2>1. CASE e \in NativeSteps
    BY <2>1, ResultsAre DEF IdOf
  <2>2. CASE e \in FrameSteps
    <3>1. e.op[1] = "frame" /\ e.result \in BOOLEAN
      BY <2>2, ResultsAre
    <3> QED
      BY <3>1 DEF IdOf
  <2> QED
    BY <2>1, <2>2 DEF ResultSteps
<1>2. \A i \in 1..Len(rs) : LogEntry(rs[i]) \in Logs
  BY <1>1
<1>3. LogOf(rs) \in Seq(Logs) /\ Len(LogOf(rs)) = Len(rs) /\ \A i \in 1..Len(rs) : LogOf(rs)[i] = LogEntry(rs[i])
  <2>1. Len(rs) \in Nat
    OBVIOUS
  <2>2. PICK n : n = Len(rs)
    OBVIOUS
  <2>3. LogOf(rs) = [i \in 1..n |-> LogEntry(rs[i])]
    BY <2>2 DEF LogOf
  <2>4. [i \in 1..n |-> LogEntry(rs[i])] \in [1..n -> Logs]
    BY <1>2, <2>2
  <2>5. LogOf(rs) \in Seq(Logs) /\ Len(LogOf(rs)) = n
    BY <2>1, <2>2, <2>3, <2>4
  <2> QED
    BY <2>2, <2>3, <2>5
<1>4. LogOf(<<>>) = <<>>
  BY DEF LogOf
<1>5. ASSUME NEW e \in ResultSteps  PROVE LogOf(Append(rs, e)) = Append(LogOf(rs), LogEntry(e))
  <2>1. PICK n, t, l, d : n = Len(rs) /\ t = Append(rs, e) /\ l = LogOf(rs) /\ d = LogEntry(e)
    OBVIOUS
  <2>2. n \in Nat /\ t \in Seq(ResultSteps) /\ Len(t) = n + 1 /\ t[n + 1] = e /\ \A i \in 1..n : t[i] = rs[i]
    BY <2>1, AppendProperties
  <2>3. l \in Seq(Logs) /\ Len(l) = n /\ d \in Logs
    BY <1>1, <1>3, <2>1
  <2>4. Append(l, d) \in Seq(Logs) /\ Len(Append(l, d)) = n + 1 /\ Append(l, d)[n + 1] = d /\ \A i \in 1..n : Append(l, d)[i] = l[i]
    BY <2>3, AppendProperties
  <2>5. PICK k : k = LogOf(t)
    OBVIOUS
  <2>6. k = [i \in 1..(n + 1) |-> LogEntry(t[i])]
    BY <2>2, <2>5 DEF LogOf
  <2>7. \A i \in 1..(n + 1) : t[i] \in ResultSteps
    BY <2>2
  <2>8. k \in [1..(n + 1) -> Logs]
    BY <1>1, <2>6, <2>7
  <2>9. k \in Seq(Logs) /\ Len(k) = n + 1
    BY <2>2, <2>8
  <2>10. \A i \in 1..(n + 1) : k[i] = Append(l, d)[i]
    <3> SUFFICES ASSUME NEW i \in 1..(n + 1)  PROVE LogEntry(t[i]) = Append(l, d)[i]
      BY <2>6
    <3>1. CASE i = n + 1
      BY <2>1, <2>2, <2>4, <3>1
    <3>2. CASE i # n + 1
      <4>1. i \in 1..n
        BY <2>2, <3>2
      <4> QED
        BY <1>3, <2>1, <2>2, <2>4, <4>1
    <3> QED
      BY <3>1, <3>2
  <2> QED
    BY <2>1, <2>4, <2>5, <2>9, <2>10, SeqEqual
<1> QED
  BY <1>3, <1>4, <1>5

\* A logged result tells its step.
LEMMA LogTells ==
    ASSUME NEW e \in ResultSteps
    PROVE  /\ \A id \in Natives : LogEntry(e).id = id => e = [op |-> <<"native", id>>, result |-> LogEntry(e).result] /\ e \in NativeSteps
           /\ LogEntry(e).id = FrameId => e = [op |-> <<"frame">>, result |-> LogEntry(e).result] /\ e \in FrameSteps
           /\ LogEntry(e).result = e.result
<1>1. CASE e \in NativeSteps
  <2>1. e.op[1] = "native" /\ e.op[2] \in Natives /\ e.op = <<"native", e.op[2]>>
    BY <1>1, ResultsAre
  <2>2. e = [op |-> e.op, result |-> e.result]
    BY <1>1 DEF NativeSteps
  <2>3. LogEntry(e).id = e.op[2] /\ LogEntry(e).result = e.result
    BY <2>1 DEF LogEntry, IdOf
  <2>4. FrameId \notin Natives
    BY NativesAssumption DEF FrameId
  <2> QED
    BY <1>1, <2>1, <2>2, <2>3, <2>4
<1>2. CASE e \in FrameSteps
  <2>1. e.op[1] = "frame" /\ e.op = <<"frame">>
    BY <1>2, ResultsAre
  <2>2. e = [op |-> e.op, result |-> e.result]
    BY <1>2 DEF FrameSteps
  <2>3. LogEntry(e).id = FrameId /\ LogEntry(e).result = e.result
    BY <2>1 DEF LogEntry, IdOf
  <2>4. FrameId \notin Natives
    BY NativesAssumption DEF FrameId
  <2> QED
    BY <1>2, <2>1, <2>2, <2>3, <2>4
<1> QED
  BY <1>1, <1>2 DEF ResultSteps

Kinds    == {"line", "partial", "failure", "end"}
Texts    == Seq(Open) \cup {<<m>> : m \in Messages}
AnyEntry == [kind : Kinds, text : Texts]

LEMMA EntriesAre ==
    ASSUME NEW lines \in Seq(Seq(Open))
    PROVE  /\ Entries(lines) \in Seq(AnyEntry) /\ Len(Entries(lines)) = Len(lines)
           /\ \A i \in 1..Len(lines) : Entries(lines)[i] = Line(lines[i])
<1>1. PICK n : n = Len(lines)
  OBVIOUS
<1>2. n \in Nat /\ DOMAIN lines = 1..n /\ \A i \in 1..n : lines[i] \in Seq(Open)
  BY <1>1
<1>3. Entries(lines) = [i \in 1..n |-> Line(lines[i])]
  BY <1>2 DEF Entries
<1>4. \A i \in 1..n : Line(lines[i]) \in AnyEntry
  BY <1>2 DEF Line, AnyEntry, Kinds, Texts
<1>5. Entries(lines) \in [1..n -> AnyEntry]
  BY <1>3, <1>4
<1>6. Entries(lines) \in Seq(AnyEntry) /\ Len(Entries(lines)) = n
  BY <1>2, <1>5
<1> QED
  BY <1>1, <1>3, <1>6

LEMMA EntriesJoin ==
    ASSUME NEW a \in Seq(Seq(Open)), NEW b \in Seq(Seq(Open))
    PROVE  Entries(a \o b) = Entries(a) \o Entries(b)
<1>1. PICK c : c = a \o b
  OBVIOUS
<1>2. PICK n, m : n = Len(a) /\ m = Len(b)
  OBVIOUS
<1>3. n \in Nat /\ m \in Nat /\ c \in Seq(Seq(Open)) /\ Len(c) = n + m /\ \A i \in 1..(n + m) : c[i] = IF i <= n THEN a[i] ELSE b[i - n]
  BY <1>1, <1>2, ConcatProperties
<1>4. PICK ea, eb, ec : ea = Entries(a) /\ eb = Entries(b) /\ ec = Entries(c)
  OBVIOUS
<1>5. ea \in Seq(AnyEntry) /\ Len(ea) = n /\ \A i \in 1..n : ea[i] = Line(a[i])
  BY <1>2, <1>4, EntriesAre
<1>6. eb \in Seq(AnyEntry) /\ Len(eb) = m /\ \A i \in 1..m : eb[i] = Line(b[i])
  BY <1>2, <1>4, EntriesAre
<1>7. ec \in Seq(AnyEntry) /\ Len(ec) = n + m /\ \A i \in 1..(n + m) : ec[i] = Line(c[i])
  BY <1>3, <1>4, EntriesAre
<1>8. ea \o eb \in Seq(AnyEntry) /\ Len(ea \o eb) = n + m /\ \A i \in 1..(n + m) : (ea \o eb)[i] = IF i <= n THEN ea[i] ELSE eb[i - n]
  BY <1>5, <1>6, ConcatProperties
<1>9. \A i \in 1..(n + m) : ec[i] = (ea \o eb)[i]
  <2> SUFFICES ASSUME NEW i \in 1..(n + m)  PROVE ec[i] = (ea \o eb)[i]
    OBVIOUS
  <2>1. CASE i <= n
    <3>1. i \in 1..n
      BY <1>3, <2>1
    <3> QED
      BY <1>3, <1>5, <1>7, <1>8, <2>1, <3>1
  <2>2. CASE ~(i <= n)
    <3>1. i - n \in 1..m
      BY <1>3, <2>2
    <3> QED
      BY <1>3, <1>6, <1>7, <1>8, <2>2, <3>1
  <2> QED
    BY <2>1, <2>2
<1>10. ec = ea \o eb
  BY <1>7, <1>8, <1>9, SeqEqual
<1> QED
  BY <1>1, <1>4, <1>10

Ends(ending) == ending = <<>> \/ \E m \in Messages : ending = <<Failure(m)>>
Left(rest)   == IF rest = <<>> THEN 0 ELSE 1

LEMMA FailureIs == \A m \in Messages : Failure(m) \in AnyEntry /\ Failure(m).kind = "failure" /\ Len(<<Failure(m)>>) = 1 /\ <<Failure(m)>>[1] = Failure(m)
BY DEF Failure, AnyEntry, Kinds, Texts

Joins(c, a, b, n, m) == Len(c) = n + m /\ (\A i \in 1..n : c[i] = a[i]) /\ (\A i \in 1..m : c[n + i] = b[i])

LEMMA ConcatIs ==
    ASSUME NEW X, NEW a \in Seq(X), NEW b \in Seq(X)
    PROVE  a \o b \in Seq(X) /\ Joins(a \o b, a, b, Len(a), Len(b))
<1>1. PICK n, m, c : n = Len(a) /\ m = Len(b) /\ c = a \o b
  OBVIOUS
<1>2. n \in Nat /\ m \in Nat
  BY <1>1
<1>3. c \in Seq(X) /\ Len(c) = n + m /\ \A i \in 1..(n + m) : c[i] = IF i <= n THEN a[i] ELSE b[i - n]
  BY <1>1, ConcatProperties
<1>4. \A i \in 1..n : c[i] = a[i]
  <2> SUFFICES ASSUME NEW i \in 1..n  PROVE c[i] = a[i]
    OBVIOUS
  <2>1. i \in 1..(n + m) /\ i <= n
    BY <1>2
  <2> QED
    BY <1>3, <2>1
<1>5. \A i \in 1..m : c[n + i] = b[i]
  <2> SUFFICES ASSUME NEW i \in 1..m  PROVE c[n + i] = b[i]
    OBVIOUS
  <2>1. PICK j : j = n + i
    OBVIOUS
  <2>2. j \in 1..(n + m) /\ ~(j <= n) /\ j - n = i
    BY <1>2, <2>1
  <2>3. c[j] = b[j - n]
    BY <1>3, <2>2
  <2> QED
    BY <2>1, <2>2, <2>3
<1> QED
  BY <1>1, <1>3, <1>4, <1>5 DEF Joins

EndsAs(g, rest, ending, k, m) ==
    /\ m \in {0, 1} /\ (m = 0 => ending = <<>>) /\ (m = 1 => ending = <<ending[1]>>)
    /\ g \in Seq(AnyEntry) /\ Len(g) = k + m
    /\ rest # <<>> => g[1] = Partial(rest)
    /\ m = 1 => g[k + 1] = ending[1] /\ ending[1].kind = "failure"

\* What ends a log: the line left open, then the failure.
LEMMA EndingIs ==
    ASSUME NEW rest \in Seq(Open), NEW ending \in Endings
    PROVE  EndsAs(EndingEntries(rest, ending), rest, ending, Left(rest), Len(ending))
<1>1. PICK m, k, g : m = Len(ending) /\ k = Left(rest) /\ g = EndingEntries(rest, ending)
  OBVIOUS
<1> SUFFICES EndsAs(g, rest, ending, k, m)
  BY <1>1
<1>2. PICK p : p = Partial(rest)
  OBVIOUS
<1>3. p \in AnyEntry /\ <<p>> \in Seq(AnyEntry) /\ Len(<<p>>) = 1 /\ <<p>>[1] = p
  <2>1. p \in AnyEntry
    BY <1>2 DEF Partial, AnyEntry, Kinds, Texts
  <2> QED
    BY <2>1
<1>4. (rest = <<>> => k = 0) /\ (rest # <<>> => k = 1)
  BY <1>1 DEF Left
<1>5. CASE ending = <<>>
  <2>1. m = 0
    BY <1>1, <1>5
  <2>2. CASE rest = <<>>
    <3>1. g = <<>>
      BY <1>1, <1>5, <2>2, ConcatNothing DEF EndingEntries
    <3>2. g \in Seq(AnyEntry) /\ Len(g) = 0
      BY <3>1
    <3> QED
      BY <1>4, <1>5, <2>1, <2>2, <3>2 DEF EndsAs
  <2>3. CASE rest # <<>>
    <3>1. g = <<p>>
      BY <1>1, <1>2, <1>3, <1>5, <2>3, ConcatNothing DEF EndingEntries
    <3>2. k = 1 /\ k + m = 1
      BY <1>4, <2>1, <2>3
    <3>3. g \in Seq(AnyEntry) /\ Len(g) = 1 /\ g[1] = Partial(rest)
      BY <1>2, <1>3, <3>1
    <3> QED
      BY <1>5, <2>1, <3>2, <3>3 DEF EndsAs
  <2> QED
    BY <2>2, <2>3
<1>6. ASSUME NEW f \in AnyEntry, f.kind = "failure", ending = <<f>>
      PROVE  EndsAs(g, rest, ending, k, m)
  <2>1. m = 1 /\ ending[1] = f /\ ending \in Seq(AnyEntry)
    BY <1>1, <1>6
  <2>2. CASE rest = <<>>
    <3>1. g = ending
      BY <1>1, <2>1, <2>2, ConcatNothing DEF EndingEntries
    <3>2. k = 0 /\ k + 1 = 1 /\ k + m = 1
      BY <1>4, <2>1, <2>2
    <3> QED
      BY <1>6, <2>1, <2>2, <3>1, <3>2 DEF EndsAs
  <2>3. CASE rest # <<>>
    <3>1. g = <<p>> \o ending
      BY <1>1, <1>2, <2>3 DEF EndingEntries
    <3>2. k = 1 /\ k + 1 = 2 /\ k + m = 2
      BY <1>4, <2>1, <2>3
    <3>3. Len(ending) = 1
      BY <1>1, <2>1
    <3>4. g \in Seq(AnyEntry) /\ Joins(g, <<p>>, ending, 1, 1)
      BY <1>3, <2>1, <3>1, <3>3, ConcatIs
    <3>5. g[1] = p /\ g[2] = f /\ Len(g) = 2
      BY <1>3, <2>1, <3>4 DEF Joins
    <3> QED
      BY <1>2, <1>6, <2>1, <3>2, <3>4, <3>5 DEF EndsAs
  <2> QED
    BY <2>2, <2>3
<1>7. CASE ending # <<>>
  <2>1. PICK x \in Messages : ending = <<Failure(x)>>
    BY <1>7 DEF Endings
  <2>2. Failure(x) \in AnyEntry /\ Failure(x).kind = "failure"
    BY FailureIs
  <2> QED
    BY <1>6, <2>1, <2>2
<1> QED
  BY <1>5, <1>7

Whole(p, ending) == Entries(p.lines) \o EndingEntries(p.rest, ending)

WholeAs(out, p, ending, n, k, m) ==
    /\ n \in Nat /\ k \in {0, 1} /\ (k = 0 <=> p.rest = <<>>)
    /\ m \in {0, 1} /\ (m = 0 => ending = <<>>) /\ (m = 1 => ending = <<ending[1]>>)
    /\ out \in Seq(AnyEntry) /\ Len(out) = n + k + m
    /\ \A i \in 1..n : out[i] = Line(p.lines[i])
    /\ k = 1 => out[n + 1] = Partial(p.rest)
    /\ m = 1 => out[n + k + 1] = ending[1] /\ ending[1].kind = "failure"

LEMMA WholeHas ==
    ASSUME NEW p \in Splits, NEW ending \in Endings
    PROVE  WholeAs(Whole(p, ending), p, ending, Len(p.lines), Left(p.rest), Len(ending))
<1>1. PICK lines, rest : lines = p.lines /\ rest = p.rest
  OBVIOUS
<1>2. lines \in Seq(Seq(Open)) /\ rest \in Seq(Open)
  BY <1>1 DEF Splits
<1>3. PICK a, b, n, k, m, out : a = Entries(lines) /\ b = EndingEntries(rest, ending) /\ n = Len(lines) /\ k = Left(rest) /\ m = Len(ending) /\ out = a \o b
  OBVIOUS
<1>4. a \in Seq(AnyEntry) /\ Len(a) = n /\ \A i \in 1..n : a[i] = Line(lines[i])
  BY <1>2, <1>3, EntriesAre
<1>5. EndsAs(b, rest, ending, k, m)
  BY <1>2, <1>3, EndingIs
<1>6. b \in Seq(AnyEntry) /\ Len(b) = k + m
  BY <1>5 DEF EndsAs
<1>7. m \in {0, 1} /\ n \in Nat /\ k \in {0, 1} /\ (k = 0 <=> rest = <<>>)
  <2>1. m \in {0, 1}
    BY <1>5 DEF EndsAs
  <2>2. n \in Nat /\ k \in {0, 1} /\ (k = 0 <=> rest = <<>>)
    BY <1>2, <1>3 DEF Left
  <2> QED
    BY <2>1, <2>2
<1>8. out \in Seq(AnyEntry) /\ Joins(out, a, b, n, k + m)
  <2>1. a \in Seq(AnyEntry) /\ Len(a) = n
    BY <1>4
  <2> QED
    BY <1>3, <1>6, <2>1, ConcatIs
<1>9. \A i \in 1..n : out[i] = Line(lines[i])
  BY <1>4, <1>8 DEF Joins
<1>10. k = 1 => out[n + 1] = Partial(rest)
  <2> SUFFICES ASSUME k = 1  PROVE out[n + 1] = Partial(rest)
    OBVIOUS
  <2>1. 1 \in 1..(k + m) /\ rest # <<>>
    BY <1>7
  <2>2. out[n + 1] = b[1]
    BY <1>8, <2>1 DEF Joins
  <2> QED
    BY <1>5, <2>1, <2>2 DEF EndsAs
<1>11. m = 1 => out[n + k + 1] = ending[1] /\ ending[1].kind = "failure"
  <2> SUFFICES ASSUME m = 1  PROVE out[n + k + 1] = ending[1] /\ ending[1].kind = "failure"
    OBVIOUS
  <2>1. k + 1 \in 1..(k + m) /\ n + (k + 1) = n + k + 1
    BY <1>7
  <2>2. out[n + k + 1] = b[k + 1]
    BY <1>8, <2>1 DEF Joins
  <2> QED
    BY <1>5, <2>2 DEF EndsAs
<1>12. Len(out) = n + k + m
  BY <1>7, <1>8 DEF Joins
<1>13. (m = 0 => ending = <<>>) /\ (m = 1 => ending = <<ending[1]>>)
  BY <1>5 DEF EndsAs
<1>14. WholeAs(out, p, ending, n, k, m)
  BY <1>1, <1>7, <1>8, <1>9, <1>10, <1>11, <1>12, <1>13 DEF WholeAs
<1> QED
  BY <1>1, <1>3, <1>14 DEF Whole

LEMMA KindsAre ==
    /\ \A x : Line(x).kind = "line" /\ Line(x).text = x
    /\ \A x : Partial(x).kind = "partial" /\ Partial(x).text = x
    /\ End.kind = "end"
BY DEF Line, Partial, End

\* What was written is read, and has as many lines as were printed.
LEMMA WholeReads ==
    ASSUME NEW p \in Splits, NEW ending \in Endings
    PROVE  /\ Readable(Whole(p, ending))
           /\ Cardinality({i \in DOMAIN Whole(p, ending) : Whole(p, ending)[i].kind # "failure"}) = Len(p.lines) + Left(p.rest)
<1>1. PICK n, k, m, out : n = Len(p.lines) /\ k = Left(p.rest) /\ m = Len(ending) /\ out = Whole(p, ending)
  OBVIOUS
<1>2. WholeAs(out, p, ending, n, k, m)
  BY <1>1, WholeHas
<1>3. /\ n \in Nat /\ k \in {0, 1} /\ m \in {0, 1}
      /\ out \in Seq(AnyEntry) /\ Len(out) = n + k + m
      /\ \A i \in 1..n : out[i] = Line(p.lines[i])
      /\ k = 1 => out[n + 1] = Partial(p.rest)
      /\ m = 1 => out[n + k + 1] = ending[1] /\ ending[1].kind = "failure"
  BY <1>2 DEF WholeAs
<1>4. DOMAIN out = 1..(n + k + m)
  BY <1>3
<1>5. \A i \in 1..n : out[i].kind = "line"
  BY <1>3, KindsAre
<1>6. k = 1 => out[n + 1].kind = "partial"
  BY <1>3, KindsAre
<1>7. m = 1 => out[n + k + 1].kind = "failure"
  BY <1>3
<1>8. \A i \in 1..(n + k + m) : i \in 1..n \/ (k = 1 /\ i = n + 1) \/ (m = 1 /\ i = n + k + 1)
  BY <1>3
<1>9. Readable(out)
  BY <1>3, <1>4, <1>5, <1>6, <1>7, <1>8 DEF Readable
<1>10. {i \in DOMAIN out : out[i].kind # "failure"} = 1..(n + k)
  <2>1. 1..(n + k) \subseteq 1..(n + k + m)
    BY <1>3
  <2>2. \A i \in 1..(n + k) : i \in 1..n \/ (k = 1 /\ i = n + 1)
    BY <1>3
  <2>3. \A i \in 1..(n + k) : out[i].kind # "failure"
    BY <1>5, <1>6, <2>2
  <2>4. \A i \in 1..(n + k + m) : i \in 1..(n + k) \/ (m = 1 /\ i = n + k + 1)
    BY <1>3
  <2> QED
    BY <1>4, <1>7, <2>1, <2>3, <2>4
<1>11. Cardinality(1..(n + k)) = n + k
  <2>1. PICK x : x = n + k
    OBVIOUS
  <2>2. x \in Nat /\ x \in Int /\ 1 \in Int
    BY <1>3, <2>1
  <2>3. Cardinality(1..x) = IF 1 > x THEN 0 ELSE x - 1 + 1
    BY <2>2, FS_Interval
  <2> QED
    BY <2>1, <2>2, <2>3
<1> QED
  BY <1>1, <1>9, <1>10, <1>11

\* The entries from `from` on are `got`.
AgreesFrom(out, from, got) ==
    \A i \in DOMAIN got : (IF from + i - 1 \in DOMAIN out THEN out[from + i - 1] ELSE End) = got[i]

LEMMA LinesAgree ==
    ASSUME NEW p \in Splits, NEW ending \in Endings, NEW s \in Seq(Seq(Open)), NEW new \in Seq(Seq(Open)), Before(s, p.lines)
    PROVE  AgreesFrom(Whole(p, ending), Len(s) + 1, Entries(new)) <=> Before(s \o new, p.lines)
<1>1. PICK n, k, m, out, lines : n = Len(p.lines) /\ k = Left(p.rest) /\ m = Len(ending) /\ out = Whole(p, ending) /\ lines = p.lines
  OBVIOUS
<1>2. WholeAs(out, p, ending, n, k, m)
  BY <1>1, WholeHas
<1>3. /\ n \in Nat /\ k \in {0, 1} /\ m \in {0, 1}
      /\ out \in Seq(AnyEntry) /\ Len(out) = n + k + m
      /\ \A i \in 1..n : out[i] = Line(lines[i])
      /\ k = 1 => out[n + 1] = Partial(p.rest)
      /\ m = 1 => out[n + k + 1] = ending[1] /\ ending[1].kind = "failure"
  BY <1>1, <1>2 DEF WholeAs
<1>4. PICK a, b, g, t : a = Len(s) /\ b = Len(new) /\ g = Entries(new) /\ t = s \o new
  OBVIOUS
<1>5. a \in Nat /\ b \in Nat /\ a <= n /\ \A i \in 1..a : s[i] = lines[i]
  BY <1>1, <1>4 DEF Before
<1>6. DOMAIN g = 1..b /\ \A i \in 1..b : g[i] = Line(new[i])
  <2>1. g \in Seq(AnyEntry) /\ Len(g) = b /\ \A i \in 1..b : g[i] = Line(new[i])
    BY <1>4, EntriesAre
  <2> QED
    BY <2>1
<1>7. Joins(t, s, new, a, b)
  BY <1>4, ConcatIs
<1>8. DOMAIN out = 1..(n + k + m)
  BY <1>3
<1>9. \A j \in 1..(n + k + m) : j \notin 1..n => out[j].kind # "line"
  <2> SUFFICES ASSUME NEW j \in 1..(n + k + m), j \notin 1..n  PROVE out[j].kind # "line"
    OBVIOUS
  <2>1. (k = 1 /\ j = n + 1) \/ (m = 1 /\ j = n + k + 1)
    BY <1>3
  <2> QED
    BY <1>3, <2>1, KindsAre
<1> DEFINE At(j) == IF j \in DOMAIN out THEN out[j] ELSE End
<1>10. ASSUME AgreesFrom(out, a + 1, g)  PROVE Before(t, lines)
  <2>1. ASSUME NEW i \in 1..b  PROVE a + i \in 1..n /\ lines[a + i] = new[i]
    <3>1. PICK j : j = a + i
      OBVIOUS
    <3>2. a + 1 + i - 1 = j
      BY <1>5, <3>1
    <3>3. At(j) = Line(new[i])
      BY <1>6, <1>10, <3>2 DEF AgreesFrom
    <3>4. At(j).kind = "line"
      BY <3>3, KindsAre
    <3>5. j \in DOMAIN out
      BY <3>4, KindsAre
    <3>6. j \in 1..n
      BY <1>8, <1>9, <3>4, <3>5
    <3>7. Line(lines[j]) = Line(new[i])
      BY <1>3, <3>3, <3>5, <3>6
    <3> QED
      BY <3>1, <3>6, <3>7, KindsAre
  <2>2. Len(t) <= n
    <3>1. CASE b = 0
      BY <1>5, <1>7, <3>1 DEF Joins
    <3>2. CASE b # 0
      <4>1. b \in 1..b
        BY <1>5, <3>2
      <4>2. a + b \in 1..n
        BY <2>1, <4>1
      <4>3. Len(t) = a + b
        BY <1>7 DEF Joins
      <4> QED
        BY <4>2, <4>3
    <3> QED
      BY <3>1, <3>2
  <2>3. ASSUME NEW j \in 1..(a + b)  PROVE t[j] = lines[j]
    <3>1. CASE j <= a
      <4>1. j \in 1..a
        BY <1>5, <3>1
      <4> QED
        BY <1>5, <1>7, <4>1 DEF Joins
    <3>2. CASE ~(j <= a)
      <4>1. PICK i : i = j - a
        OBVIOUS
      <4>2. i \in 1..b /\ j = a + i
        BY <1>5, <3>2, <4>1
      <4> QED
        BY <1>7, <2>1, <4>2 DEF Joins
    <3> QED
      BY <3>1, <3>2
  <2> QED
    BY <1>1, <1>7, <2>2, <2>3 DEF Before, Joins
<1>11. ASSUME Before(t, lines)  PROVE AgreesFrom(out, a + 1, g)
  <2> SUFFICES ASSUME NEW i \in 1..b  PROVE At(a + 1 + i - 1) = g[i]
    BY <1>6 DEF AgreesFrom
  <2>1. PICK j : j = a + i
    OBVIOUS
  <2>2. j \in 1..(a + b) /\ a + 1 + i - 1 = j
    BY <1>5, <2>1
  <2>3. j \in 1..n /\ lines[j] = t[j] /\ t[j] = new[i]
    <3>1. Len(t) = a + b /\ t[a + i] = new[i]
      BY <1>7 DEF Joins
    <3> QED
      BY <1>1, <1>5, <1>11, <2>1, <2>2, <3>1 DEF Before
  <2>4. j \in DOMAIN out
    BY <1>3, <1>8, <2>3
  <2>5. out[j] = Line(new[i])
    BY <1>3, <2>3
  <2> QED
    BY <1>6, <2>2, <2>4, <2>5
<1> QED
  BY <1>1, <1>4, <1>10, <1>11

\* The end of a run is the recorded one if all that it printed is.
EndedAs(h, q, f, k, m) ==
    /\ DOMAIN h = 1..(k + m + 1) /\ h[k + m + 1] = End
    /\ k = 1 => h[1] = Partial(q.rest)
    /\ m = 1 => h[k + 1] = f[1] /\ f[1].kind = "failure"

LEMMA EndedHas ==
    ASSUME NEW q \in Splits, NEW f \in Endings
    PROVE  EndedAs(EndingEntries(q.rest, f) \o <<End>>, q, f, Left(q.rest), Len(f))
<1>1. PICK rest, g, h, k, m : rest = q.rest /\ g = EndingEntries(rest, f) /\ h = g \o <<End>> /\ k = Left(rest) /\ m = Len(f)
  OBVIOUS
<1>2. rest \in Seq(Open) /\ k \in {0, 1} /\ (k = 0 <=> rest = <<>>)
  BY <1>1 DEF Splits, Left
<1>3. EndsAs(g, rest, f, k, m)
  BY <1>1, <1>2, EndingIs
<1>4. g \in Seq(AnyEntry) /\ Len(g) = k + m /\ m \in {0, 1}
  BY <1>3 DEF EndsAs
<1>5. <<End>> \in Seq(AnyEntry) /\ Len(<<End>>) = 1 /\ <<End>>[1] = End
  <2>1. End \in AnyEntry
    <3>1. <<>> \in Seq(Open)
      OBVIOUS
    <3> QED
      BY <3>1 DEF End, AnyEntry, Kinds, Texts
  <2> QED
    BY <2>1
<1>6. h \in Seq(AnyEntry) /\ Joins(h, g, <<End>>, k + m, 1)
  BY <1>1, <1>4, <1>5, ConcatIs
<1>7. DOMAIN h = 1..(k + m + 1)
  BY <1>6 DEF Joins
<1>8. h[k + m + 1] = End
  BY <1>5, <1>6 DEF Joins
<1>9. k = 1 => h[1] = Partial(rest)
  <2> SUFFICES ASSUME k = 1  PROVE h[1] = Partial(rest)
    OBVIOUS
  <2>1. 1 \in 1..(k + m) /\ rest # <<>>
    BY <1>2, <1>4
  <2>2. h[1] = g[1]
    BY <1>6, <2>1 DEF Joins
  <2> QED
    BY <1>3, <2>1, <2>2 DEF EndsAs
<1>10. m = 1 => h[k + 1] = f[1] /\ f[1].kind = "failure"
  <2> SUFFICES ASSUME m = 1  PROVE h[k + 1] = f[1] /\ f[1].kind = "failure"
    OBVIOUS
  <2>1. k + 1 \in 1..(k + m)
    BY <1>2
  <2>2. h[k + 1] = g[k + 1]
    BY <1>6, <2>1 DEF Joins
  <2> QED
    BY <1>3, <2>2 DEF EndsAs
<1> QED
  BY <1>1, <1>7, <1>8, <1>9, <1>10 DEF EndedAs

LEMMA EndsAgree ==
    ASSUME NEW p \in Splits, NEW e \in Endings, NEW q \in Splits, NEW f \in Endings, Before(q.lines, p.lines)
    PROVE  AgreesFrom(Whole(p, e), Len(q.lines) + 1, EndingEntries(q.rest, f) \o <<End>>) <=> (p = q /\ e = f)
<1>1. PICK n, k, m, out : n = Len(p.lines) /\ k = Left(p.rest) /\ m = Len(e) /\ out = Whole(p, e)
  OBVIOUS
<1>2. WholeAs(out, p, e, n, k, m)
  BY <1>1, WholeHas
<1>3. /\ n \in Nat /\ k \in {0, 1} /\ m \in {0, 1} /\ (k = 0 <=> p.rest = <<>>)
      /\ out \in Seq(AnyEntry) /\ Len(out) = n + k + m
      /\ \A i \in 1..n : out[i] = Line(p.lines[i])
      /\ k = 1 => out[n + 1] = Partial(p.rest)
      /\ m = 1 => out[n + k + 1] = e[1] /\ e[1].kind = "failure"
  BY <1>2 DEF WholeAs
<1>4. PICK a, l, r, h : a = Len(q.lines) /\ l = Left(q.rest) /\ r = Len(f) /\ h = EndingEntries(q.rest, f) \o <<End>>
  OBVIOUS
<1>5. EndedAs(h, q, f, l, r)
  BY <1>4, EndedHas
<1>6. WholeAs(Whole(q, f), q, f, a, l, r)
  BY <1>4, WholeHas
<1>7. a \in Nat /\ l \in {0, 1} /\ r \in {0, 1} /\ (l = 0 <=> q.rest = <<>>)
  BY <1>6 DEF WholeAs
<1>8. /\ DOMAIN h = 1..(l + r + 1) /\ h[l + r + 1] = End
      /\ l = 1 => h[1] = Partial(q.rest)
      /\ r = 1 => h[l + 1] = f[1] /\ f[1].kind = "failure"
  BY <1>5 DEF EndedAs
<1>9. (m = 0 => e = <<>>) /\ (m = 1 => e = <<e[1]>>) /\ (r = 0 => f = <<>>) /\ (r = 1 => f = <<f[1]>>)
  BY <1>2, <1>6 DEF WholeAs
<1>10. DOMAIN out = 1..(n + k + m)
  BY <1>3
<1> DEFINE At(j) == IF j \in DOMAIN out THEN out[j] ELSE End
<1>11. (k = 1 => At(n + 1) = Partial(p.rest)) /\ (m = 1 => At(n + k + 1) = e[1]) /\ At(n + k + m + 1) = End
  <2>1. k = 1 => n + 1 \in DOMAIN out
    BY <1>3, <1>10
  <2>2. m = 1 => n + k + 1 \in DOMAIN out
    BY <1>3, <1>10
  <2>3. n + k + m + 1 \notin DOMAIN out
    BY <1>3, <1>10
  <2> QED
    BY <1>3, <2>1, <2>2, <2>3
<1>12. \A i \in 1..n : At(i) = Line(p.lines[i])
  <2>1. \A i \in 1..n : i \in DOMAIN out
    BY <1>3, <1>10
  <2> QED
    BY <1>3, <2>1
<1>13. a <= n /\ \A i \in 1..a : q.lines[i] = p.lines[i]
  BY <1>1, <1>4 DEF Before
<1>14. AgreesFrom(out, a + 1, h) <=> \A i \in 1..(l + r + 1) : At(a + i) = h[i]
  <2>1. \A i \in 1..(l + r + 1) : a + 1 + i - 1 = a + i
    BY <1>7
  <2> QED
    BY <1>8, <2>1 DEF AgreesFrom
<1> HIDE DEF At
<1>15. ASSUME \A i \in 1..(l + r + 1) : At(a + i) = h[i]  PROVE p = q /\ e = f
  <2>1. 1 \in 1..(l + r + 1) /\ l + 1 \in 1..(l + r + 1) /\ l + r + 1 \in 1..(l + r + 1)
    BY <1>7
  <2>2. (l = 1 => h[1].kind = "partial") /\ (r = 1 => h[l + 1].kind = "failure") /\ h[l + r + 1].kind = "end"
    BY <1>8, KindsAre
  <2>3. (k = 1 => At(n + 1).kind = "partial") /\ (m = 1 => At(n + k + 1).kind = "failure") /\ At(n + k + m + 1).kind = "end"
    BY <1>3, <1>11, KindsAre
  <2>4. h[1].kind # "line"
    <3>1. l = 1 \/ (l = 0 /\ r = 1) \/ (l = 0 /\ r = 0)
      BY <1>7
    <3>2. 0 + 1 = 1 /\ 0 + 0 + 1 = 1
      OBVIOUS
    <3> QED
      BY <2>2, <3>1, <3>2
  <2>5. a = n
    <3> SUFFICES ASSUME a # n  PROVE FALSE
      OBVIOUS
    <3>1. a + 1 \in 1..n
      BY <1>3, <1>7, <1>13
    <3>2. At(a + 1).kind = "line"
      BY <1>12, <3>1, KindsAre
    <3> QED
      BY <1>15, <2>1, <2>4, <3>2
  <2>6. At(n + 1) = h[1] /\ At(n + (l + 1)) = h[l + 1] /\ At(n + (l + r + 1)) = h[l + r + 1]
    BY <1>15, <2>1, <2>5
  <2>7. k = l
    <3>1. CASE k = 1 /\ l = 0
      <4>1. h[1].kind \in {"failure", "end"}
        <5>1. r = 1 \/ r = 0
          BY <1>7
        <5>2. 0 + 1 = 1 /\ 0 + 0 + 1 = 1
          OBVIOUS
        <5> QED
          BY <2>2, <3>1, <5>1, <5>2
      <4> QED
        BY <2>3, <2>6, <3>1, <4>1
    <3>2. CASE k = 0 /\ l = 1
      <4>1. At(n + 1).kind \in {"failure", "end"}
        <5>1. m = 1 \/ m = 0
          BY <1>3
        <5>2. n + 0 + 1 = n + 1 /\ n + 0 + 0 + 1 = n + 1
          BY <1>3
        <5> QED
          BY <2>3, <3>2, <5>1, <5>2
      <4> QED
        BY <2>2, <2>6, <3>2, <4>1
    <3> QED
      BY <1>3, <1>7, <3>1, <3>2
  <2>8. p.rest = q.rest
    <3>1. CASE k = 0
      BY <1>3, <1>7, <2>7, <3>1
    <3>2. CASE k = 1
      <4>1. Partial(p.rest) = Partial(q.rest)
        BY <1>8, <1>11, <2>6, <2>7, <3>2
      <4> QED
        BY <4>1, KindsAre
    <3> QED
      BY <1>3, <3>1, <3>2
  <2>9. n + (l + 1) = n + k + 1 /\ (r = 0 => n + (l + r + 1) = n + k + 1) /\ (m = 0 => n + k + m + 1 = n + k + 1)
    BY <1>3, <1>7, <2>7
  <2>10. m = r
    <3>1. CASE m = 1 /\ r = 0
      <4>1. At(n + k + 1).kind = "end"
        BY <2>2, <2>6, <2>9, <3>1
      <4> QED
        BY <2>3, <3>1, <4>1
    <3>2. CASE m = 0 /\ r = 1
      <4>1. At(n + k + 1).kind = "failure"
        BY <2>2, <2>6, <2>9, <3>2
      <4> QED
        BY <2>3, <2>9, <3>2, <4>1
    <3> QED
      BY <1>3, <1>7, <3>1, <3>2
  <2>11. e = f
    <3>1. CASE m = 0
      BY <1>9, <2>10, <3>1
    <3>2. CASE m = 1
      <4>1. e[1] = f[1]
        BY <1>8, <1>11, <2>6, <2>9, <2>10, <3>2
      <4> QED
        BY <1>9, <2>10, <3>2, <4>1
    <3> QED
      BY <1>3, <3>1, <3>2
  <2>12. p.lines = q.lines
    <3>1. p.lines \in Seq(Seq(Open)) /\ q.lines \in Seq(Seq(Open))
      BY DEF Splits
    <3> QED
      BY <1>1, <1>4, <1>13, <2>5, <3>1, SeqEqual
  <2>13. p = q
    BY <2>8, <2>12 DEF Splits
  <2> QED
    BY <2>11, <2>13
<1>16. ASSUME p = q, e = f  PROVE \A i \in 1..(l + r + 1) : At(a + i) = h[i]
  <2>1. a = n /\ l = k /\ r = m
    BY <1>1, <1>4, <1>16
  <2> SUFFICES ASSUME NEW i \in 1..(k + m + 1)  PROVE At(n + i) = h[i]
    BY <2>1
  <2>2. (k = 1 /\ i = 1) \/ (m = 1 /\ i = k + 1) \/ i = k + m + 1
    BY <1>3
  <2>3. CASE k = 1 /\ i = 1
    BY <1>8, <1>11, <1>16, <2>1, <2>3
  <2>4. CASE m = 1 /\ i = k + 1
    <3>1. n + i = n + k + 1
      BY <1>3, <2>4
    <3> QED
      BY <1>8, <1>11, <1>16, <2>1, <2>4, <3>1
  <2>5. CASE i = k + m + 1
    <3>1. n + i = n + k + m + 1
      BY <1>3, <2>5
    <3> QED
      BY <1>8, <1>11, <2>1, <2>5, <3>1
  <2> QED
    BY <2>2, <2>3, <2>4, <2>5
<1> QED
  BY <1>1, <1>4, <1>14, <1>15, <1>16

(* What each step does to a run. *)

Running(ops) == ops \in Seq(Steps) /\ \A i \in 1..Len(ops) : ops[i].op[1] # "end"

LEMMA OpTells ==
    ASSUME NEW e \in Steps
    PROVE  /\ e = [op |-> e.op, result |-> e.result]
           /\ e.op[1] = "native" => e \in NativeSteps
           /\ e.op[1] = "frame" => e \in FrameSteps
           /\ e.op[1] \in {"print", "draw", "close"} => e \in QuietSteps /\ e.result = "none"
           /\ e.op[1] = "end" => e \in EndSteps
           /\ e \in EndSteps => e.op[1] = "end" /\ e.op[2] \in Endings /\ e.op = <<"end", e.op[2]>> /\ e.result = "none"
<1>1. CASE e \in NativeSteps
  <2>1. e.op[1] = "native" /\ e = [op |-> e.op, result |-> e.result]
    BY <1>1, ResultsAre DEF NativeSteps
  <2>2. e \notin EndSteps
    <3> SUFFICES ASSUME e \in EndSteps  PROVE FALSE
      OBVIOUS
    <3>1. PICK ending \in Endings : e.op = <<"end", ending>>
      BY DEF EndSteps
    <3> QED
      BY <2>1, <3>1
  <2> QED
    BY <1>1, <2>1, <2>2
<1>2. CASE e \in FrameSteps
  <2>1. e.op[1] = "frame" /\ e = [op |-> e.op, result |-> e.result]
    BY <1>2, ResultsAre DEF FrameSteps
  <2>2. e \notin EndSteps
    <3> SUFFICES ASSUME e \in EndSteps  PROVE FALSE
      OBVIOUS
    <3>1. PICK ending \in Endings : e.op = <<"end", ending>>
      BY DEF EndSteps
    <3> QED
      BY <2>1, <3>1
  <2> QED
    BY <1>2, <2>1, <2>2
<1>3. CASE e \in QuietSteps
  <2>1. e.result = "none" /\ e = [op |-> e.op, result |-> e.result]
    BY <1>3 DEF QuietSteps
  <2>2. e.op[1] \in {"print", "draw", "close"}
    <3>1. e.op = <<"draw">> \/ e.op = <<"close">> \/ \E chunk \in Chunks : e.op = <<"print", chunk>>
      BY <1>3 DEF QuietSteps
    <3> QED
      BY <3>1
  <2>3. e \notin EndSteps
    <3> SUFFICES ASSUME e \in EndSteps  PROVE FALSE
      OBVIOUS
    <3>1. PICK ending \in Endings : e.op = <<"end", ending>>
      BY DEF EndSteps
    <3> QED
      BY <2>2, <3>1
  <2> QED
    BY <1>3, <2>1, <2>2, <2>3
<1>4. CASE e \in EndSteps
  <2>1. PICK ending \in Endings : e.op = <<"end", ending>>
    BY <1>4 DEF EndSteps
  <2>2. e.result = "none" /\ e = [op |-> e.op, result |-> e.result]
    BY <1>4 DEF EndSteps
  <2>3. e.op[1] = "end" /\ e.op[2] = ending
    BY <2>1
  <2> QED
    BY <1>4, <2>1, <2>2, <2>3
<1> QED
  BY <1>1, <1>2, <1>3, <1>4 DEF Steps, ResultSteps

LEMMA RunningGoesOn ==
    ASSUME NEW ops, Running(ops), NEW e \in Steps, e.op[1] # "end"
    PROVE  Running(Append(ops, e)) /\ Len(Append(ops, e)) = Len(ops) + 1
<1>1. ops \in Seq(Steps) /\ \A i \in 1..Len(ops) : ops[i].op[1] # "end"
  BY DEF Running
<1>2. PICK t, n : t = Append(ops, e) /\ n = Len(ops)
  OBVIOUS
<1>3. n \in Nat /\ t \in Seq(Steps) /\ Len(t) = n + 1 /\ t[n + 1] = e /\ \A i \in 1..n : t[i] = ops[i]
  BY <1>1, <1>2, AppendProperties
<1>4. ASSUME NEW i \in 1..(n + 1)  PROVE t[i].op[1] # "end"
  <2>1. CASE i = n + 1
    BY <1>3, <2>1
  <2>2. CASE i # n + 1
    <3>1. i \in 1..n
      BY <1>3, <2>2
    <3> QED
      BY <1>1, <1>2, <1>3, <3>1
  <2> QED
    BY <2>1, <2>2
<1> QED
  BY <1>2, <1>3, <1>4 DEF Running

\* A native's result, or a frame.
LEMMA ResultStep ==
    ASSUME NEW ops \in Seq(Steps), NEW w \in BOOLEAN, NEW e \in ResultSteps
    PROVE  /\ e \in Steps /\ e.op[1] \in {"native", "frame"}
           /\ Results(Append(ops, e)) = Append(Results(ops), e)
           /\ Printing(Append(ops, e), w) = Printing(ops, w)
<1>1. e \in Steps /\ IsResult(e)
  BY ResultsAre DEF Steps
<1>2. e.op[1] \in {"native", "frame"}
  BY <1>1 DEF IsResult
<1>3. Text(e, w) = <<>>
  BY <1>2, TextIs
<1> QED
  BY <1>1, <1>2, <1>3, ResultsIs, PrintingNothing DEF ResultAt

\* Everything else.
LEMMA OtherStep ==
    ASSUME NEW ops \in Seq(Steps), NEW e \in QuietSteps \cup EndSteps
    PROVE  /\ e \in Steps /\ e.op[1] \in {"print", "draw", "close", "end"}
           /\ Results(Append(ops, e)) = Results(ops)
           /\ FramesOf(Append(ops, e)) = FramesOf(ops)
           /\ e.op[1] # "close" => WindowOf(Append(ops, e)) = WindowOf(ops)
<1>1. e \in Steps
  BY DEF Steps
<1>2. e.op[1] \in {"print", "draw", "close", "end"}
  <2>1. CASE e \in QuietSteps
    <3>1. e.op = <<"draw">> \/ e.op = <<"close">> \/ \E chunk \in Chunks : e.op = <<"print", chunk>>
      BY <2>1 DEF QuietSteps
    <3> QED
      BY <3>1
  <2>2. CASE e \in EndSteps
    BY <1>1, <2>2, OpTells
  <2> QED
    BY <2>1, <2>2
<1>3. ~IsResult(e)
  BY <1>2 DEF IsResult
<1>4. Results(Append(ops, e)) = Results(ops)
  BY <1>1, <1>3, ResultsIs DEF ResultAt
<1>5. FramesOf(Append(ops, e)) = FramesOf(ops)
  BY <1>1, <1>2, FramesAre
<1>6. e.op[1] # "close" => WindowOf(Append(ops, e)) = WindowOf(ops)
  BY <1>1, <1>2, WindowIs
<1> QED
  BY <1>1, <1>2, <1>4, <1>5, <1>6

LEMMA QuietOps ==
    /\ \A chunk \in Chunks : [op |-> <<"print", chunk>>, result |-> "none"] \in QuietSteps
    /\ [op |-> <<"draw">>, result |-> "none"] \in QuietSteps
    /\ [op |-> <<"close">>, result |-> "none"] \in QuietSteps
    /\ \A ending \in Endings : [op |-> <<"end", ending>>, result |-> "none"] \in EndSteps
    /\ \A id \in Natives, v \in Values : [op |-> <<"native", id>>, result |-> v] \in NativeSteps
    /\ \A b \in BOOLEAN : [op |-> <<"frame">>, result |-> b] \in FrameSteps
BY DEF QuietSteps, EndSteps, NativeSteps, FrameSteps

FileOf(natives, output, n) == [natives |-> natives, output |-> output, frames |-> n]

LEMMA FileGrows ==
    ASSUME NEW f, NEW a, NEW b, NEW c, f = FileOf(a, b, c), NEW x
    PROVE  /\ [f EXCEPT !.natives = Append(@, x)] = FileOf(Append(a, x), b, c)
           /\ [f EXCEPT !.output = @ \o x] = FileOf(a, b \o x, c)
<1>1. f.natives = a /\ f.output = b /\ f.frames = c
  BY DEF FileOf
<1>2. PICK y, z : y = Append(a, x) /\ z = b \o x
  OBVIOUS
<1>3. [f EXCEPT !.natives = y] = FileOf(y, b, c)
  BY DEF FileOf
<1>4. [f EXCEPT !.output = z] = FileOf(a, z, c)
  BY DEF FileOf
<1> QED
  BY <1>1, <1>2, <1>3, <1>4

Wrote(f, x) == [f EXCEPT !.output = @ \o x]

LEMMA FileWrote ==
    ASSUME NEW f, NEW a, NEW b, NEW c, f = FileOf(a, b, c), NEW x
    PROVE  Wrote(f, x) = FileOf(a, b \o x, c)
BY FileGrows DEF Wrote

Finished(f, x, n) == [f EXCEPT !.output = @ \o x, !.frames = n]

LEMMA FileEnds ==
    ASSUME NEW f, NEW a, NEW b, NEW c, f = FileOf(a, b, c), NEW x, NEW n
    PROVE  Finished(f, x, n) = FileOf(a, b \o x, n)
<1>1. PICK g, z : g = [f EXCEPT !.output = @ \o x] /\ z = b \o x
  OBVIOUS
<1>2. g = FileOf(a, z, c)
  BY <1>1, FileGrows
<1>3. [g EXCEPT !.frames = n] = FileOf(a, z, n)
  BY <1>2 DEF FileOf
<1> QED
  BY <1>1, <1>3 DEF Finished

\* What a run that is recorded has written.
RecordedAs(w, s, f, p, fr, wi) ==
    /\ Running(s) /\ Len(s) <= MaxOps /\ WellStarted(s)
    /\ f = FileOf(LogOf(Results(s)), Entries(Printing(s, w).lines), 0)
    /\ p = Printing(s, w).rest /\ fr = FramesOf(s) /\ wi = WindowOf(s)

LEMMA NativeRecorded ==
    ASSUME NEW w \in BOOLEAN, NEW s, NEW f, NEW p, NEW fr, NEW wi, RecordedAs(w, s, f, p, fr, wi), Len(s) < MaxOps,
           NEW id \in Natives, NEW v \in Values
    PROVE  RecordedAs(w, Append(s, [op |-> <<"native", id>>, result |-> v]),
                      [f EXCEPT !.natives = Append(@, [id |-> id, result |-> v])], p, fr, wi)
<1>1. PICK e, t, rs, pr : e = [op |-> <<"native", id>>, result |-> v] /\ t = Append(s, e) /\ rs = Results(s) /\ pr = Printing(s, w)
  OBVIOUS
<1>2. /\ Running(s) /\ s \in Seq(Steps) /\ WellStarted(s) /\ Len(s) \in Nat /\ rs \in Seq(ResultSteps)
      /\ f = FileOf(LogOf(rs), Entries(pr.lines), 0)
      /\ p = pr.rest /\ fr = FramesOf(s) /\ wi = WindowOf(s)
  BY <1>1, ResultsIs DEF RecordedAs, Running
<1>3. e \in NativeSteps /\ e \in ResultSteps /\ e.op[1] = "native" /\ e.op[2] = id /\ e.result = v
  BY <1>1, QuietOps DEF ResultSteps
<1>4. e \in Steps /\ Results(t) = Append(rs, e) /\ Printing(t, w) = pr
  BY <1>1, <1>2, <1>3, ResultStep
<1>5. Running(t) /\ Len(t) = Len(s) + 1
  BY <1>1, <1>2, <1>3, <1>4, RunningGoesOn
<1>6. LogOf(Append(rs, e)) = Append(LogOf(rs), LogEntry(e))
  BY <1>2, <1>3, LogIs
<1>7. LogEntry(e) = [id |-> id, result |-> v]
  BY <1>3 DEF LogEntry, IdOf
<1>8. FramesOf(t) = FramesOf(s) /\ WindowOf(t) = WindowOf(s) /\ WellStarted(t)
  BY <1>1, <1>2, <1>3, <1>4, FramesAre, WindowIs, WellStartedGoesOn
<1>9. Len(t) <= MaxOps
  BY <1>2, <1>5, OpsAssumption
<1>10. [f EXCEPT !.natives = Append(@, [id |-> id, result |-> v])] = FileOf(LogOf(Results(t)), Entries(Printing(t, w).lines), 0)
  <2>1. PICK a, b, x : a = LogOf(rs) /\ b = Entries(pr.lines) /\ x = [id |-> id, result |-> v]
    OBVIOUS
  <2>2. f = FileOf(a, b, 0)
    BY <1>2, <2>1
  <2>3. [f EXCEPT !.natives = Append(@, x)] = FileOf(Append(a, x), b, 0)
    BY <2>2, FileGrows
  <2> QED
    BY <1>4, <1>6, <1>7, <2>1, <2>3
<1> QED
  BY <1>1, <1>2, <1>4, <1>5, <1>8, <1>9, <1>10 DEF RecordedAs

LEMMA FrameRecorded ==
    ASSUME NEW w \in BOOLEAN, NEW s, NEW f, NEW p, NEW fr, NEW wi, RecordedAs(w, s, f, p, fr, wi), Len(s) < MaxOps,
           NEW started \in BOOLEAN, started => wi = "open"
    PROVE  RecordedAs(w, Append(s, [op |-> <<"frame">>, result |-> started]),
                      [f EXCEPT !.natives = Append(@, [id |-> FrameId, result |-> started])], p,
                      IF started THEN fr + 1 ELSE fr, IF started THEN wi ELSE "closed")
<1>1. PICK e, t, rs, pr : e = [op |-> <<"frame">>, result |-> started] /\ t = Append(s, e) /\ rs = Results(s) /\ pr = Printing(s, w)
  OBVIOUS
<1>2. /\ Running(s) /\ s \in Seq(Steps) /\ WellStarted(s) /\ Len(s) \in Nat /\ rs \in Seq(ResultSteps)
      /\ f = FileOf(LogOf(rs), Entries(pr.lines), 0)
      /\ p = pr.rest /\ fr = FramesOf(s) /\ wi = WindowOf(s)
  BY <1>1, ResultsIs DEF RecordedAs, Running
<1>3. e \in FrameSteps /\ e \in ResultSteps /\ e.op[1] = "frame"
  BY <1>1, QuietOps DEF ResultSteps
<1>4. e.result = started
  BY <1>1, Zenon
<1>5. e \in Steps /\ Results(t) = Append(rs, e) /\ Printing(t, w) = pr
  BY <1>1, <1>2, <1>3, ResultStep
<1>6. Running(t) /\ Len(t) = Len(s) + 1
  BY <1>1, <1>2, <1>3, <1>5, RunningGoesOn
<1>7. LogOf(Append(rs, e)) = Append(LogOf(rs), LogEntry(e))
  BY <1>2, <1>3, LogIs
<1>8. LogEntry(e) = [id |-> FrameId, result |-> started]
  <2>1. IdOf(e) = FrameId
    BY <1>3 DEF IdOf
  <2> QED
    BY <1>4, <2>1, Zenon DEF LogEntry
<1>9. FramesOf(t) = (IF started THEN fr + 1 ELSE fr) /\ WindowOf(t) = (IF started THEN wi ELSE "closed") /\ WellStarted(t)
  <2>1. CASE started = TRUE
    <3>1. e.result = TRUE
      BY <1>4, <2>1
    <3>2. FramesOf(t) = FramesOf(s) + 1
      BY <1>1, <1>2, <1>3, <1>5, <3>1, FramesAre
    <3>3. WindowOf(t) = WindowOf(s)
      BY <1>1, <1>2, <1>3, <1>5, <3>1, WindowIs
    <3>4. WellStarted(t)
      BY <1>1, <1>2, <1>5, <2>1, WellStartedGoesOn
    <3> QED
      BY <1>2, <2>1, <3>2, <3>3, <3>4
  <2>2. CASE started = FALSE
    <3>1. e.result = FALSE
      BY <1>4, <2>2
    <3>2. FramesOf(t) = FramesOf(s)
      BY <1>1, <1>2, <1>3, <1>5, <3>1, FramesAre
    <3>3. WindowOf(t) = "closed"
      BY <1>1, <1>2, <1>3, <1>5, <3>1, WindowIs
    <3>4. WellStarted(t)
      BY <1>1, <1>2, <1>5, <3>1, WellStartedGoesOn
    <3> QED
      BY <1>2, <2>2, <3>2, <3>3, <3>4
  <2> QED
    BY <2>1, <2>2
<1>10. Len(t) <= MaxOps
  BY <1>2, <1>6, OpsAssumption
<1>11. [f EXCEPT !.natives = Append(@, [id |-> FrameId, result |-> started])] = FileOf(LogOf(Results(t)), Entries(Printing(t, w).lines), 0)
  <2>1. PICK a, b, x : a = LogOf(rs) /\ b = Entries(pr.lines) /\ x = [id |-> FrameId, result |-> started]
    OBVIOUS
  <2>2. f = FileOf(a, b, 0)
    BY <1>2, <2>1
  <2>3. [f EXCEPT !.natives = Append(@, x)] = FileOf(Append(a, x), b, 0)
    BY <2>2, FileGrows
  <2> QED
    BY <1>5, <1>7, <1>8, <2>1, <2>3
<1> QED
  BY <1>1, <1>2, <1>5, <1>6, <1>9, <1>10, <1>11 DEF RecordedAs

LEMMA TextRecorded ==
    ASSUME NEW w \in BOOLEAN, NEW s, NEW f, NEW p, NEW fr, NEW wi, RecordedAs(w, s, f, p, fr, wi), Len(s) < MaxOps,
           NEW e \in QuietSteps, e.op[1] # "close", NEW bytes, bytes = Text(e, w)
    PROVE  RecordedAs(w, Append(s, e), [f EXCEPT !.output = @ \o Entries(Split(p, bytes).lines)],
                      Split(p, bytes).rest, fr, wi)
<1>1. PICK t, rs, pr, q : t = Append(s, e) /\ rs = Results(s) /\ pr = Printing(s, w) /\ q = Split(p, bytes)
  OBVIOUS
<1>2. /\ Running(s) /\ s \in Seq(Steps) /\ WellStarted(s) /\ Len(s) \in Nat /\ pr \in Splits
      /\ f = FileOf(LogOf(rs), Entries(pr.lines), 0)
      /\ p = pr.rest /\ fr = FramesOf(s) /\ wi = WindowOf(s)
  BY <1>1, PrintingIs DEF RecordedAs, Running
<1>3. e \in QuietSteps \cup EndSteps /\ e \in Steps /\ e.op[1] \in {"print", "draw", "close", "end"}
  BY <1>2, OtherStep
<1>4. e.op[1] # "end" /\ e.op[1] # "frame"
  BY <1>3, OpTells DEF QuietSteps
<1>5. Results(t) = rs /\ FramesOf(t) = fr /\ WindowOf(t) = wi
  BY <1>1, <1>2, <1>3, OtherStep
<1>6. Printing(t, w) = Joined(pr, q)
  BY <1>1, <1>2, <1>3, PrintingIs
<1>7. p \in Seq(Open) /\ pr.lines \in Seq(Seq(Open)) /\ bytes \in Seq(Bytes)
  BY <1>2, <1>3, TextTyped DEF Splits
<1>8. q \in Splits /\ q.lines \in Seq(Seq(Open))
  <2>1. q \in Splits
    BY <1>1, <1>7, SplitIs
  <2> QED
    BY <2>1 DEF Splits
<1>9. PICK x, y, z : x = Entries(q.lines) /\ y = Entries(pr.lines) /\ z = LogOf(rs)
  OBVIOUS
<1>10. Entries(Printing(t, w).lines) = y \o x /\ Printing(t, w).rest = q.rest
  <2>1. PICK a, b, c : a = pr.lines /\ b = q.lines /\ c = a \o b
    OBVIOUS
  <2>2. Entries(c) = y \o x
    BY <1>7, <1>8, <1>9, <2>1, EntriesJoin
  <2>3. Joined(pr, q).lines = c /\ Joined(pr, q).rest = q.rest
    BY <2>1, JoinedIs
  <2> QED
    BY <1>6, <2>2, <2>3
<1>11. f = FileOf(z, y, 0)
  BY <1>2, <1>9
<1>12. Wrote(f, x) = FileOf(z, y \o x, 0)
  BY <1>11, FileWrote
<1>13. Running(t) /\ Len(t) = Len(s) + 1
  BY <1>1, <1>2, <1>3, <1>4, RunningGoesOn
<1>14. Len(t) <= MaxOps
  BY <1>2, <1>13, OpsAssumption
<1>15. WellStarted(t)
  BY <1>1, <1>2, <1>3, <1>4, WellStartedGoesOn
<1>16. RecordedAs(w, t, Wrote(f, x), q.rest, fr, wi)
  BY <1>5, <1>9, <1>10, <1>12, <1>13, <1>14, <1>15 DEF RecordedAs
<1> QED
  BY <1>1, <1>9, <1>16 DEF Wrote

LEMMA SilentRecorded ==
    ASSUME NEW w \in BOOLEAN, NEW s, NEW f, NEW p, NEW fr, NEW wi, RecordedAs(w, s, f, p, fr, wi), Len(s) < MaxOps,
           NEW e \in QuietSteps, Text(e, w) = <<>>
    PROVE  RecordedAs(w, Append(s, e), f, p, fr, IF e.op[1] = "close" /\ wi = "open" THEN "asked" ELSE wi)
<1>1. PICK t, rs, pr : t = Append(s, e) /\ rs = Results(s) /\ pr = Printing(s, w)
  OBVIOUS
<1>2. /\ Running(s) /\ s \in Seq(Steps) /\ WellStarted(s) /\ Len(s) \in Nat
      /\ f = FileOf(LogOf(rs), Entries(pr.lines), 0)
      /\ p = pr.rest /\ fr = FramesOf(s) /\ wi = WindowOf(s)
  BY <1>1 DEF RecordedAs, Running
<1>3. e \in QuietSteps \cup EndSteps /\ e \in Steps /\ e.op[1] \in {"print", "draw", "close", "end"}
  BY <1>2, OtherStep
<1>4. e.op[1] # "end" /\ e.op[1] # "frame"
  BY <1>3, OpTells DEF QuietSteps
<1>5. Results(t) = rs /\ FramesOf(t) = fr
  BY <1>1, <1>2, <1>3, OtherStep
<1>6. WindowOf(t) = IF e.op[1] = "close" /\ wi = "open" THEN "asked" ELSE wi
  BY <1>1, <1>2, <1>3, <1>4, WindowIs
<1>7. Printing(t, w) = pr
  BY <1>1, <1>2, <1>3, PrintingNothing
<1>8. Running(t) /\ Len(t) = Len(s) + 1
  BY <1>1, <1>2, <1>3, <1>4, RunningGoesOn
<1>9. Len(t) <= MaxOps
  BY <1>2, <1>8, OpsAssumption
<1>10. WellStarted(t)
  BY <1>1, <1>2, <1>3, <1>4, WellStartedGoesOn
<1> QED
  BY <1>1, <1>2, <1>5, <1>6, <1>7, <1>8, <1>9, <1>10 DEF RecordedAs

\* A run that ended, and its file.
EndOf(s) == s[Len(s)].op[2]
WrittenAs(w, s, f) ==
    /\ s \in Seq(Steps) /\ Len(s) \in 1..(MaxOps + 1) /\ s[Len(s)] \in EndSteps
    /\ \A i \in 1..(Len(s) - 1) : s[i].op[1] # "end"
    /\ WellStarted(s) /\ FramesOf(s) <= MaxOps
    /\ f = FileOf(LogOf(Results(s)), Whole(Printing(s, w), EndOf(s)), FramesOf(s))

LEMMA EndRecorded ==
    ASSUME NEW w \in BOOLEAN, NEW s, NEW f, NEW p, NEW fr, NEW wi, RecordedAs(w, s, f, p, fr, wi), NEW ending \in Endings
    PROVE  /\ WrittenAs(w, Append(s, [op |-> <<"end", ending>>, result |-> "none"]),
                        [f EXCEPT !.output = @ \o EndingEntries(p, ending), !.frames = fr])
           /\ fr \in 0..MaxOps
<1>1. PICK e, t, rs, pr, n : e = [op |-> <<"end", ending>>, result |-> "none"] /\ t = Append(s, e) /\ rs = Results(s) /\ pr = Printing(s, w) /\ n = Len(s)
  OBVIOUS
<1>2. /\ Running(s) /\ s \in Seq(Steps) /\ WellStarted(s) /\ n \in Nat /\ n <= MaxOps
      /\ f = FileOf(LogOf(rs), Entries(pr.lines), 0)
      /\ p = pr.rest /\ fr = FramesOf(s) /\ wi = WindowOf(s)
  BY <1>1 DEF RecordedAs, Running
<1>3. e \in EndSteps /\ e.op[1] = "end" /\ e.op[2] = ending
  BY <1>1, QuietOps
<1>4. e \in Steps
  BY <1>3 DEF Steps
<1>5. Results(t) = rs /\ FramesOf(t) = fr
  BY <1>1, <1>2, <1>3, OtherStep
<1>6. Text(e, w) = <<>>
  BY <1>3, TextIs
<1>7. Printing(t, w) = pr
  BY <1>1, <1>2, <1>4, <1>6, PrintingNothing
<1>8. t \in Seq(Steps) /\ Len(t) = n + 1 /\ t[n + 1] = e /\ \A i \in 1..n : t[i] = s[i]
  BY <1>1, <1>2, <1>4, AppendProperties
<1>9. \A i \in 1..(Len(t) - 1) : t[i].op[1] # "end"
  BY <1>1, <1>2, <1>8 DEF Running
<1>10. WellStarted(t)
  BY <1>1, <1>2, <1>3, <1>4, WellStartedGoesOn
<1>11. fr \in 0..MaxOps
  <2>1. fr \in 0..n
    BY <1>1, <1>2, <1>4, FramesAre
  <2> QED
    BY <1>2, <2>1, OpsAssumption
<1>12. PICK a, b, x : a = LogOf(rs) /\ b = Entries(pr.lines) /\ x = EndingEntries(p, ending)
  OBVIOUS
<1>13. Finished(f, x, fr) = FileOf(a, b \o x, fr)
  <2>1. f = FileOf(a, b, 0)
    BY <1>2, <1>12
  <2> QED
    BY <2>1, FileEnds
<1>14. Whole(Printing(t, w), EndOf(t)) = b \o x
  <2>1. EndOf(t) = ending
    BY <1>3, <1>8 DEF EndOf
  <2> QED
    BY <1>2, <1>7, <1>12, <2>1 DEF Whole
<1>15. Len(t) \in 1..(MaxOps + 1)
  BY <1>2, <1>8, OpsAssumption
<1>16. WrittenAs(w, t, FileOf(a, b \o x, fr))
  BY <1>3, <1>5, <1>8, <1>9, <1>10, <1>11, <1>12, <1>14, <1>15 DEF WrittenAs
<1>17. Finished(f, x, fr) = [f EXCEPT !.output = @ \o EndingEntries(p, ending), !.frames = fr]
  BY <1>12 DEF Finished
<1> QED
  BY <1>1, <1>11, <1>13, <1>16, <1>17

(* What each step does to a replay. *)

LEMMA BeforeNext ==
    ASSUME NEW X, NEW s \in Seq(X), NEW t \in Seq(X), Before(t, s), NEW n, n = Len(t) + 1, n \in 1..Len(s)
    PROVE  Before(Append(t, s[n]), s)
<1>1. PICK u : u = Append(t, s[n])
  OBVIOUS
<1>2. Len(t) \in Nat /\ s[n] \in X
  OBVIOUS
<1>3. u \in Seq(X) /\ Len(u) = n /\ u[n] = s[n] /\ \A i \in 1..Len(t) : u[i] = t[i]
  BY <1>1, <1>2, AppendProperties
<1>4. ASSUME NEW i \in 1..n  PROVE u[i] = s[i]
  <2>1. CASE i = n
    BY <1>3, <2>1
  <2>2. CASE i # n
    <3>1. i \in 1..Len(t)
      BY <1>2, <2>2
    <3> QED
      BY <1>3, <3>1 DEF Before
  <2> QED
    BY <2>1, <2>2
<1> QED
  BY <1>1, <1>3, <1>4 DEF Before

LEMMA BeforeSub ==
    ASSUME NEW X, NEW s \in Seq(X), NEW t \in Seq(X), Before(t, s)
    PROVE  /\ Len(t) \in 0..Len(s) /\ SubSeq(s, 1, Len(t)) = t
           /\ Len(t) < Len(s) => SubSeq(s, 1, Len(t) + 1) = Append(t, s[Len(t) + 1])
<1>1. PICK n, u : n = Len(t) /\ u = SubSeq(s, 1, n)
  OBVIOUS
<1>2. n \in Nat /\ n <= Len(s) /\ Len(s) \in Nat /\ \A i \in 1..n : t[i] = s[i]
  BY <1>1 DEF Before
<1>3. u \in Seq(X) /\ Len(u) = n /\ \A i \in 1..n : u[i] = s[i]
  BY <1>1, <1>2, SubSeqProperties
<1>4. u = t
  BY <1>1, <1>2, <1>3, SeqEqual
<1>5. ASSUME n < Len(s)  PROVE SubSeq(s, 1, n + 1) = Append(u, s[n + 1])
  <2>1. n \in 0..(Len(s) - 1)
    BY <1>2, <1>5
  <2> QED
    BY <1>1, <2>1, OneLonger
<1> QED
  BY <1>1, <1>2, <1>4, <1>5

RepeatedAs(w, s, t, a, nx, p, fr, wi) ==
    /\ Running(t)
    /\ a = Len(Results(t)) + 1 /\ Before(Results(t), Results(s))
    /\ nx = Len(Printing(t, w).lines) + 1 /\ Before(Printing(t, w).lines, Printing(s, w).lines)
    /\ p = Printing(t, w).rest /\ fr = FramesOf(t) /\ fr <= FramesOf(s) /\ wi = WindowOf(t)

LEMMA ResultRepeated ==
    ASSUME NEW w \in BOOLEAN, NEW s \in Seq(Steps), NEW t, NEW a, NEW nx, NEW p, NEW fr, NEW wi,
           RepeatedAs(w, s, t, a, nx, p, fr, wi),
           a \in 1..Len(Results(s)), NEW e \in ResultSteps, e = Results(s)[a], e.result = TRUE /\ e.op[1] = "frame" => fr < FramesOf(s)
    PROVE  RepeatedAs(w, s, Append(t, e), a + 1, nx, p,
                      IF e.op[1] = "frame" /\ e.result = TRUE THEN fr + 1 ELSE fr,
                      IF e.op[1] = "frame" /\ e.result = FALSE THEN "closed" ELSE wi)
<1>1. PICK u, rs, rt : u = Append(t, e) /\ rs = Results(s) /\ rt = Results(t)
  OBVIOUS
<1>2. Running(t) /\ t \in Seq(Steps) /\ rt \in Seq(ResultSteps) /\ rs \in Seq(ResultSteps)
  BY <1>1, ResultsIs DEF RepeatedAs, Running
<1>3. e \in Steps /\ e.op[1] \in {"native", "frame"} /\ Results(u) = Append(rt, e) /\ Printing(u, w) = Printing(t, w)
  BY <1>1, <1>2, ResultStep
<1>4. Before(rt, rs) /\ a = Len(rt) + 1 /\ a \in 1..Len(rs) /\ e = rs[a]
  BY <1>1 DEF RepeatedAs
<1>5. Before(Append(rt, e), rs) /\ Len(Append(rt, e)) + 1 = a + 1
  BY <1>2, <1>4, BeforeNext, AppendProperties
<1>6. Running(u)
  BY <1>1, <1>2, <1>3, RunningGoesOn
<1>7. FramesOf(u) = IF e.op[1] = "frame" /\ e.result = TRUE THEN fr + 1 ELSE fr
  BY <1>1, <1>2, <1>3, FramesAre DEF RepeatedAs
<1>8. WindowOf(u) = IF e.op[1] = "frame" /\ e.result = FALSE THEN "closed" ELSE wi
  BY <1>1, <1>2, <1>3, WindowIs DEF RepeatedAs
<1>9. FramesOf(u) <= FramesOf(s)
  <2>1. fr \in Nat /\ FramesOf(s) \in Nat /\ fr <= FramesOf(s)
    <3>1. fr = FramesOf(t) /\ fr <= FramesOf(s)
      BY DEF RepeatedAs
    <3>2. FramesOf(t) \in 0..Len(t) /\ FramesOf(s) \in 0..Len(s)
      BY <1>2, <1>3, FramesAre
    <3> QED
      BY <3>1, <3>2
  <2> QED
    BY <1>7, <2>1
<1> QED
  BY <1>1, <1>3, <1>5, <1>6, <1>7, <1>8, <1>9 DEF RepeatedAs

LEMMA TextRepeated ==
    ASSUME NEW w \in BOOLEAN, NEW s, NEW f, WrittenAs(w, s, f), NEW t, NEW a, NEW nx, NEW p, NEW fr, NEW wi,
           RepeatedAs(w, s, t, a, nx, p, fr, wi),
           NEW e \in QuietSteps, e.op[1] # "close", NEW bytes, bytes = Text(e, w),
           AgreesFrom(f.output, nx, Entries(Split(p, bytes).lines))
    PROVE  RepeatedAs(w, s, Append(t, e), a, nx + Len(Split(p, bytes).lines), Split(p, bytes).rest, fr, wi)
<1>1. PICK u, ps, pt, q : u = Append(t, e) /\ ps = Printing(s, w) /\ pt = Printing(t, w) /\ q = Split(p, bytes)
  OBVIOUS
<1>2. s \in Seq(Steps) /\ s[Len(s)] \in EndSteps /\ f.output = Whole(ps, EndOf(s))
  BY <1>1 DEF WrittenAs, FileOf
<1>3. EndOf(s) \in Endings
  BY <1>2, OpTells DEF EndOf, Steps
<1>4. Running(t) /\ t \in Seq(Steps) /\ ps \in Splits /\ pt \in Splits /\ p = pt.rest /\ nx = Len(pt.lines) + 1 /\ Before(pt.lines, ps.lines)
  BY <1>1, <1>2, PrintingIs DEF RepeatedAs, Running
<1>5. e \in QuietSteps \cup EndSteps /\ e \in Steps /\ e.op[1] \in {"print", "draw", "close", "end"}
  BY <1>4, OtherStep
<1>6. e.op[1] # "end"
  BY <1>5, OpTells DEF QuietSteps
<1>7. Results(u) = Results(t) /\ FramesOf(u) = FramesOf(t) /\ WindowOf(u) = WindowOf(t)
  BY <1>1, <1>4, <1>5, OtherStep
<1>8. Printing(u, w) = Joined(pt, q)
  BY <1>1, <1>4, <1>5, PrintingIs
<1>9. p \in Seq(Open) /\ pt.lines \in Seq(Seq(Open)) /\ bytes \in Seq(Bytes)
  BY <1>4, <1>5, TextTyped DEF Splits
<1>10. q \in Splits /\ q.lines \in Seq(Seq(Open))
  <2>1. q \in Splits
    BY <1>1, <1>9, SplitIs
  <2> QED
    BY <2>1 DEF Splits
<1>11. PICK c, d, x : c = pt.lines /\ d = q.lines /\ x = c \o d
  OBVIOUS
<1>12. Before(x, ps.lines)
  <2>1. AgreesFrom(Whole(ps, EndOf(s)), Len(c) + 1, Entries(d))
    BY <1>1, <1>2, <1>4, <1>11
  <2> QED
    BY <1>3, <1>4, <1>9, <1>10, <1>11, <2>1, LinesAgree
<1>13. Len(x) = Len(c) + Len(d) /\ Len(c) \in Nat /\ Len(d) \in Nat
  BY <1>9, <1>10, <1>11, ConcatProperties
<1>14. Printing(u, w).lines = x /\ Printing(u, w).rest = q.rest
  BY <1>8, <1>11, JoinedIs
<1>15. Running(u)
  BY <1>1, <1>4, <1>5, <1>6, RunningGoesOn
<1>16. nx + Len(d) = Len(x) + 1
  <2>1. nx = Len(c) + 1
    BY <1>4, <1>11
  <2> QED
    BY <1>13, <2>1
<1>17. RepeatedAs(w, s, u, a, nx + Len(d), q.rest, fr, wi)
  BY <1>1, <1>7, <1>12, <1>14, <1>15, <1>16 DEF RepeatedAs
<1> QED
  BY <1>1, <1>11, <1>17

LEMMA SilentRepeated ==
    ASSUME NEW w \in BOOLEAN, NEW s, NEW t, NEW a, NEW nx, NEW p, NEW fr, NEW wi,
           RepeatedAs(w, s, t, a, nx, p, fr, wi), NEW e \in QuietSteps, Text(e, w) = <<>>
    PROVE  RepeatedAs(w, s, Append(t, e), a, nx, p, fr, IF e.op[1] = "close" /\ wi = "open" THEN "asked" ELSE wi)
<1>1. PICK u : u = Append(t, e)
  OBVIOUS
<1>2. Running(t) /\ t \in Seq(Steps)
  BY DEF RepeatedAs, Running
<1>3. e \in QuietSteps \cup EndSteps /\ e \in Steps /\ e.op[1] \in {"print", "draw", "close", "end"}
  BY <1>2, OtherStep
<1>4. e.op[1] # "end" /\ e.op[1] # "frame"
  BY <1>3, OpTells DEF QuietSteps
<1>5. Results(u) = Results(t) /\ FramesOf(u) = FramesOf(t)
  BY <1>1, <1>2, <1>3, OtherStep
<1>6. WindowOf(u) = IF e.op[1] = "close" /\ wi = "open" THEN "asked" ELSE wi
  BY <1>1, <1>2, <1>3, <1>4, WindowIs DEF RepeatedAs
<1>7. Printing(u, w) = Printing(t, w)
  BY <1>1, <1>2, <1>3, PrintingNothing
<1>8. Running(u)
  BY <1>1, <1>2, <1>3, <1>4, RunningGoesOn
<1> QED
  BY <1>1, <1>5, <1>6, <1>7, <1>8 DEF RepeatedAs

(* A replay that does what was recorded. *)

LEMMA NextResult ==
    ASSUME NEW s \in Seq(Steps), NEW t \in Seq(Steps), Before(t, s), NEW n, n = Len(t) + 1, n \in 1..Len(s),
           s[n] \in ResultSteps, NEW a, a = Len(Results(t)) + 1
    PROVE  a \in 1..Len(Results(s)) /\ Results(s)[a] = s[n]
<1>1. PICK e, u, rs, rt : e = s[n] /\ u = Append(t, e) /\ rs = Results(s) /\ rt = Results(t)
  OBVIOUS
<1>2. SubSeq(s, 1, n) = u
  <2>1. Len(t) < Len(s)
    OBVIOUS
  <2> QED
    BY <1>1, <2>1, BeforeSub
<1>3. rt \in Seq(ResultSteps) /\ rs \in Seq(ResultSteps) /\ Results(u) = Append(rt, e)
  BY <1>1, ResultsIs, ResultStep
<1>4. Before(Append(rt, e), rs)
  <2>1. n \in 0..Len(s)
    OBVIOUS
  <2> QED
    BY <1>1, <1>2, <1>3, <2>1, ResultsGrow
<1>5. Len(Append(rt, e)) = a /\ Append(rt, e)[a] = e /\ Len(rt) \in Nat /\ Len(rs) \in Nat
  BY <1>1, <1>3, AppendProperties
<1> QED
  BY <1>1, <1>4, <1>5 DEF Before

LEMMA NextText ==
    ASSUME NEW w \in BOOLEAN, NEW s, NEW f, WrittenAs(w, s, f), NEW t, NEW a, NEW nx, NEW p, NEW fr, NEW wi,
           RepeatedAs(w, s, t, a, nx, p, fr, wi), Before(t, s), NEW n, n = Len(t) + 1, n \in 1..Len(s),
           NEW bytes, bytes = Text(s[n], w)
    PROVE  AgreesFrom(f.output, nx, Entries(Split(p, bytes).lines))
<1>1. PICK e, u, ps, pt, q : e = s[n] /\ u = Append(t, e) /\ ps = Printing(s, w) /\ pt = Printing(t, w) /\ q = Split(p, bytes)
  OBVIOUS
<1>2. s \in Seq(Steps) /\ s[Len(s)] \in EndSteps /\ f.output = Whole(ps, EndOf(s))
  BY <1>1 DEF WrittenAs, FileOf
<1>3. EndOf(s) \in Endings
  BY <1>2, OpTells DEF EndOf, Steps
<1>4. t \in Seq(Steps) /\ ps \in Splits /\ pt \in Splits /\ p = pt.rest /\ nx = Len(pt.lines) + 1 /\ Before(pt.lines, ps.lines)
  BY <1>1, <1>2, PrintingIs DEF RepeatedAs, Running
<1>5. e \in Steps
  BY <1>1, <1>2
<1>6. SubSeq(s, 1, n) = u
  <2>1. Len(t) < Len(s)
    BY <1>4
  <2> QED
    BY <1>1, <1>2, <1>4, <2>1, BeforeSub
<1>7. Printing(u, w) = Joined(pt, q)
  BY <1>1, <1>4, <1>5, PrintingIs
<1>8. p \in Seq(Open) /\ pt.lines \in Seq(Seq(Open)) /\ bytes \in Seq(Bytes)
  BY <1>1, <1>4, <1>5, TextTyped DEF Splits
<1>9. q \in Splits /\ q.lines \in Seq(Seq(Open))
  <2>1. q \in Splits
    BY <1>1, <1>8, SplitIs
  <2> QED
    BY <2>1 DEF Splits
<1>10. PICK c, d, x : c = pt.lines /\ d = q.lines /\ x = c \o d
  OBVIOUS
<1>11. Printing(u, w).lines = x
  BY <1>7, <1>10, JoinedIs
<1>12. Before(x, ps.lines)
  <2>1. n \in 0..Len(s)
    OBVIOUS
  <2>2. Before(Printing(SubSeq(s, 1, n), w).lines, Printing(s, w).lines)
    BY <1>2, <2>1, LinesGrow
  <2> QED
    BY <1>1, <1>6, <1>11, <2>2
<1>13. AgreesFrom(Whole(ps, EndOf(s)), Len(c) + 1, Entries(d))
  BY <1>3, <1>4, <1>8, <1>9, <1>10, <1>12, LinesAgree
<1> QED
  BY <1>1, <1>2, <1>4, <1>10, <1>13

\* A replay that ends as the recording does is one of the same run.
LEMMA EndTells ==
    ASSUME NEW w \in BOOLEAN, NEW s, NEW f, WrittenAs(w, s, f), NEW t, NEW a, NEW nx, NEW p, NEW fr, NEW wi,
           RepeatedAs(w, s, t, a, nx, p, fr, wi), NEW ending \in Endings,
           AgreesFrom(f.output, nx, EndingEntries(p, ending) \o <<End>>), a = Len(f.natives) + 1,
           NEW e, e = [op |-> <<"end", ending>>, result |-> "none"]
    PROVE  /\ Results(Append(t, e)) = Results(s) /\ Output(Append(t, e), w) = Output(s, w)
           /\ Ending(Append(t, e)) = Ending(s)
<1>1. PICK u, ps, pt, rs, rt : u = Append(t, e) /\ ps = Printing(s, w) /\ pt = Printing(t, w) /\ rs = Results(s) /\ rt = Results(t)
  OBVIOUS
<1>2. s \in Seq(Steps) /\ Len(s) \in 1..(MaxOps + 1) /\ s[Len(s)] \in EndSteps /\ f.output = Whole(ps, EndOf(s)) /\ f.natives = LogOf(rs)
  BY <1>1 DEF WrittenAs, FileOf
<1>3. EndOf(s) \in Endings /\ s[Len(s)].op = <<"end", EndOf(s)>>
  BY <1>2, OpTells DEF EndOf, Steps
<1>4. t \in Seq(Steps) /\ ps \in Splits /\ pt \in Splits /\ p = pt.rest /\ nx = Len(pt.lines) + 1 /\ Before(pt.lines, ps.lines)
  BY <1>1, <1>2, PrintingIs DEF RepeatedAs, Running
<1>5. e \in EndSteps /\ e \in Steps /\ e.op = <<"end", ending>> /\ e.op[1] = "end"
  BY QuietOps DEF Steps
<1>6. ps = pt /\ EndOf(s) = ending
  BY <1>2, <1>3, <1>4, EndsAgree
<1>7. Output(s, w) = Output(t, w)
  <2>1. Output(s, w) \in Seq(Bytes) /\ Output(t, w) \in Seq(Bytes)
    BY <1>2, <1>4, OutputIs
  <2> QED
    BY <1>1, <1>6, <2>1, SplitTells DEF Printing
<1>8. Output(u, w) = Output(t, w)
  <2>1. Text(e, w) = <<>>
    BY <1>5, TextIs
  <2>2. Output(t, w) \in Seq(Bytes) /\ Output(u, w) = OutputAt(Output(t, w), e, w)
    BY <1>1, <1>4, <1>5, OutputIs
  <2> QED
    BY <2>1, <2>2, ConcatNothing DEF OutputAt
<1>9. Results(u) = rt
  BY <1>1, <1>4, <1>5, OtherStep
<1>10. rt = rs
  <2>1. rs \in Seq(ResultSteps) /\ rt \in Seq(ResultSteps) /\ Before(rt, rs) /\ a = Len(rt) + 1
    BY <1>1, <1>2, <1>4, ResultsIs DEF RepeatedAs
  <2>2. Len(rs) = Len(LogOf(rs))
    BY <2>1, LogIs
  <2>3. Len(rt) = Len(rs)
    BY <1>2, <2>1, <2>2
  <2> QED
    BY <2>1, <2>3, SeqEqual DEF Before
<1>11. Ending(s) = <<"end", ending>>
  <2>1. s # <<>> /\ Last(s) = s[Len(s)]
    BY <1>2 DEF Last
  <2> QED
    BY <1>3, <1>6, <2>1 DEF Ending
<1>12. Ending(u) = <<"end", ending>>
  <2>1. u \in Seq(Steps) /\ u # <<>> /\ u[Len(u)] = e
    BY <1>1, <1>4, <1>5, AppendProperties
  <2> QED
    BY <1>5, <2>1 DEF Ending, Last
<1> QED
  BY <1>1, <1>7, <1>8, <1>9, <1>10, <1>11, <1>12

LinesIn(output) == Cardinality({i \in DOMAIN output : output[i].kind # "failure"})

\* A replay that did what was recorded ends as the recording does.
LEMMA EndFits ==
    ASSUME NEW w \in BOOLEAN, NEW s, NEW f, WrittenAs(w, s, f), NEW t, NEW a, NEW nx, NEW p, NEW fr, NEW wi,
           RepeatedAs(w, s, t, a, nx, p, fr, wi), Before(t, s), NEW n, n = Len(t) + 1, n \in 1..Len(s),
           NEW ending \in Endings, s[n].op = <<"end", ending>>, NEW e, e = [op |-> <<"end", ending>>, result |-> "none"]
    PROVE  /\ Append(t, e) = s
           /\ AgreesFrom(f.output, nx, EndingEntries(p, ending) \o <<End>>) /\ a = Len(f.natives) + 1
           /\ fr = f.frames
           /\ nx - 1 + Left(p) = LinesIn(f.output)
<1>1. PICK ps, pt, rs, rt : ps = Printing(s, w) /\ pt = Printing(t, w) /\ rs = Results(s) /\ rt = Results(t)
  OBVIOUS
<1>2. /\ s \in Seq(Steps) /\ s[Len(s)] \in EndSteps /\ \A i \in 1..(Len(s) - 1) : s[i].op[1] # "end"
      /\ f.output = Whole(ps, EndOf(s)) /\ f.natives = LogOf(rs) /\ f.frames = FramesOf(s)
  BY <1>1 DEF WrittenAs, FileOf
<1>3. EndOf(s) \in Endings
  BY <1>2, OpTells DEF EndOf, Steps
<1>4. t \in Seq(Steps) /\ ps \in Splits /\ pt \in Splits /\ p = pt.rest /\ nx = Len(pt.lines) + 1 /\ Before(pt.lines, ps.lines)
  BY <1>1, <1>2, PrintingIs DEF RepeatedAs, Running
<1>5. e \in EndSteps /\ e \in Steps /\ e.op = <<"end", ending>> /\ e.op[1] = "end" /\ e.op[2] = ending
  BY QuietOps DEF Steps
<1>6. n = Len(s)
  <2> SUFFICES ASSUME n # Len(s)  PROVE FALSE
    OBVIOUS
  <2>1. n \in 1..(Len(s) - 1)
    BY <1>2
  <2>2. s[n].op[1] = "end"
    OBVIOUS
  <2> QED
    BY <1>2, <2>1, <2>2
<1>7. s[n] = e
  <2>1. s[n] \in EndSteps /\ s[n] \in Steps
    BY <1>2, <1>6
  <2>2. s[n] = [op |-> s[n].op, result |-> s[n].result] /\ s[n].result = "none"
    BY <2>1, OpTells
  <2> QED
    BY <2>2
<1>8. Append(t, e) = s
  <2>1. Len(t) < Len(s)
    BY <1>4
  <2>2. SubSeq(s, 1, n) = Append(t, s[n])
    BY <1>2, <1>4, <2>1, BeforeSub
  <2>3. SubSeq(s, 1, n) = s
    BY <1>2, <1>6, WholeIs
  <2> QED
    BY <1>7, <2>2, <2>3
<1>9. EndOf(s) = ending
  BY <1>5, <1>6, <1>7 DEF EndOf
<1>10. ps = pt
  <2>1. Text(e, w) = <<>>
    BY <1>5, TextIs
  <2> QED
    BY <1>1, <1>4, <1>5, <1>8, <2>1, PrintingNothing
<1>11. rs = rt /\ FramesOf(s) = FramesOf(t)
  BY <1>1, <1>4, <1>5, <1>8, OtherStep
<1>12. AgreesFrom(f.output, nx, EndingEntries(p, ending) \o <<End>>)
  BY <1>2, <1>3, <1>4, <1>9, <1>10, EndsAgree
<1>13. a = Len(f.natives) + 1
  <2>1. rs \in Seq(ResultSteps) /\ a = Len(rt) + 1
    BY <1>1, <1>2, ResultsIs DEF RepeatedAs
  <2> QED
    BY <1>2, <1>11, <2>1, LogIs
<1>14. fr = f.frames
  BY <1>2, <1>11 DEF RepeatedAs
<1>15. nx - 1 + Left(p) = LinesIn(f.output)
  <2>1. LinesIn(f.output) = Len(ps.lines) + Left(ps.rest)
    BY <1>2, <1>3, <1>4, WholeReads DEF LinesIn
  <2>2. Len(ps.lines) \in Nat
    BY <1>4 DEF Splits
  <2>3. nx - 1 = Len(ps.lines)
    BY <1>4, <1>10, <2>2
  <2> QED
    BY <1>4, <1>10, <2>1, <2>3
<1> QED
  BY <1>8, <1>12, <1>13, <1>14, <1>15
-----------------------------------------------------------------------------
(* The invariant. *)

ShapeAs(f, p, fr, a, nx, wi) ==
    /\ \A i \in DOMAIN f.natives : f.natives[i].id \in Natives \cup {FrameId}
    /\ \A i \in DOMAIN p : p[i] # NL
    /\ fr \in 0..MaxOps
    /\ a \in 1..(Len(f.natives) + 1) /\ nx \in 1..(Len(f.output) + 1)
    /\ wi \in {"open", "asked", "closed"}

RecordInv ==
    /\ replayed = <<>> /\ at = 1 /\ next = 1 /\ report = NoReport
    /\ RecordedAs(shown, script, file, pending, frames, window)
WrittenInv == WrittenAs(shown, script, file)
BetweenInv ==
    /\ replayed = <<>> /\ report = NoReport
    /\ ShapeAs(file, pending, frames, at, next, window)
ReplayInv ==
    /\ report = NoReport
    /\ RepeatedAs(shown, script, replayed, at, next, pending, frames, window)
    /\ same => Before(replayed, script)
DoneInv ==
    /\ report.verdict \in {"matches", "differs"}
    /\ ShapeAs(file, pending, frames, at, next, window)
    /\ MatchMeansSame /\ SameProgramMatches

Inv ==
    /\ run \in {"record", "written", "replay", "done"} /\ same \in BOOLEAN /\ shown \in BOOLEAN
    /\ run = "record" => RecordInv
    /\ run # "record" => WrittenInv
    /\ run = "written" => BetweenInv
    /\ run = "replay" => ReplayInv
    /\ run = "done" => DoneInv

LEMMA WindowTyped == \A ops : WindowOf(ops) \in {"open", "asked", "closed"}
BY DEF WindowOf

LEMMA LogShape == \A rs \in Seq(ResultSteps) : \A i \in DOMAIN LogOf(rs) : LogOf(rs)[i].id \in Natives \cup {FrameId}
<1> SUFFICES ASSUME NEW rs \in Seq(ResultSteps), NEW i \in DOMAIN LogOf(rs)  PROVE LogOf(rs)[i].id \in Natives \cup {FrameId}
  OBVIOUS
<1>1. LogOf(rs) \in Seq(Logs)
  BY LogIs
<1>2. LogOf(rs)[i] \in Logs
  BY <1>1
<1> QED
  BY <1>2 DEF Logs

LEMMA RestShape == \A p \in Seq(Open) : \A i \in DOMAIN p : p[i] # NL
BY DEF Open

LEMMA RecordedShape ==
    ASSUME NEW w \in BOOLEAN, NEW s, NEW f, NEW p, NEW fr, NEW wi, RecordedAs(w, s, f, p, fr, wi)
    PROVE  ShapeAs(f, p, fr, 1, 1, wi)
<1>1. PICK rs, pr, n : rs = Results(s) /\ pr = Printing(s, w) /\ n = Len(s)
  OBVIOUS
<1>2. s \in Seq(Steps) /\ n \in Nat /\ n <= MaxOps /\ f.natives = LogOf(rs) /\ f.output = Entries(pr.lines) /\ p = pr.rest /\ fr = FramesOf(s) /\ wi = WindowOf(s)
  BY <1>1 DEF RecordedAs, Running, FileOf
<1>3. rs \in Seq(ResultSteps) /\ pr \in Splits
  BY <1>1, <1>2, ResultsIs, PrintingIs
<1>4. pr.lines \in Seq(Seq(Open)) /\ p \in Seq(Open)
  BY <1>2, <1>3 DEF Splits
<1>5. Len(f.natives) \in Nat /\ Len(f.output) \in Nat
  <2>1. f.natives \in Seq(Logs) /\ f.output \in Seq(AnyEntry)
    BY <1>2, <1>3, <1>4, LogIs, EntriesAre
  <2> QED
    BY <2>1
<1>6. 1 \in 1..(Len(f.natives) + 1) /\ 1 \in 1..(Len(f.output) + 1)
  BY <1>5
<1>7. fr \in 0..MaxOps
  <2>1. [op |-> <<"close">>, result |-> "none"] \in Steps
    BY QuietOps DEF Steps
  <2>2. fr \in 0..n
    BY <1>1, <1>2, <2>1, FramesAre
  <2> QED
    BY <1>2, <2>2, OpsAssumption
<1> QED
  BY <1>2, <1>3, <1>4, <1>6, <1>7, LogShape, RestShape, WindowTyped DEF ShapeAs

LEMMA RepeatedShape ==
    ASSUME NEW w \in BOOLEAN, NEW s, NEW f, WrittenAs(w, s, f), NEW t, NEW a, NEW nx, NEW p, NEW fr, NEW wi,
           RepeatedAs(w, s, t, a, nx, p, fr, wi)
    PROVE  ShapeAs(f, p, fr, a, nx, wi)
<1>1. PICK rs, rt, ps, pt : rs = Results(s) /\ rt = Results(t) /\ ps = Printing(s, w) /\ pt = Printing(t, w)
  OBVIOUS
<1>2. /\ s \in Seq(Steps) /\ s[Len(s)] \in EndSteps /\ FramesOf(s) <= MaxOps
      /\ f.natives = LogOf(rs) /\ f.output = Whole(ps, EndOf(s)) /\ f.frames = FramesOf(s)
  BY <1>1 DEF WrittenAs, FileOf
<1>3. EndOf(s) \in Endings
  BY <1>2, OpTells DEF EndOf, Steps
<1>4. /\ t \in Seq(Steps) /\ a = Len(rt) + 1 /\ Before(rt, rs) /\ nx = Len(pt.lines) + 1 /\ Before(pt.lines, ps.lines)
      /\ p = pt.rest /\ fr = FramesOf(t) /\ fr <= FramesOf(s) /\ wi = WindowOf(t)
  BY <1>1 DEF RepeatedAs, Running
<1>5. rs \in Seq(ResultSteps) /\ rt \in Seq(ResultSteps) /\ ps \in Splits /\ pt \in Splits
  BY <1>1, <1>2, <1>4, ResultsIs, PrintingIs
<1>6. a \in 1..(Len(f.natives) + 1)
  <2>1. Len(f.natives) = Len(rs)
    BY <1>2, <1>5, LogIs
  <2>2. Len(rt) \in Nat /\ Len(rs) \in Nat /\ Len(rt) <= Len(rs)
    BY <1>4, <1>5 DEF Before
  <2> QED
    BY <1>4, <2>1, <2>2
<1>7. nx \in 1..(Len(f.output) + 1)
  <2>1. PICK n, k, m : n = Len(ps.lines) /\ k = Left(ps.rest) /\ m = Len(EndOf(s))
    OBVIOUS
  <2>2. WholeAs(f.output, ps, EndOf(s), n, k, m)
    BY <1>2, <1>3, <1>5, <2>1, WholeHas
  <2>3. n \in Nat /\ k \in {0, 1} /\ m \in {0, 1} /\ Len(f.output) = n + k + m
    BY <2>2 DEF WholeAs
  <2>4. Len(pt.lines) \in Nat /\ Len(pt.lines) <= n
    BY <1>4, <1>5, <2>1 DEF Before, Splits
  <2> QED
    BY <1>4, <2>3, <2>4
<1>8. fr \in 0..MaxOps
  <2>1. [op |-> <<"close">>, result |-> "none"] \in Steps
    BY QuietOps DEF Steps
  <2>2. fr \in 0..Len(t) /\ FramesOf(s) \in 0..Len(s)
    BY <1>2, <1>4, <2>1, FramesAre
  <2> QED
    BY <1>2, <1>4, <2>2, OpsAssumption
<1>9. p \in Seq(Open)
  BY <1>4, <1>5 DEF Splits
<1> QED
  BY <1>2, <1>4, <1>5, <1>6, <1>7, <1>8, <1>9, LogShape, RestShape, WindowTyped DEF ShapeAs

LEMMA InvStarts == Init => Inv
<1> SUFFICES ASSUME Init  PROVE Inv
  OBVIOUS
<1>1. PICK w \in BOOLEAN : w = shown
  BY DEF Init
<1>2. PICK c : c = [op |-> <<"close">>, result |-> "none"]
  OBVIOUS
<1>3. c \in Steps /\ <<>> \in Seq(Steps) /\ <<>> \in Seq(ResultSteps) /\ <<>> \in Seq(Seq(Open))
  <2>1. c \in Steps
    BY <1>2, QuietOps DEF Steps
  <2> QED
    BY <2>1
<1>4. Results(<<>>) = <<>> /\ Printing(<<>>, w) = [lines |-> <<>>, rest |-> <<>>] /\ LogOf(<<>>) = <<>>
  BY <1>3, ResultsIs, PrintingIs, LogIs
<1>5. FramesOf(<<>>) = 0 /\ WindowOf(<<>>) = "open"
  BY <1>3, FramesAre, WindowIs
<1>6. Running(<<>>) /\ WellStarted(<<>>) /\ Len(<<>>) <= MaxOps
  BY <1>3, OpsAssumption DEF Running, WellStarted
<1>7. Entries(<<>>) = <<>>
  <2>1. PICK g : g = Entries(<<>>)
    OBVIOUS
  <2>2. g \in Seq(AnyEntry) /\ Len(g) = 0
    BY <1>3, <2>1, EntriesAre
  <2> QED
    BY <2>1, <2>2
<1>8. file = FileOf(<<>>, <<>>, 0)
  BY DEF Init, FileOf
<1>9. RecordedAs(w, script, file, pending, frames, window)
  BY <1>4, <1>5, <1>6, <1>7, <1>8 DEF Init, RecordedAs
<1> QED
  BY <1>1, <1>9 DEF Init, Inv, RecordInv

(* What the invariant needs of a step. *)

LEMMA AgreesAre == \A got : Agrees(got) <=> AgreesFrom(file.output, next, got)
BY DEF Agrees, EntryAt, AgreesFrom

LEMMA DoesNext ==
    ASSUME Inv, NEW op, Does(op), run # "record"
    PROVE  /\ run = "replay" /\ ReplayInv /\ WrittenInv
           /\ script \in Seq(Steps) /\ replayed \in Seq(Steps)
           /\ same => Before(replayed, script) /\ Len(replayed) + 1 \in 1..Len(script) /\ script[Len(replayed) + 1].op = op
<1>1. run = "replay" /\ ReplayInv /\ WrittenInv
  BY DEF Does, Recording, Replaying, Inv
<1>2. script \in Seq(Steps) /\ replayed \in Seq(Steps)
  BY <1>1 DEF ReplayInv, WrittenInv, WrittenAs, RepeatedAs, Running
<1>3. ASSUME same
      PROVE  Before(replayed, script) /\ Len(replayed) + 1 \in 1..Len(script) /\ script[Len(replayed) + 1].op = op
  <2>1. Before(replayed, script)
    BY <1>1, <1>3 DEF ReplayInv
  <2>2. replayed = SubSeq(script, 1, Len(replayed))
    BY <1>2, <2>1, BeforeSub
  <2>3. Len(replayed) < Len(script) /\ script[Len(replayed) + 1].op = op
    BY <1>1, <1>3, <2>2 DEF Does, Recording, Replaying, Done
  <2>4. Len(replayed) \in Nat /\ Len(script) \in Nat
    BY <1>2
  <2> QED
    BY <2>1, <2>3, <2>4
<1> QED
  BY <1>1, <1>2, <1>3

LEMMA RecordsOn ==
    ASSUME Inv, run = "record", UNCHANGED <<run, same, shown, replayed, at, next, report>>,
           RecordedAs(shown, script', file', pending', frames', window')
    PROVE  Inv'
BY DEF Inv, RecordInv

LEMMA RepeatsOn ==
    ASSUME Inv, run = "replay", UNCHANGED <<run, same, shown, script, file, report>>,
           RepeatedAs(shown, script, replayed', at', next', pending', frames', window'),
           same => Before(replayed', script)
    PROVE  Inv'
BY DEF Inv, ReplayInv, WrittenInv

LEMMA Stops ==
    ASSUME Inv, run = "replay", ~same, Stop
    PROVE  Inv'
<1>1. WrittenInv /\ ReplayInv
  BY DEF Inv
<1>2. ShapeAs(file, pending, frames, at, next, window)
  <2>1. PICK w \in BOOLEAN : w = shown
    BY DEF Inv
  <2>2. WrittenAs(w, script, file) /\ RepeatedAs(w, script, replayed, at, next, pending, frames, window)
    BY <1>1, <2>1 DEF WrittenInv, ReplayInv
  <2> QED
    BY <2>2, RepeatedShape
<1>3. /\ run' = "done" /\ report' = Differs /\ same' = same /\ shown' = shown /\ script' = script /\ replayed' = replayed
      /\ file' = file /\ pending' = pending /\ frames' = frames /\ at' = at /\ next' = next /\ window' = window
  BY DEF Stop, history
<1>4. report'.verdict = "differs"
  BY <1>3 DEF Differs
<1>5. MatchMeansSame'
  BY <1>4 DEF MatchMeansSame
<1>6. SameProgramMatches'
  BY <1>3 DEF SameProgramMatches
<1>7. DoneInv'
  BY <1>2, <1>3, <1>4, <1>5, <1>6 DEF DoneInv
<1>8. WrittenInv'
  BY <1>1, <1>3 DEF WrittenInv
<1> QED
  BY <1>3, <1>7, <1>8 DEF Inv

\* A result that the log has next is the next of the recorded run.
LEMMA LoggedNext ==
    ASSUME Inv, run = "replay", at \in DOMAIN file.natives
    PROVE  /\ Results(script) \in Seq(ResultSteps) /\ at \in 1..Len(Results(script))
           /\ Results(script)[at] \in ResultSteps
           /\ file.natives[at] = LogEntry(Results(script)[at])
<1>1. PICK rs : rs = Results(script)
  OBVIOUS
<1>2. script \in Seq(Steps) /\ file.natives = LogOf(rs)
  BY <1>1 DEF Inv, WrittenInv, WrittenAs, FileOf
<1>3. rs \in Seq(ResultSteps)
  BY <1>1, <1>2, ResultsIs
<1>4. LogOf(rs) \in Seq(Logs) /\ Len(LogOf(rs)) = Len(rs)
  BY <1>3, LogIs
<1>5. at \in 1..Len(rs)
  BY <1>2, <1>4
<1>6. rs[at] \in ResultSteps /\ LogOf(rs)[at] = LogEntry(rs[at])
  BY <1>3, <1>5, LogIs
<1> QED
  BY <1>1, <1>2, <1>3, <1>5, <1>6

\* The same program's next result is there.
LEMMA SameResult ==
    ASSUME Inv, run = "replay", same, NEW e, Len(replayed) + 1 \in 1..Len(script), e = script[Len(replayed) + 1], e \in ResultSteps
    PROVE  at \in DOMAIN file.natives /\ Results(script)[at] = e /\ file.natives[at] = LogEntry(e)
<1>1. PICK rs, n, t : rs = Results(script) /\ n = Len(replayed) + 1 /\ t = replayed
  OBVIOUS
<1>2. ReplayInv /\ WrittenInv
  BY DEF Inv
<1>3. script \in Seq(Steps) /\ file.natives = LogOf(rs)
  BY <1>1, <1>2 DEF WrittenInv, WrittenAs, FileOf
<1>4. t \in Seq(Steps) /\ Before(t, script) /\ at = Len(Results(t)) + 1
  BY <1>1, <1>2 DEF ReplayInv, RepeatedAs, Running
<1>5. at \in 1..Len(rs) /\ rs[at] = e
  BY <1>1, <1>3, <1>4, NextResult
<1>6. rs \in Seq(ResultSteps)
  BY <1>1, <1>3, ResultsIs
<1>7. LogOf(rs) \in Seq(Logs) /\ Len(LogOf(rs)) = Len(rs) /\ LogOf(rs)[at] = LogEntry(rs[at])
  BY <1>5, <1>6, LogIs
<1>8. at \in DOMAIN LogOf(rs)
  BY <1>5, <1>7
<1> QED
  BY <1>1, <1>3, <1>5, <1>7, <1>8

(* Every action keeps the invariant. *)

LEMMA NativeKeeps ==
    ASSUME Inv, NEW id \in Natives, Native(id)
    PROVE  Inv'
<1>1. PICK op : op = <<"native", id>>
  OBVIOUS
<1>2. Does(op)
  BY <1>1 DEF Native
<1>3. PICK w \in BOOLEAN : w = shown
  BY DEF Inv
<1>4. PICK v \in Values :
        IF Recording THEN
            /\ file' = Logged(id, v)
            /\ Noted(<<"native", id>>, v)
            /\ UNCHANGED <<run, same, shown, pending, frames, at, next, window, report>>
        ELSE IF NextIs(id) THEN
            /\ at' = at + 1
            /\ Noted(<<"native", id>>, file.natives[at].result)
            /\ UNCHANGED <<run, same, shown, file, pending, frames, next, window, report>>
        ELSE Stop
  BY DEF Native
<1>5. CASE run = "record"
  <2>1. RecordedAs(w, script, file, pending, frames, window) /\ Len(script) < MaxOps
    BY <1>2, <1>3, <1>5 DEF Inv, RecordInv, Does, Recording
  <2>2. /\ file' = [file EXCEPT !.natives = Append(@, [id |-> id, result |-> v])]
        /\ script' = Append(script, [op |-> <<"native", id>>, result |-> v]) /\ replayed' = replayed
        /\ UNCHANGED <<run, same, shown, pending, frames, at, next, window, report>>
    BY <1>4, <1>5 DEF Recording, Replaying, Logged, Noted
  <2>3. RecordedAs(w, script', file', pending, frames, window)
    BY <2>1, <2>2, NativeRecorded
  <2>4. RecordedAs(shown, script', file', pending', frames', window')
    BY <1>3, <2>2, <2>3
  <2> QED
    BY <1>5, <2>2, <2>4, RecordsOn
<1>6. CASE run # "record" /\ NextIs(id)
  <2>1. /\ run = "replay" /\ ReplayInv /\ WrittenInv /\ script \in Seq(Steps) /\ replayed \in Seq(Steps)
        /\ same => Before(replayed, script) /\ Len(replayed) + 1 \in 1..Len(script) /\ script[Len(replayed) + 1].op = op
    BY <1>2, <1>6, DoesNext
  <2>2. PICK e : e = Results(script)[at]
    OBVIOUS
  <2>3. at \in DOMAIN file.natives /\ file.natives[at].id = id
    BY <1>6 DEF NextIs
  <2>4. at \in 1..Len(Results(script)) /\ e \in ResultSteps /\ file.natives[at] = LogEntry(e)
    BY <2>1, <2>2, <2>3, LoggedNext
  <2>5. e = [op |-> op, result |-> file.natives[at].result] /\ e \in NativeSteps
    BY <1>1, <2>3, <2>4, LogTells
  <2>6. /\ at' = at + 1 /\ replayed' = Append(replayed, e) /\ script' = script
        /\ UNCHANGED <<run, same, shown, file, pending, frames, next, window, report>>
    BY <1>1, <1>4, <1>6, <2>1, <2>5 DEF Recording, Replaying, Noted
  <2>7. e.op[1] = "native"
    BY <2>5, ResultsAre
  <2>8. RepeatedAs(w, script, replayed, at, next, pending, frames, window)
    BY <1>3, <2>1 DEF ReplayInv
  <2>9. RepeatedAs(w, script, Append(replayed, e), at + 1, next, pending, frames, window)
    BY <2>1, <2>2, <2>4, <2>7, <2>8, ResultRepeated
  <2>10. ASSUME same  PROVE Before(Append(replayed, e), script)
    <3>1. PICK n : n = Len(replayed) + 1
      OBVIOUS
    <3>2. n \in 1..Len(script) /\ script[n] \in Steps /\ script[n].op = op
      BY <2>1, <2>10, <3>1
    <3>3. script[n] \in ResultSteps
      BY <1>1, <3>2, OpTells DEF ResultSteps
    <3>4. e = script[n]
      BY <2>1, <2>2, <2>10, <3>1, <3>2, <3>3, SameResult
    <3> QED
      BY <2>1, <2>10, <3>1, <3>2, <3>4, BeforeNext
  <2>11. RepeatedAs(shown, script, replayed', at', next', pending', frames', window')
    BY <1>3, <2>6, <2>9
  <2> QED
    BY <2>1, <2>6, <2>10, <2>11, RepeatsOn
<1>7. CASE run # "record" /\ ~NextIs(id)
  <2>1. /\ run = "replay" /\ ReplayInv /\ WrittenInv /\ script \in Seq(Steps) /\ replayed \in Seq(Steps)
        /\ same => Before(replayed, script) /\ Len(replayed) + 1 \in 1..Len(script) /\ script[Len(replayed) + 1].op = op
    BY <1>2, <1>7, DoesNext
  <2>2. Stop
    BY <1>4, <1>7 DEF Recording
  <2>3. ASSUME same  PROVE FALSE
    <3>1. PICK n, e : n = Len(replayed) + 1 /\ e = script[n]
      OBVIOUS
    <3>2. n \in 1..Len(script) /\ e \in Steps /\ e.op = op
      BY <2>1, <2>3, <3>1
    <3>3. e.op[1] = "native" /\ e.op[2] = id
      BY <1>1, <3>2
    <3>4. e \in ResultSteps
      BY <3>2, <3>3, OpTells DEF ResultSteps
    <3>5. at \in DOMAIN file.natives /\ file.natives[at] = LogEntry(e)
      BY <2>1, <2>3, <3>1, <3>2, <3>4, SameResult
    <3>6. LogEntry(e).id = id
      BY <3>3 DEF LogEntry, IdOf
    <3> QED
      BY <1>7, <3>5, <3>6 DEF NextIs
  <2> QED
    BY <2>1, <2>2, <2>3, Stops
<1> QED
  BY <1>5, <1>6, <1>7

LEMMA FrameKeeps ==
    ASSUME Inv, Frame
    PROVE  Inv'
<1>1. PICK op : op = <<"frame">>
  OBVIOUS
<1>2. Does(op)
  BY <1>1 DEF Frame
<1>3. PICK w \in BOOLEAN : w = shown
  BY DEF Inv
<1>4. PICK now \in BOOLEAN : \E started \in Starts(now) :
         IF Replaying /\ ~(NextIs(FrameId) /\ file.natives[at].result = started) THEN Stop
         ELSE /\ window' = IF started THEN window ELSE "closed"
              /\ frames' = IF started THEN frames + 1 ELSE frames
              /\ file' = IF Recording THEN Logged(FrameId, started) ELSE file
              /\ at' = IF Replaying THEN at + 1 ELSE at
              /\ Noted(<<"frame">>, started)
              /\ UNCHANGED <<run, same, shown, pending, next, report>>
  BY DEF Frame
<1>5. PICK started \in Starts(now) :
         IF Replaying /\ ~(NextIs(FrameId) /\ file.natives[at].result = started) THEN Stop
         ELSE /\ window' = IF started THEN window ELSE "closed"
              /\ frames' = IF started THEN frames + 1 ELSE frames
              /\ file' = IF Recording THEN Logged(FrameId, started) ELSE file
              /\ at' = IF Replaying THEN at + 1 ELSE at
              /\ Noted(<<"frame">>, started)
              /\ UNCHANGED <<run, same, shown, pending, next, report>>
  BY <1>4
<1>6. started \in BOOLEAN /\ (started => window = "open")
  <2>1. started \in Starts(now)
    OBVIOUS
  <2>2. CASE window # "open"
    BY <2>1, <2>2 DEF Starts
  <2>3. CASE window = "open" /\ Recording
    BY <2>1, <2>3 DEF Starts
  <2>4. CASE window = "open" /\ ~Recording
    <3>1. started = (frames < file.frames)
      BY <2>1, <2>4, Zenon DEF Starts
    <3>2. (frames < file.frames) \in BOOLEAN
      OBVIOUS
    <3> QED
      BY <2>4, <3>1, <3>2
  <2> QED
    BY <2>2, <2>3, <2>4
<1>7. ASSUME run = "replay"  PROVE started <=> (window = "open" /\ frames < file.frames)
  BY <1>5, <1>7 DEF Starts, Recording
<1>8. CASE run = "record"
  <2>1. RecordedAs(w, script, file, pending, frames, window) /\ Len(script) < MaxOps
    BY <1>2, <1>3, <1>8 DEF Inv, RecordInv, Does, Recording
  <2>2. /\ file' = [file EXCEPT !.natives = Append(@, [id |-> FrameId, result |-> started])]
        /\ script' = Append(script, [op |-> <<"frame">>, result |-> started]) /\ replayed' = replayed
        /\ window' = (IF started THEN window ELSE "closed") /\ frames' = (IF started THEN frames + 1 ELSE frames) /\ at' = at
        /\ UNCHANGED <<run, same, shown, pending, next, report>>
    BY <1>5, <1>8 DEF Recording, Replaying, Logged, Noted
  <2>3. RecordedAs(w, script', file', pending, frames', window')
    BY <1>6, <2>1, <2>2, FrameRecorded
  <2>4. RecordedAs(shown, script', file', pending', frames', window')
    BY <1>3, <2>2, <2>3
  <2> QED
    BY <1>8, <2>2, <2>4, RecordsOn
<1>9. CASE run # "record" /\ NextIs(FrameId) /\ file.natives[at].result = started
  <2>1. /\ run = "replay" /\ ReplayInv /\ WrittenInv /\ script \in Seq(Steps) /\ replayed \in Seq(Steps)
        /\ same => Before(replayed, script) /\ Len(replayed) + 1 \in 1..Len(script) /\ script[Len(replayed) + 1].op = op
    BY <1>2, <1>9, DoesNext
  <2>2. PICK e : e = Results(script)[at]
    OBVIOUS
  <2>3. at \in DOMAIN file.natives /\ file.natives[at].id = FrameId
    BY <1>9 DEF NextIs
  <2>4. at \in 1..Len(Results(script)) /\ e \in ResultSteps /\ file.natives[at] = LogEntry(e)
    BY <2>1, <2>2, <2>3, LoggedNext
  <2>5. e = [op |-> op, result |-> file.natives[at].result] /\ e \in FrameSteps /\ e.result = file.natives[at].result
    BY <1>1, <2>3, <2>4, LogTells
  <2>6. e = [op |-> op, result |-> started] /\ e.result = started
    BY <1>9, <2>5, Zenon
  <2>7. /\ at' = at + 1 /\ replayed' = Append(replayed, [op |-> op, result |-> started]) /\ script' = script /\ file' = file
        /\ window' = (IF started THEN window ELSE "closed") /\ frames' = (IF started THEN frames + 1 ELSE frames)
        /\ UNCHANGED <<run, same, shown, pending, next, report>>
    BY <1>1, <1>5, <1>9, <2>1 DEF Recording, Replaying, Noted
  <2>8. replayed' = Append(replayed, e)
    BY <2>6, <2>7, Zenon
  <2>9. e.op[1] = "frame"
    BY <2>5, ResultsAre
  <2>10. RepeatedAs(w, script, replayed, at, next, pending, frames, window)
    BY <1>3, <2>1 DEF ReplayInv
  <2>11. e.result = TRUE => frames < FramesOf(script)
    <3>1. file.frames = FramesOf(script)
      BY <2>1 DEF WrittenInv, WrittenAs, FileOf
    <3>2. ASSUME e.result = TRUE  PROVE started
      BY <2>6, <3>2, Zenon
    <3> QED
      BY <1>7, <2>1, <3>1, <3>2
  <2>12. RepeatedAs(w, script, Append(replayed, e), at + 1, next, pending,
                    IF e.op[1] = "frame" /\ e.result = TRUE THEN frames + 1 ELSE frames,
                    IF e.op[1] = "frame" /\ e.result = FALSE THEN "closed" ELSE window)
    BY <2>1, <2>2, <2>4, <2>10, <2>11, ResultRepeated
  <2>13. /\ (IF e.op[1] = "frame" /\ e.result = TRUE THEN frames + 1 ELSE frames) = frames'
         /\ (IF e.op[1] = "frame" /\ e.result = FALSE THEN "closed" ELSE window) = window'
    <3>1. CASE started = TRUE
      <4>1. e.result = TRUE
        BY <2>6, <3>1
      <4> QED
        BY <2>7, <2>9, <3>1, <4>1
    <3>2. CASE started = FALSE
      <4>1. e.result = FALSE
        BY <2>6, <3>2
      <4> QED
        BY <2>7, <2>9, <3>2, <4>1
    <3> QED
      BY <1>6, <3>1, <3>2
  <2>14. ASSUME same  PROVE Before(Append(replayed, e), script)
    <3>1. PICK n : n = Len(replayed) + 1
      OBVIOUS
    <3>2. n \in 1..Len(script) /\ script[n] \in Steps /\ script[n].op = op
      BY <2>1, <2>14, <3>1
    <3>3. script[n] \in ResultSteps
      BY <1>1, <3>2, OpTells DEF ResultSteps
    <3>4. e = script[n]
      BY <2>1, <2>2, <2>14, <3>1, <3>2, <3>3, SameResult
    <3> QED
      BY <2>1, <2>14, <3>1, <3>2, <3>4, BeforeNext
  <2>15. RepeatedAs(shown, script, replayed', at', next', pending', frames', window')
    BY <1>3, <2>7, <2>8, <2>12, <2>13
  <2> QED
    BY <2>1, <2>7, <2>8, <2>14, <2>15, RepeatsOn
<1>10. CASE run # "record" /\ ~(NextIs(FrameId) /\ file.natives[at].result = started)
  <2>1. /\ run = "replay" /\ ReplayInv /\ WrittenInv /\ script \in Seq(Steps) /\ replayed \in Seq(Steps)
        /\ same => Before(replayed, script) /\ Len(replayed) + 1 \in 1..Len(script) /\ script[Len(replayed) + 1].op = op
    BY <1>2, <1>10, DoesNext
  <2>2. Stop
    BY <1>5, <1>10, <2>1 DEF Replaying
  <2>3. ASSUME same  PROVE FALSE
    <3>1. PICK n, e, k : n = Len(replayed) + 1 /\ e = script[n] /\ k = Len(replayed)
      OBVIOUS
    <3>2. n \in 1..Len(script) /\ e \in Steps /\ e.op = op /\ k \in 0..(Len(script) - 1) /\ n = k + 1
      BY <2>1, <2>3, <3>1
    <3>3. e.op[1] = "frame"
      BY <1>1, <3>2
    <3>4. e \in ResultSteps /\ e \in FrameSteps /\ e.result \in BOOLEAN
      BY <3>2, <3>3, OpTells, ResultsAre DEF ResultSteps
    <3>5. at \in DOMAIN file.natives /\ file.natives[at] = LogEntry(e)
      BY <2>1, <2>3, <3>1, <3>2, <3>4, SameResult
    <3>6. LogEntry(e).id = FrameId
      BY <3>3 DEF LogEntry, IdOf
    <3>7. LogEntry(e).result = e.result
      BY <3>4, LogTells
    <3>8. WellStarted(script) /\ file.frames = FramesOf(script)
      BY <2>1 DEF WrittenInv, WrittenAs, FileOf
    <3>9. SubSeq(script, 1, k) = replayed
      BY <2>1, <2>3, <3>1, BeforeSub
    <3>10. frames = FramesOf(replayed) /\ window = WindowOf(replayed)
      BY <2>1 DEF ReplayInv, RepeatedAs
    <3>11. e.result = TRUE <=> (WindowOf(SubSeq(script, 1, k)) = "open" /\ FramesOf(SubSeq(script, 1, k)) < FramesOf(script))
      BY <2>1, <3>1, <3>2, <3>3, <3>4, <3>8, FramesTell
    <3>12. e.result = TRUE <=> started
      BY <1>7, <2>1, <3>8, <3>9, <3>10, <3>11
    <3>13. e.result = started
      BY <1>6, <3>4, <3>12
    <3>14. file.natives[at].result = started
      BY <3>5, <3>7, <3>13
    <3> QED
      BY <1>10, <3>5, <3>6, <3>14 DEF NextIs
  <2> QED
    BY <2>1, <2>2, <2>3, Stops
<1> QED
  BY <1>8, <1>9, <1>10

\* A step that prints.
LEMMA TextKeeps ==
    ASSUME Inv, NEW e \in QuietSteps, e.op[1] # "close", NEW bytes, bytes = Text(e, shown), Does(e.op),
           IF Differing(bytes) THEN Stop
           ELSE /\ Printed(bytes)
                /\ Noted(e.op, "none")
                /\ UNCHANGED <<run, same, shown, frames, at, window, report>>
    PROVE  Inv'
<1>1. PICK w, s : w = shown /\ s = Split(pending, bytes) /\ w \in BOOLEAN
  BY DEF Inv
<1>2. e \in Steps /\ e = [op |-> e.op, result |-> "none"]
  <2>1. e \in Steps
    BY DEF Steps
  <2> QED
    BY <2>1 DEF QuietSteps
<1>3. CASE run = "record"
  <2>1. RecordedAs(w, script, file, pending, frames, window) /\ Len(script) < MaxOps
    BY <1>1, <1>3 DEF Inv, RecordInv, Does, Recording
  <2>2. ~Differing(bytes)
    BY <1>3 DEF Differing, Replaying
  <2>3. /\ pending' = s.rest /\ file' = [file EXCEPT !.output = @ \o Entries(s.lines)] /\ next' = next
        /\ script' = Append(script, e) /\ replayed' = replayed
        /\ UNCHANGED <<run, same, shown, frames, at, window, report>>
    BY <1>1, <1>2, <1>3, <2>2 DEF Printed, Noted, Recording, Replaying
  <2>4. RecordedAs(w, script', file', pending', frames, window)
    BY <1>1, <2>1, <2>3, TextRecorded
  <2>5. RecordedAs(shown, script', file', pending', frames', window')
    BY <1>1, <2>3, <2>4
  <2> QED
    BY <1>3, <2>3, <2>5, RecordsOn
<1>4. CASE run # "record"
  <2>1. /\ run = "replay" /\ ReplayInv /\ WrittenInv /\ script \in Seq(Steps) /\ replayed \in Seq(Steps)
        /\ same => Before(replayed, script) /\ Len(replayed) + 1 \in 1..Len(script) /\ script[Len(replayed) + 1].op = e.op
    BY <1>4, DoesNext
  <2>2. PICK n : n = Len(replayed) + 1
    OBVIOUS
  <2>3. RepeatedAs(w, script, replayed, at, next, pending, frames, window) /\ WrittenAs(w, script, file)
    BY <1>1, <2>1 DEF ReplayInv, WrittenInv
  <2>4. ASSUME same  PROVE n \in 1..Len(script) /\ script[n] = e /\ Before(replayed, script)
    <3>1. n \in 1..Len(script) /\ script[n].op = e.op /\ script[n] \in Steps
      BY <2>1, <2>2, <2>4
    <3>2. e.op[1] \in {"print", "draw", "close"}
      <4>1. e.op = <<"draw">> \/ e.op = <<"close">> \/ \E chunk \in Chunks : e.op = <<"print", chunk>>
        BY DEF QuietSteps
      <4> QED
        BY <4>1
    <3>3. script[n] = [op |-> script[n].op, result |-> script[n].result] /\ script[n].result = "none"
      BY <3>1, <3>2, OpTells
    <3> QED
      BY <1>2, <2>1, <2>4, <3>1, <3>3
  <2>5. CASE Differing(bytes)
    <3>1. ASSUME same  PROVE FALSE
      <4>1. AgreesFrom(file.output, next, Entries(s.lines))
        BY <1>1, <2>2, <2>3, <2>4, <3>1, NextText
      <4> QED
        BY <1>1, <2>5, <4>1, AgreesAre DEF Differing
    <3> QED
      BY <2>1, <2>5, <3>1, Stops
  <2>6. CASE ~Differing(bytes)
    <3>1. AgreesFrom(file.output, next, Entries(s.lines))
      BY <1>1, <2>1, <2>6, AgreesAre DEF Differing, Replaying
    <3>2. /\ pending' = s.rest /\ file' = file /\ next' = next + Len(s.lines)
          /\ script' = script /\ replayed' = Append(replayed, e)
          /\ UNCHANGED <<run, same, shown, frames, at, window, report>>
      BY <1>1, <1>2, <2>1, <2>6 DEF Printed, Noted, Recording, Replaying
    <3>3. RepeatedAs(w, script, Append(replayed, e), at, next + Len(s.lines), s.rest, frames, window)
      BY <1>1, <2>3, <3>1, TextRepeated
    <3>4. same => Before(Append(replayed, e), script)
      BY <2>1, <2>2, <2>4, BeforeNext
    <3>5. RepeatedAs(shown, script, replayed', at', next', pending', frames', window')
      BY <1>1, <3>2, <3>3
    <3> QED
      BY <2>1, <3>2, <3>4, <3>5, RepeatsOn
  <2> QED
    BY <2>5, <2>6
<1> QED
  BY <1>3, <1>4

\* A step that leaves the output as it is.
LEMMA SilentKeeps ==
    ASSUME Inv, NEW e \in QuietSteps, Text(e, shown) = <<>>, Does(e.op), Noted(e.op, "none"),
           window' = IF e.op[1] = "close" /\ window = "open" THEN "asked" ELSE window,
           UNCHANGED <<run, same, shown, file, pending, frames, at, next, report>>
    PROVE  Inv'
<1>1. PICK w \in BOOLEAN : w = shown
  BY DEF Inv
<1>2. e \in Steps /\ e = [op |-> e.op, result |-> "none"]
  <2>1. e \in Steps
    BY DEF Steps
  <2> QED
    BY <2>1 DEF QuietSteps
<1>3. CASE run = "record"
  <2>1. RecordedAs(w, script, file, pending, frames, window) /\ Len(script) < MaxOps
    BY <1>1, <1>3 DEF Inv, RecordInv, Does, Recording
  <2>2. script' = Append(script, e) /\ replayed' = replayed
    BY <1>2, <1>3 DEF Noted, Recording, Replaying
  <2>3. RecordedAs(w, script', file, pending, frames, window')
    BY <1>1, <2>1, <2>2, SilentRecorded
  <2>4. RecordedAs(shown, script', file', pending', frames', window')
    BY <1>1, <2>3
  <2> QED
    BY <1>3, <2>2, <2>4, RecordsOn
<1>4. CASE run # "record"
  <2>1. /\ run = "replay" /\ ReplayInv /\ WrittenInv /\ script \in Seq(Steps) /\ replayed \in Seq(Steps)
        /\ same => Before(replayed, script) /\ Len(replayed) + 1 \in 1..Len(script) /\ script[Len(replayed) + 1].op = e.op
    BY <1>4, DoesNext
  <2>2. PICK n : n = Len(replayed) + 1
    OBVIOUS
  <2>3. RepeatedAs(w, script, replayed, at, next, pending, frames, window)
    BY <1>1, <2>1 DEF ReplayInv
  <2>4. ASSUME same  PROVE Before(Append(replayed, e), script)
    <3>1. n \in 1..Len(script) /\ script[n].op = e.op /\ script[n] \in Steps
      BY <2>1, <2>2, <2>4
    <3>2. e.op[1] \in {"print", "draw", "close"}
      <4>1. e.op = <<"draw">> \/ e.op = <<"close">> \/ \E chunk \in Chunks : e.op = <<"print", chunk>>
        BY DEF QuietSteps
      <4> QED
        BY <4>1
    <3>3. script[n] = [op |-> script[n].op, result |-> script[n].result] /\ script[n].result = "none"
      BY <3>1, <3>2, OpTells
    <3>4. script[n] = e
      BY <1>2, <3>1, <3>3
    <3> QED
      BY <2>1, <2>2, <2>4, <3>1, <3>4, BeforeNext
  <2>5. script' = script /\ replayed' = Append(replayed, e)
    BY <1>2, <2>1 DEF Noted, Recording, Replaying
  <2>6. RepeatedAs(w, script, Append(replayed, e), at, next, pending, frames, window')
    BY <1>1, <2>3, SilentRepeated
  <2>7. RepeatedAs(shown, script, replayed', at', next', pending', frames', window')
    BY <1>1, <2>5, <2>6
  <2> QED
    BY <2>1, <2>4, <2>5, <2>7, RepeatsOn
<1> QED
  BY <1>3, <1>4

LEMMA PrintKeeps ==
    ASSUME Inv, NEW chunk \in Chunks, PrintCall(chunk)
    PROVE  Inv'
<1>1. PICK e : e = [op |-> <<"print", chunk>>, result |-> "none"]
  OBVIOUS
<1>2. e \in QuietSteps /\ e.op = <<"print", chunk>> /\ e.op[1] = "print" /\ e.op[2] = chunk
  BY <1>1, QuietOps
<1>3. chunk = Text(e, shown)
  BY <1>2, TextIs
<1> QED
  BY <1>2, <1>3, TextKeeps DEF PrintCall

LEMMA DrawKeeps ==
    ASSUME Inv, Draw
    PROVE  Inv'
<1>1. PICK e : e = [op |-> <<"draw">>, result |-> "none"]
  OBVIOUS
<1>2. e \in QuietSteps /\ e.op = <<"draw">> /\ e.op[1] = "draw"
  BY <1>1, QuietOps
<1>3. CASE shown
  <2>1. DrawLine = Text(e, shown)
    BY <1>2, <1>3, TextIs
  <2> QED
    BY <1>2, <1>3, <2>1, TextKeeps DEF Draw
<1>4. CASE ~shown
  <2>1. Text(e, shown) = <<>>
    BY <1>2, <1>4, TextIs
  <2> QED
    BY <1>2, <1>4, <2>1, SilentKeeps DEF Draw
<1> QED
  BY <1>3, <1>4

LEMMA CloseKeeps ==
    ASSUME Inv, CloseWindow
    PROVE  Inv'
<1>1. PICK e : e = [op |-> <<"close">>, result |-> "none"]
  OBVIOUS
<1>2. e \in QuietSteps /\ e.op = <<"close">> /\ e.op[1] = "close"
  BY <1>1, QuietOps
<1>3. Text(e, shown) = <<>>
  BY <1>2, TextIs
<1> QED
  BY <1>2, <1>3, SilentKeeps DEF CloseWindow

\* A replay that has done nothing yet.
LEMMA RepeatedNothing ==
    ASSUME NEW w \in BOOLEAN, NEW s, NEW f, WrittenAs(w, s, f)
    PROVE  RepeatedAs(w, s, <<>>, 1, 1, <<>>, 0, "open") /\ Before(<<>>, s)
<1>1. PICK rs, pr : rs = Results(s) /\ pr = Printing(s, w)
  OBVIOUS
<1>2. s \in Seq(Steps) /\ <<>> \in Seq(Steps)
  BY DEF WrittenAs
<1>3. [op |-> <<"close">>, result |-> "none"] \in Steps
  BY QuietOps DEF Steps
<1>4. rs \in Seq(ResultSteps) /\ Results(<<>>) = <<>> /\ pr \in Splits /\ Printing(<<>>, w) = [lines |-> <<>>, rest |-> <<>>]
  BY <1>1, <1>2, ResultsIs, PrintingIs
<1>5. FramesOf(<<>>) = 0 /\ WindowOf(<<>>) = "open" /\ FramesOf(s) \in Nat
  <2>1. PICK c, n : c = [op |-> <<"close">>, result |-> "none"] /\ n = Len(s)
    OBVIOUS
  <2>2. c \in Steps /\ n \in Nat
    BY <1>2, <1>3, <2>1
  <2>3. FramesOf(<<>>) = 0 /\ FramesOf(s) \in 0..n
    BY <1>2, <2>1, <2>2, FramesAre
  <2>4. WindowOf(<<>>) = "open"
    BY <1>2, <2>2, WindowIs
  <2> QED
    BY <2>2, <2>3, <2>4
<1>6. Len(rs) \in Nat /\ Len(pr.lines) \in Nat /\ Len(s) \in Nat
  BY <1>2, <1>4 DEF Splits
<1>7. Before(<<>>, rs) /\ Before(<<>>, pr.lines) /\ Before(<<>>, s)
  BY <1>6 DEF Before
<1>8. Running(<<>>)
  BY <1>2 DEF Running
<1> QED
  BY <1>1, <1>4, <1>5, <1>7, <1>8 DEF RepeatedAs

LEMMA RecordingFinishes ==
    ASSUME Inv, NEW ending \in Endings, FinishRecording(ending)
    PROVE  Inv'
<1>1. PICK w, e, s, f : /\ w = shown /\ w \in BOOLEAN /\ e = [op |-> <<"end", ending>>, result |-> "none"]
                       /\ s = Append(script, e)
                       /\ f = [file EXCEPT !.output = @ \o EndingEntries(pending, ending), !.frames = frames]
  BY DEF Inv
<1>2. run = "record" /\ RecordInv
  BY DEF FinishRecording, Recording, Inv
<1>3. RecordedAs(w, script, file, pending, frames, window)
  BY <1>1, <1>2 DEF RecordInv
<1>4. WrittenAs(w, s, f) /\ frames \in 0..MaxOps
  BY <1>1, <1>3, EndRecorded
<1>5. ShapeAs(file, pending, frames, 1, 1, window)
  BY <1>1, <1>3, RecordedShape
<1>6. RepeatedAs(w, s, <<>>, 1, 1, <<>>, 0, "open")
  BY <1>1, <1>4, RepeatedNothing
<1>7. ShapeAs(f, <<>>, 0, 1, 1, "open")
  BY <1>1, <1>4, <1>6, RepeatedShape
<1>8. ShapeAs(f, pending, frames, 1, 1, window)
  BY <1>5, <1>7 DEF ShapeAs
<1>9. /\ run' = "written" /\ script' = s /\ file' = f
      /\ UNCHANGED <<same, shown, replayed, pending, frames, at, next, window, report>>
  BY <1>1 DEF FinishRecording
<1>10. WrittenInv'
  BY <1>1, <1>4, <1>9 DEF WrittenInv
<1>11. BetweenInv'
  BY <1>2, <1>8, <1>9 DEF BetweenInv, RecordInv
<1> QED
  BY <1>9, <1>10, <1>11 DEF Inv

LEMMA ReplayStarts ==
    ASSUME Inv, StartReplay
    PROVE  Inv'
<1>1. PICK w, p : w = shown /\ w \in BOOLEAN /\ p = Printing(script, w)
  BY DEF Inv
<1>2. run = "written" /\ WrittenInv /\ BetweenInv
  BY DEF StartReplay, Inv
<1>3. WrittenAs(w, script, file)
  BY <1>1, <1>2 DEF WrittenInv
<1>4. script \in Seq(Steps) /\ script[Len(script)] \in EndSteps /\ file.output = Whole(p, EndOf(script))
  BY <1>1, <1>3 DEF WrittenAs, FileOf
<1>5. EndOf(script) \in Endings /\ p \in Splits
  BY <1>1, <1>4, OpTells, PrintingIs DEF EndOf, Steps
<1>6. Readable(file.output)
  BY <1>4, <1>5, WholeReads
<1>7. /\ run' = "replay" /\ report' = NoReport /\ pending' = <<>> /\ frames' = 0 /\ at' = 1 /\ next' = 1 /\ window' = "open"
      /\ same' = same /\ shown' = shown /\ script' = script /\ replayed' = replayed /\ file' = file
  BY <1>6 DEF StartReplay, history
<1>8. RepeatedAs(w, script, <<>>, 1, 1, <<>>, 0, "open") /\ Before(<<>>, script)
  BY <1>1, <1>3, RepeatedNothing
<1>9. replayed = <<>>
  BY <1>2 DEF BetweenInv
<1>10. ReplayInv'
  BY <1>1, <1>7, <1>8, <1>9 DEF ReplayInv
<1>11. WrittenInv'
  BY <1>2, <1>7 DEF WrittenInv
<1> QED
  BY <1>7, <1>10, <1>11 DEF Inv

LEMMA ReplayFinishes ==
    ASSUME Inv, NEW ending \in Endings, FinishReplay(ending)
    PROVE  Inv'
<1>1. PICK w, e, t : /\ w = shown /\ w \in BOOLEAN /\ e = [op |-> <<"end", ending>>, result |-> "none"]
                    /\ t = Append(replayed, e)
  BY DEF Inv
<1>2. run = "replay" /\ ReplayInv /\ WrittenInv
  BY DEF FinishReplay, Replaying, Inv
<1>3. WrittenAs(w, script, file) /\ RepeatedAs(w, script, replayed, at, next, pending, frames, window)
  BY <1>1, <1>2 DEF WrittenInv, ReplayInv
<1>4. ShapeAs(file, pending, frames, at, next, window)
  BY <1>1, <1>3, RepeatedShape
<1>5. script \in Seq(Steps) /\ replayed \in Seq(Steps)
  BY <1>3 DEF WrittenAs, RepeatedAs, Running
<1>6. /\ run' = "done" /\ replayed' = t
      /\ UNCHANGED <<same, shown, script, file, pending, frames, at, next, window>>
  BY <1>1 DEF FinishReplay
<1>7. report' = IF Matched(ending)
                THEN [verdict |-> "matches", frames |-> frames, lines |-> next - 1 + Left(pending)]
                ELSE Differs
  BY DEF FinishReplay, Left
<1>8. Matched(ending) <=> AgreesFrom(file.output, next, EndingEntries(pending, ending) \o <<End>>) /\ at = Len(file.natives) + 1
  BY AgreesAre DEF Matched, UsedUp
<1>9. report'.verdict \in {"matches", "differs"} /\ (report'.verdict = "matches" => Matched(ending))
  BY <1>7 DEF Differs
<1>10. MatchMeansSame'
  <2>1. ASSUME Matched(ending)  PROVE Results(t) = Results(script) /\ Output(t, w) = Output(script, w) /\ Ending(t) = Ending(script)
    BY <1>1, <1>3, <1>8, <2>1, EndTells
  <2> QED
    BY <1>1, <1>6, <1>9, <2>1 DEF MatchMeansSame
<1>11. SameProgramMatches'
  <2> SUFFICES ASSUME same  PROVE SameProgramMatches'
    BY <1>6 DEF SameProgramMatches
  <2>1. Before(replayed, script)
    BY <1>2 DEF ReplayInv
  <2>2. PICK n : n = Len(replayed) + 1
    OBVIOUS
  <2>3. n \in 1..Len(script) /\ script[n].op = <<"end", ending>>
    <3>1. replayed = SubSeq(script, 1, Len(replayed))
      BY <1>5, <2>1, BeforeSub
    <3>2. Len(replayed) < Len(script) /\ script[Len(replayed) + 1].op = <<"end", ending>>
      BY <3>1 DEF FinishReplay, Done
    <3>3. Len(replayed) \in Nat /\ Len(script) \in Nat
      BY <1>5
    <3> QED
      BY <2>2, <3>2, <3>3
  <2>4. /\ t = script
        /\ AgreesFrom(file.output, next, EndingEntries(pending, ending) \o <<End>>) /\ at = Len(file.natives) + 1
        /\ frames = file.frames
        /\ next - 1 + Left(pending) = LinesIn(file.output)
    BY <1>1, <1>3, <2>1, <2>2, <2>3, EndFits
  <2>5. IsPrefix(script, script)
    BY <1>5, BeforeIs, BeforeItself
  <2>6. report' = [verdict |-> "matches", frames |-> file.frames,
                   lines |-> Cardinality({i \in DOMAIN file.output : file.output[i].kind # "failure"})]
    BY <1>7, <1>8, <2>4 DEF LinesIn
  <2> QED
    BY <1>6, <2>4, <2>5, <2>6 DEF SameProgramMatches
<1>12. DoneInv'
  BY <1>4, <1>6, <1>9, <1>10, <1>11 DEF DoneInv
<1>13. WrittenInv'
  BY <1>2, <1>6 DEF WrittenInv
<1>14. same' \in BOOLEAN /\ shown' \in BOOLEAN
  BY <1>6 DEF Inv
<1> QED
  BY <1>6, <1>12, <1>13, <1>14 DEF Inv

LEMMA InvKept == Inv /\ [Next]_vars => Inv'
<1> SUFFICES ASSUME Inv, [Next]_vars  PROVE Inv'
  OBVIOUS
<1>1. CASE \E id \in Natives : Native(id)
  BY <1>1, NativeKeeps
<1>2. CASE \E chunk \in Chunks : PrintCall(chunk)
  BY <1>2, PrintKeeps
<1>3. CASE \E ending \in Endings : FinishRecording(ending) \/ FinishReplay(ending)
  BY <1>3, RecordingFinishes, ReplayFinishes
<1>4. CASE Frame \/ Draw \/ CloseWindow \/ StartReplay
  BY <1>4, FrameKeeps, DrawKeeps, CloseKeeps, ReplayStarts
<1>5. CASE Over \/ UNCHANGED vars
  <2>1. UNCHANGED vars
    BY <1>5 DEF Over
  <2>2. /\ run' = run /\ same' = same /\ shown' = shown /\ script' = script /\ replayed' = replayed /\ file' = file
        /\ pending' = pending /\ frames' = frames /\ at' = at /\ next' = next /\ window' = window /\ report' = report
    BY <2>1 DEF vars
  <2>3. RecordInv => RecordInv'
    BY <2>2 DEF RecordInv
  <2>4. WrittenInv => WrittenInv'
    BY <2>2 DEF WrittenInv
  <2>5. BetweenInv => BetweenInv'
    BY <2>2 DEF BetweenInv
  <2>6. ReplayInv => ReplayInv'
    BY <2>2 DEF ReplayInv
  <2>7. MatchMeansSame => MatchMeansSame'
    BY <2>2 DEF MatchMeansSame
  <2>8. SameProgramMatches => SameProgramMatches'
    BY <2>2 DEF SameProgramMatches
  <2>9. DoneInv => DoneInv'
    BY <2>2, <2>7, <2>8 DEF DoneInv
  <2> QED
    BY <2>2, <2>3, <2>4, <2>5, <2>6, <2>9 DEF Inv
<1> QED
  BY <1>1, <1>2, <1>3, <1>4, <1>5 DEF Next
-----------------------------------------------------------------------------
(* What the invariant says. *)

LEMMA InvMatches == Inv => SameProgramMatches
<1> SUFFICES ASSUME Inv, same  PROVE SameProgramMatches
  BY DEF SameProgramMatches
<1>1. CASE run = "done"
  BY <1>1 DEF Inv, DoneInv
<1>2. CASE run # "done"
  <2>1. IsPrefix(replayed, script)
    <3>1. CASE run = "replay"
      <4>1. script \in Seq(Steps) /\ replayed \in Seq(Steps) /\ Before(replayed, script)
        BY <3>1 DEF Inv, ReplayInv, WrittenInv, WrittenAs, RepeatedAs, Running
      <4> QED
        BY <4>1, BeforeIs
    <3>2. CASE run # "replay"
      <4>1. run = "record" \/ run = "written"
        BY <1>2, <3>2 DEF Inv
      <4>2. replayed = <<>> /\ script \in Seq(Steps)
        <5>1. CASE run = "record"
          BY <5>1 DEF Inv, RecordInv, RecordedAs, Running
        <5>2. CASE run = "written"
          BY <5>2 DEF Inv, WrittenInv, BetweenInv, WrittenAs
        <5> QED
          BY <4>1, <5>1, <5>2
      <4>3. <<>> \in Seq(Steps) /\ Len(script) \in Nat
        BY <4>2
      <4>4. Before(<<>>, script)
        BY <4>3 DEF Before
      <4> QED
        BY <4>2, <4>3, <4>4, BeforeIs
    <3> QED
      BY <3>1, <3>2
  <2> QED
    BY <1>2, <2>1 DEF SameProgramMatches
<1> QED
  BY <1>1, <1>2

LEMMA InvTellsApart == Inv => ReplaysTellApart
<1> SUFFICES ASSUME Inv  PROVE ReplaysTellApart
  OBVIOUS
<1>1. PICK w \in BOOLEAN : w = shown
  BY DEF Inv
<1>2. ShapeAs(file, pending, frames, at, next, window)
  <2>1. CASE run = "record"
    <3>1. RecordedAs(w, script, file, pending, frames, window) /\ at = 1 /\ next = 1
      BY <1>1, <2>1 DEF Inv, RecordInv
    <3> QED
      BY <3>1, RecordedShape
  <2>2. CASE run = "replay"
    <3>1. WrittenAs(w, script, file) /\ RepeatedAs(w, script, replayed, at, next, pending, frames, window)
      BY <1>1, <2>2 DEF Inv, WrittenInv, ReplayInv
    <3> QED
      BY <3>1, RepeatedShape
  <2>3. CASE run \in {"written", "done"}
    BY <2>3 DEF Inv, BetweenInv, DoneInv
  <2> QED
    BY <2>1, <2>2, <2>3 DEF Inv
<1>3. report.verdict \in {"none", "matches", "differs"} /\ (run # "done" => report.verdict = "none")
  <2>1. CASE run = "done"
    BY <2>1 DEF Inv, DoneInv
  <2>2. CASE run # "done"
    <3>1. report = NoReport
      BY <2>2 DEF Inv, RecordInv, BetweenInv, ReplayInv
    <3> QED
      BY <3>1 DEF NoReport
  <2> QED
    BY <2>1, <2>2
<1>4. TypeOK
  BY <1>2, <1>3 DEF TypeOK, ShapeAs, Inv
<1>5. MatchMeansSame
  <2>1. CASE run = "done"
    BY <2>1 DEF Inv, DoneInv
  <2>2. CASE run # "done"
    BY <1>3, <2>2 DEF MatchMeansSame
  <2> QED
    BY <2>1, <2>2
<1>6. StopsAtTheDifference
  <2> SUFFICES ASSUME run = "replay"  PROVE StopsAtTheDifference
    BY DEF StopsAtTheDifference, Replaying
  <2>1. PICK rs, rt, ps, pt : rs = Results(script) /\ rt = Results(replayed) /\ ps = Printing(script, w) /\ pt = Printing(replayed, w)
    OBVIOUS
  <2>2. script \in Seq(Steps) /\ replayed \in Seq(Steps) /\ Before(rt, rs) /\ Before(pt.lines, ps.lines)
    BY <1>1, <2>1 DEF Inv, ReplayInv, WrittenInv, WrittenAs, RepeatedAs, Running
  <2>3. rs \in Seq(ResultSteps) /\ rt \in Seq(ResultSteps) /\ ps.lines \in Seq(Seq(Open)) /\ pt.lines \in Seq(Seq(Open))
    BY <2>1, <2>2, ResultsIs, PrintingIs DEF Splits
  <2>4. IsPrefix(rt, rs) /\ IsPrefix(pt.lines, ps.lines)
    BY <2>2, <2>3, BeforeIs
  <2>5. CompleteLines(replayed) = pt.lines /\ CompleteLines(script) = ps.lines
    BY <1>1, <2>1 DEF CompleteLines, Printing
  <2> QED
    BY <2>1, <2>4, <2>5 DEF StopsAtTheDifference
<1> QED
  BY <1>4, <1>5, <1>6 DEF ReplaysTellApart

\* A recording is replayed: the same program, on any machine and with or
\* without a window to show, is given the recorded results one by one and its
\* replay matches (Recorder, Player and finish of replay/mod.rs).
THEOREM SameProgramsMatch == Spec => []SameProgramMatches
<1>1. Spec => []Inv
  BY InvStarts, InvKept, PTL DEF Spec
<1> QED
  BY <1>1, InvMatches, PTL

\* A replay that matches called the same natives with the same results,
\* printed the same bytes and ended the same way, and one that does not stops
\* at the first result or line that differs (Cursor::next, Check of
\* replay/mod.rs).
THEOREM ReplaysAreToldApart == Spec => []ReplaysTellApart
<1>1. Spec => []Inv
  BY InvStarts, InvKept, PTL DEF Spec
<1> QED
  BY <1>1, InvTellsApart, PTL
=============================================================================
