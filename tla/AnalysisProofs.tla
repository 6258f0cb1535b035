--------------------------- MODULE AnalysisProofs ---------------------------
(***************************************************************************)
(* Theorems about what is worked out of a program's text: what the         *)
(* language server shows of its analyses (Lsp), and the ranges by which    *)
(* the compiler leaves checks out (Intervals).                             *)
(***************************************************************************)
EXTENDS Lsp, Intervals, WellFoundedInduction, SequenceTheorems, TLAPS
-----------------------------------------------------------------------------
(***************************************************************************)
(* The language server, for any texts, disks, settings and number of       *)
(* messages that wait: what the editor is shown and told is of the texts   *)
(* as they are.                                                            *)
(*                                                                         *)
(* The messages that wait agree with what is open (InTurn); what was       *)
(* checked is up to date unless one of them marks the documents (Fresh);   *)
(* the screen is behind only in files that the next analysis publishes     *)
(* (Shown).                                                                *)
(***************************************************************************)

Marks == {"open", "change", "save", "close", "configure"}

Texted == UNION {[kind : {"open", "change"}, file : {f}, text : Texts(f)] : f \in Files}
Filed  == [kind : {"close"}, file : Files]
Plain  == [kind : {"save", "request"}]
Set    == [kind : {"configure"}, show : Shows]
Messages == Texted \cup Filed \cup Plain \cup Set

Doc(f) == [text : Texts(f), dirty : BOOLEAN, lower : BOOLEAN,
           analysis : Analyses \cup {Nothing}, good : Analyses \cup {Nothing}, lens : SUBSET Findings]

\* Findings of documents, by file.
ByFile(found) == \A f \in DOMAIN found : DOMAIN found[f] \subseteq Files
                   /\ \A g \in DOMAIN found[f] : found[f][g] \subseteq Findings

TypeInv ==
    /\ events \in 0..MaxEvents
    /\ queue \in Seq(Messages) /\ Len(queue) <= MaxQueue
    /\ show \in Shows
    /\ \A f \in Files :
         /\ disk[f] \in Texts(f) /\ view[f] \in Texts(f) \cup {Nothing}
         /\ parsed[f] \in Texts(f) \cup {Nothing}
         /\ screen[f] \subseteq Findings
         /\ docs[f] \in Doc(f) \cup {Nothing}
    /\ DOMAIN disk = Files /\ DOMAIN view = Files /\ DOMAIN parsed = Files /\ DOMAIN docs = Files
    /\ DOMAIN checked \subseteq Open /\ DOMAIN lowered \subseteq Open
    /\ ByFile(checked) /\ ByFile(lowered)

\* The documents open after a message, of those open before it.
After(before, m) ==
    CASE m.kind = "open" -> before \cup {m.file}
      [] m.kind = "close" -> before \ {m.file}
      [] OTHER -> before

MayCome(before, m) ==
    /\ m.kind = "open" => m.file \notin before
    /\ m.kind \in {"change", "close"} => m.file \in before

\* The messages that wait lead from what the server has open to what the
\* editor has, and each comes in its turn.
InTurn ==
    \E open \in [0..Len(queue) -> SUBSET Files] :
        /\ open[0] = Open /\ open[Len(queue)] = {f \in Files : view[f] # Nothing}
        /\ \A i \in 1..Len(queue) :
             MayCome(open[i - 1], queue[i]) /\ open[i] = After(open[i - 1], queue[i])

\* While no message waits that marks the documents, what was checked is of the texts as they are.
Marking == \E i \in 1..Len(queue) : queue[i].kind \in Marks

Fresh ==
    /\ Open \ Dirty \subseteq DOMAIN checked
    /\ ~Marking => \A f \in Open \ Dirty : checked[f] = CheckFound(f) /\ (f \in owed => ~Clean(f))

\* What is owed is marked for it.
Owed == owed \subseteq Open /\ \A f \in owed : docs[f].lower

\* The screen is behind only in files about which a marked document's program has said something.
Shown ==
    \A g \in Files : \/ screen[g] = Merged(checked, lowered, g)
                     \/ \E e \in Dirty : e \in DOMAIN lowered /\ g \in DOMAIN lowered[e]

\* The analysis that hover answers from is of the last text with tables.
Answers ==
    /\ \A f \in Files \ Open : parsed[f] = Nothing
    /\ \A f \in Open :
         LET used == LastGood(docs[f])
         IN  IF parsed[f] = Nothing THEN used = Nothing
             ELSE used # Nothing /\ used.tables /\ used.text = parsed[f]

IInv == TypeInv /\ InTurn /\ Fresh /\ Owed /\ Shown /\ FindingsFollow /\ Answers
-----------------------------------------------------------------------------
(* Where the lines of one text are in the next. *)

LEMMA GreatestExists ==
    ASSUME NEW n \in Nat, NEW S, S \subseteq 0..n, S # {}
    PROVE  Max(S) \in S
<1> DEFINE R == OpToRel(<, Nat)
           T == {n - x : x \in S}
<1>1. T \subseteq Nat /\ T # {}
  <2>1. \A x \in S : x \in 0..n /\ n - x \in Nat
    OBVIOUS
  <2> QED
    BY <2>1
<1>2. PICK t \in T : \A y \in T : ~(<<y, t>> \in R)
  <2> HIDE DEF T
  <2> QED
    BY <1>1, NatLessThanWellFounded, WFMin, Zenon
<1>3. \A y \in T : ~(y < t)
  BY <1>1, <1>2 DEF OpToRel
<1>4. PICK x \in S : t = n - x
  BY <1>2
<1>5. \A y \in S : x >= y
  <2> SUFFICES ASSUME NEW y \in S  PROVE x >= y
    OBVIOUS
  <2>1. n - y \in T /\ x \in 0..n /\ y \in 0..n
    BY <1>4
  <2>2. ~(n - y < t)
    BY <1>3, <2>1
  <2> QED
    BY <1>4, <2>1, <2>2
<1> QED
  BY <1>5 DEF Max

LEMMA LeastOfTwo ==
    ASSUME NEW m \in Nat, NEW n \in Nat
    PROVE  Min({m, n}) \in Nat /\ Min({m, n}) <= m /\ Min({m, n}) <= n
<1>1. \E x \in {m, n} : \A y \in {m, n} : x <= y
  OBVIOUS
<1>2. Min({m, n}) \in {m, n} /\ \A y \in {m, n} : Min({m, n}) <= y
  BY <1>1 DEF Min
<1> QED
  BY <1>2

LEMMA PrefixIs ==
    ASSUME NEW D, NEW a \in Seq(D), NEW b \in Seq(D)
    PROVE  /\ SamePrefix(a, b) \in Nat /\ SamePrefix(a, b) <= Len(a) /\ SamePrefix(a, b) <= Len(b)
           /\ \A i \in 1..SamePrefix(a, b) : a[i] = b[i]
<1> DEFINE m == Min({Len(a), Len(b)})
           S == {n \in 0..m : \A i \in 1..n : a[i] = b[i]}
<1>1. m \in Nat /\ m <= Len(a) /\ m <= Len(b)
  BY LeastOfTwo
<1> HIDE DEF m
<1>2. 0 \in S /\ S \subseteq 0..m
  BY <1>1
<1>3. Max(S) \in S
  <2> HIDE DEF S
  <2> QED
    BY <1>1, <1>2, GreatestExists
<1>4. SamePrefix(a, b) = Max(S)
  BY DEF SamePrefix, m
<1> QED
  BY <1>1, <1>3, <1>4

LEMMA ReverseIs ==
    ASSUME NEW D, NEW a \in Seq(D)
    PROVE  /\ Reverse(a) \in Seq(D) /\ Len(Reverse(a)) = Len(a)
           /\ \A i \in 1..Len(a) : Reverse(a)[i] = a[Len(a) - i + 1]
<1>1. \A i \in 1..Len(a) : a[(Len(a) - i) + 1] \in D
  <2> SUFFICES ASSUME NEW i \in 1..Len(a)  PROVE a[(Len(a) - i) + 1] \in D
    OBVIOUS
  <2>1. (Len(a) - i) + 1 \in 1..Len(a)
    OBVIOUS
  <2> QED
    BY <2>1
<1> QED
  BY <1>1 DEF Reverse

LEMMA SuffixIs ==
    ASSUME NEW D, NEW a \in Seq(D), NEW b \in Seq(D)
    PROVE  /\ SameSuffix(a, b) \in Nat
           /\ SamePrefix(a, b) + SameSuffix(a, b) <= Len(a)
           /\ SamePrefix(a, b) + SameSuffix(a, b) <= Len(b)
           /\ \A k \in 1..SameSuffix(a, b) : a[Len(a) - k + 1] = b[Len(b) - k + 1]
<1> DEFINE p == SamePrefix(a, b)
           max == Min({Len(a), Len(b)}) - p
           q == SamePrefix(Reverse(a), Reverse(b))
<1>1. Min({Len(a), Len(b)}) \in {Len(a), Len(b)} /\ Min({Len(a), Len(b)}) <= Len(a)
      /\ Min({Len(a), Len(b)}) <= Len(b)
  <2>1. \E x \in {Len(a), Len(b)} : \A y \in {Len(a), Len(b)} : x <= y
    OBVIOUS
  <2>2. /\ Min({Len(a), Len(b)}) \in {Len(a), Len(b)}
        /\ \A y \in {Len(a), Len(b)} : Min({Len(a), Len(b)}) <= y
    BY <2>1 DEF Min
  <2> QED
    BY <2>2
<1>2. p \in Nat /\ p <= Len(a) /\ p <= Len(b)
  BY PrefixIs
<1>3. max \in Nat /\ p + max <= Len(a) /\ p + max <= Len(b)
  BY <1>1, <1>2
<1>4. q \in Nat /\ q <= Len(a) /\ q <= Len(b) /\ \A i \in 1..q : Reverse(a)[i] = Reverse(b)[i]
  BY ReverseIs, PrefixIs
<1>5. SameSuffix(a, b) = Min({max, q})
  BY DEF SameSuffix
<1> HIDE DEF max, p, q
<1>6. Min({max, q}) \in Nat /\ Min({max, q}) <= max /\ Min({max, q}) <= q
  BY <1>3, <1>4, LeastOfTwo
<1>7. ASSUME NEW k \in 1..SameSuffix(a, b)  PROVE a[Len(a) - k + 1] = b[Len(b) - k + 1]
  <2>1. k \in 1..q /\ k \in 1..Len(a) /\ k \in 1..Len(b)
    BY <1>4, <1>5, <1>6
  <2> QED
    BY <1>4, <2>1, ReverseIs
<1>8. /\ SameSuffix(a, b) \in Nat
      /\ p + SameSuffix(a, b) <= Len(a) /\ p + SameSuffix(a, b) <= Len(b)
  BY <1>2, <1>3, <1>5, <1>6
<1> QED
  BY <1>7, <1>8 DEF p

\* A line that is kept is found again where the shift says.
LEMMA LineMoves ==
    ASSUME NEW D, NEW a \in Seq(D), NEW b \in Seq(D), NEW i \in 1..Len(a), Kept(a, b, i)
    PROVE  MovedLine(a, b, i) \in 1..Len(b) /\ b[MovedLine(a, b, i)] = a[i]
<1> DEFINE p == SamePrefix(a, b)
           s == SameSuffix(a, b)
<1>1. p \in Nat /\ p <= Len(a) /\ p <= Len(b) /\ \A k \in 1..p : a[k] = b[k]
  BY PrefixIs
<1>2. s \in Nat /\ p + s <= Len(a) /\ p + s <= Len(b)
      /\ \A k \in 1..s : a[Len(a) - k + 1] = b[Len(b) - k + 1]
  BY SuffixIs
<1>3. i <= p \/ i > Len(a) - s
  BY DEF Kept
<1>4. MovedLine(a, b, i) = IF i <= p THEN i ELSE i + Len(b) - Len(a)
  BY DEF MovedLine
<1> HIDE DEF p, s
<1>5. CASE i <= p
  BY <1>1, <1>4, <1>5
<1>6. CASE ~(i <= p)
  <2> DEFINE k == Len(a) - i + 1
  <2>1. k \in 1..s /\ i > Len(a) - s
    BY <1>1, <1>2, <1>3, <1>6
  <2>2. Len(a) - k + 1 = i /\ Len(b) - k + 1 = i + Len(b) - Len(a)
    OBVIOUS
  <2>3. i + Len(b) - Len(a) \in 1..Len(b)
    BY <1>1, <1>2, <2>1
  <2>4. a[Len(a) - k + 1] = b[Len(b) - k + 1]
    BY <1>2, <2>1
  <2> QED
    BY <1>4, <1>6, <2>2, <2>3, <2>4
<1> QED
  BY <1>5, <1>6
-----------------------------------------------------------------------------
(* What the compiler finds. *)

LEMMA TextIs ==
    ASSUME TypeInv, NEW f \in Files
    PROVE  /\ Text(f) \in Texts(f) /\ Text(f) \in Seq(Kinds)
           /\ f \in Open => docs[f] \in Doc(f) /\ Text(f) = docs[f].text
<1>1. docs[f] \in Doc(f) \cup {Nothing} /\ disk[f] \in Texts(f)
  BY DEF TypeInv
<1>2. docs[f] # Nothing => docs[f] \in Doc(f) /\ docs[f].text \in Texts(f)
  BY <1>1 DEF Doc
<1>3. Text(f) \in Texts(f)
  BY <1>1, <1>2 DEF Text
<1>4. Texts(f) \subseteq Seq(Kinds)
  BY TextsAssumption DEF Texts
<1> QED
  BY <1>2, <1>3, <1>4 DEF Open, Text

LEMMA LinesAre ==
    ASSUME TypeInv, NEW g \in Files, NEW kinds
    PROVE  /\ Lines(g, kinds) \subseteq Findings
           /\ \A d \in Lines(g, kinds) : d.line \in 1..Len(Text(g)) /\ d.what = Text(g)[d.line]
<1>1. Text(g) \in Seq(Kinds)
  BY TextIs
<1>2. DOMAIN Text(g) = 1..Len(Text(g)) /\ \A i \in 1..Len(Text(g)) : Text(g)[i] \in Kinds
  BY <1>1
<1>3. ASSUME NEW d \in Lines(g, kinds)
      PROVE  d \in Findings /\ d.line \in 1..Len(Text(g)) /\ d.what = Text(g)[d.line]
  <2>1. PICK i \in DOMAIN Text(g) : d = [line |-> i, what |-> Text(g)[i]]
    BY <1>3 DEF Lines
  <2>2. i \in Nat \ {0} /\ Text(g)[i] \in Kinds
    BY <1>1, <1>2, <2>1
  <2> QED
    BY <1>2, <2>1, <2>2 DEF Findings
<1> QED
  BY <1>3

LEMMA ProgramIs == \A f \in Files : Program(f) \subseteq Files /\ f \in Program(f)
BY DEF Program, Files

LEMMA IceIs ==
    ASSUME NEW f \in Files
    PROVE  /\ DOMAIN Ice(f) = {f} /\ Ice(f)[f] \subseteq Findings
           /\ \A d \in Ice(f)[f] : d.what = "ice"
BY DEF Ice, Findings

LEMMA FoundIs ==
    ASSUME NEW f \in Files, NEW said \in [Files -> SUBSET Findings]
    PROVE  /\ DOMAIN Found(f, said) \subseteq Files
           /\ \A g \in DOMAIN Found(f, said) : Found(f, said)[g] = said[g]
BY ProgramIs DEF Found

LEMMA CheckFoundIs ==
    ASSUME TypeInv, NEW f \in Files
    PROVE  /\ DOMAIN CheckFound(f) \subseteq Files
           /\ \A g \in DOMAIN CheckFound(f) : CheckFound(f)[g] \subseteq Findings
<1>1. CASE Crashes(f)
  BY <1>1, IceIs DEF CheckFound
<1>2. CASE ~Crashes(f)
  <2> DEFINE said == [g \in Files |-> Errors(f, g)]
  <2>1. said \in [Files -> SUBSET Findings]
    BY LinesAre DEF Errors
  <2>2. CheckFound(f) = Found(f, said)
    BY <1>2 DEF CheckFound
  <2> HIDE DEF said
  <2> QED
    BY <2>1, <2>2, FoundIs
<1> QED
  BY <1>1, <1>2

LEMMA LensIs ==
    ASSUME TypeInv, NEW f \in Files
    PROVE  /\ Lens(f) \subseteq Findings
           /\ \A d \in Lens(f) : d.line \in 1..Len(Text(f)) /\ d.what = Text(f)[d.line]
BY LinesAre DEF Lens

LEMMA LowerFoundIs ==
    ASSUME TypeInv, NEW f \in Files
    PROVE  /\ DOMAIN LowerFound(f) \subseteq Files
           /\ \A g \in DOMAIN LowerFound(f) : LowerFound(f)[g] \subseteq Findings
           /\ f \in DOMAIN LowerFound(f) =>
                \A d \in LowerFound(f)[f] :
                   d.what # "ice" => d.line \in 1..Len(Text(f)) /\ d.what = Text(f)[d.line]
<1>1. CASE ~Lowers(f)
  BY <1>1, IceIs DEF LowerFound
<1>2. CASE Lowers(f)
  <2> DEFINE said == [g \in Files |->
        Lines(g, {"assume"}) \cup IF show = "diagnostics" /\ g = f THEN Lens(f) ELSE {}]
  <2>1. said \in [Files -> SUBSET Findings]
    BY LinesAre, LensIs
  <2>2. \A d \in said[f] : d.line \in 1..Len(Text(f)) /\ d.what = Text(f)[d.line]
    BY LinesAre, LensIs
  <2>3. LowerFound(f) = Found(f, said)
    BY <1>2 DEF LowerFound
  <2> HIDE DEF said
  <2> QED
    BY <2>1, <2>2, <2>3, FoundIs
<1> QED
  BY <1>1, <1>2

\* What checking finds depends on the texts alone.
LEMMA SameTexts ==
    ASSUME \A f \in Files : Text(f)' = Text(f)
    PROVE  \A f \in Files : /\ CheckFound(f)' = CheckFound(f) /\ Clean(f)' = Clean(f)
<1>1. \A f \in Files : Program(f)' = Program(f)
  BY DEF Program
<1>2. ASSUME NEW f \in Files, NEW what  PROVE ProgramHas(f, what)' = ProgramHas(f, what)
  BY <1>1, ProgramIs DEF ProgramHas
<1>3. ASSUME NEW g \in Files, NEW kinds  PROVE Lines(g, kinds)' = Lines(g, kinds)
  BY DEF Lines
<1>4. \A f \in Files : ProgramHas(f, "garble")' = ProgramHas(f, "garble") /\ ProgramHas(f, "def")' = ProgramHas(f, "def")
                       /\ ProgramHas(f, "boom")' = ProgramHas(f, "boom")
  BY <1>2
<1>5. \A f, g \in Files : Errors(f, g)' = Errors(f, g)
  BY <1>3, <1>4 DEF Errors
<1>6. \A f \in Files : Crashes(f)' = Crashes(f)
  BY <1>4 DEF Crashes, Tables
<1>7. ASSUME NEW f \in Files  PROVE CheckFound(f)' = CheckFound(f)
  <2>1. [g \in Files |-> Errors(f, g)]' = [g \in Files |-> Errors(f, g)]
    BY <1>5
  <2> DEFINE said == [g \in Files |-> Errors(f, g)]
  <2>2. said' = said
    BY <2>1
  <2>3. Found(f, said)' = Found(f, said)
    <3> HIDE DEF said
    <3> QED
      BY <1>1, <2>2 DEF Found
  <2>4. Ice(f)' = Ice(f)
    BY DEF Ice
  <2> HIDE DEF said
  <2> QED
    BY <1>6, <2>3, <2>4 DEF CheckFound, said
<1>8. \A f \in Files : Clean(f)' = Clean(f)
  BY <1>1, <1>5, ProgramIs DEF Clean
<1> QED
  BY <1>7, <1>8
-----------------------------------------------------------------------------
(* The messages. *)

Viewed == {f \in Files : view[f] # Nothing}

LEMMA MessageIs ==
    ASSUME NEW m \in Messages
    PROVE  /\ m.kind \in {"open", "change", "close", "save", "request", "configure"}
           /\ m.kind \in {"open", "change", "close"} => m.file \in Files
           /\ m.kind \in {"open", "change"} => m.text \in Texts(m.file)
           /\ m.kind = "configure" => m.show \in Shows
<1>1. CASE m \in Texted
  <2>1. PICK f \in Files : m \in [kind : {"open", "change"}, file : {f}, text : Texts(f)]
    BY <1>1 DEF Texted
  <2> QED
    BY <2>1
<1>2. CASE m \in Filed
  BY <1>2 DEF Filed
<1>3. CASE m \in Plain
  BY <1>3 DEF Plain
<1>4. CASE m \in Set
  BY <1>4 DEF Set
<1> QED
  BY <1>1, <1>2, <1>3, <1>4 DEF Messages

LEMMA MessagesAre ==
    /\ \A f \in Files : \A text \in Texts(f) :
         /\ [kind |-> "open", file |-> f, text |-> text] \in Messages
         /\ [kind |-> "change", file |-> f, text |-> text] \in Messages
    /\ \A f \in Files : [kind |-> "close", file |-> f] \in Messages
    /\ [kind |-> "save"] \in Messages /\ [kind |-> "request"] \in Messages
    /\ \A s \in Shows : [kind |-> "configure", show |-> s] \in Messages
<1>1. ASSUME NEW f \in Files, NEW text \in Texts(f)
      PROVE  /\ [kind |-> "open", file |-> f, text |-> text] \in Messages
             /\ [kind |-> "change", file |-> f, text |-> text] \in Messages
  <2> DEFINE told == [kind : {"open", "change"}, file : {f}, text : Texts(f)]
  <2>1. /\ [kind |-> "open", file |-> f, text |-> text] \in told
        /\ [kind |-> "change", file |-> f, text |-> text] \in told
    OBVIOUS
  <2>2. told \in {[kind : {"open", "change"}, file : {g}, text : Texts(g)] : g \in Files}
    OBVIOUS
  <2> HIDE DEF told
  <2> QED
    BY <2>1, <2>2 DEF Messages, Texted
<1>2. \A f \in Files : [kind |-> "close", file |-> f] \in Messages
  BY DEF Messages, Filed
<1>3. [kind |-> "save"] \in Messages /\ [kind |-> "request"] \in Messages
  BY DEF Messages, Plain
<1>4. \A s \in Shows : [kind |-> "configure", show |-> s] \in Messages
  BY DEF Messages, Set
<1> QED
  BY <1>1, <1>2, <1>3, <1>4

LEMMA AfterIs ==
    ASSUME NEW m \in Messages, NEW before \in SUBSET Files
    PROVE  After(before, m) \in SUBSET Files
BY MessageIs DEF After

\* One more message that waits.
LEMMA MessageSent ==
    ASSUME TypeInv, InTurn, NEW m \in Messages, queue' = Append(queue, m), docs' = docs,
           MayCome(Viewed, m), Viewed' = After(Viewed, m)
    PROVE  InTurn'
<1> DEFINE n == Len(queue)
<1>0. queue \in Seq(Messages) /\ n \in Nat
  BY DEF TypeInv
<1>1. PICK open \in [0..n -> SUBSET Files] :
        /\ open[0] = Open /\ open[n] = Viewed
        /\ \A i \in 1..n :
             MayCome(open[i - 1], queue[i]) /\ open[i] = After(open[i - 1], queue[i])
  BY DEF InTurn, Viewed
<1> DEFINE on == [i \in 0..(n + 1) |-> IF i <= n THEN open[i] ELSE After(Viewed, m)]
<1>2. /\ Len(queue') = n + 1 /\ queue'[n + 1] = m
      /\ \A i \in 1..n : queue'[i] = queue[i]
  BY <1>0
<1>3. on \in [0..(n + 1) -> SUBSET Files]
  BY <1>0, AfterIs DEF Viewed
<1>4. on[0] = Open' /\ on[n + 1] = Viewed'
  BY <1>0, <1>1 DEF Open
<1>5. ASSUME NEW i \in 1..(n + 1)
      PROVE  MayCome(on[i - 1], queue'[i]) /\ on[i] = After(on[i - 1], queue'[i])
  <2>1. CASE i = n + 1
    <3>1. on[i - 1] = Viewed /\ on[i] = After(Viewed, m) /\ queue'[i] = m
      BY <1>0, <1>1, <1>2, <2>1
    <3> QED
      BY <3>1
  <2>2. CASE i # n + 1
    <3>1. i \in 1..n /\ on[i - 1] = open[i - 1] /\ on[i] = open[i] /\ queue'[i] = queue[i]
      BY <1>0, <1>2, <2>2
    <3> QED
      BY <1>1, <3>1
  <2> QED
    BY <2>1, <2>2
<1> HIDE DEF on, n
<1> QED
  BY <1>2, <1>3, <1>4, <1>5 DEF InTurn, Viewed

\* The next message comes in its turn; it is dealt with.
LEMMA MessageTaken ==
    ASSUME TypeInv, InTurn, queue # <<>>, queue' = Tail(queue), view' = view
    PROVE  /\ Head(queue) \in Messages /\ MayCome(Open, Head(queue))
           /\ queue' \in Seq(Messages) /\ Len(queue') = Len(queue) - 1
           /\ Open' = After(Open, Head(queue)) => InTurn'
           /\ ~Marking' /\ Head(queue).kind \notin Marks => ~Marking
<1> DEFINE n == Len(queue)
<1>0. queue \in Seq(Messages) /\ n \in Nat \ {0}
  BY DEF TypeInv
<1>1. PICK open \in [0..n -> SUBSET Files] :
        /\ open[0] = Open /\ open[n] = Viewed
        /\ \A i \in 1..n :
             MayCome(open[i - 1], queue[i]) /\ open[i] = After(open[i - 1], queue[i])
  BY DEF InTurn, Viewed
<1> DEFINE on == [i \in 0..(n - 1) |-> open[i + 1]]
<1>2. /\ Len(queue') = n - 1 /\ Head(queue) = queue[1] /\ queue' \in Seq(Messages)
      /\ \A i \in 1..(n - 1) : queue'[i] = queue[i + 1]
  BY <1>0
<1>3. Head(queue) \in Messages /\ MayCome(Open, Head(queue)) /\ open[1] = After(Open, Head(queue))
  <2>1. 1 \in 1..n /\ 1 - 1 = 0
    BY <1>0
  <2>2. MayCome(open[1 - 1], queue[1]) /\ open[1] = After(open[1 - 1], queue[1])
    BY <1>1, <2>1
  <2> QED
    BY <1>0, <1>1, <1>2, <2>1, <2>2
<1>4. on \in [0..(n - 1) -> SUBSET Files] /\ on[0] = open[1] /\ on[n - 1] = open[n]
  BY <1>0
<1>5. ASSUME NEW i \in 1..(n - 1)
      PROVE  MayCome(on[i - 1], queue'[i]) /\ on[i] = After(on[i - 1], queue'[i])
  <2>1. i + 1 \in 1..n /\ on[i - 1] = open[(i + 1) - 1] /\ on[i] = open[i + 1] /\ queue'[i] = queue[i + 1]
    BY <1>0, <1>2
  <2> QED
    BY <1>1, <2>1
<1>6. Viewed' = Viewed
  BY DEF Viewed
<1>7. ASSUME Open' = After(Open, Head(queue))  PROVE InTurn'
  <2>1. on[0] = Open' /\ on[n - 1] = Viewed'
    BY <1>1, <1>3, <1>4, <1>6, <1>7
  <2>2. PICK k : k = n - 1
    OBVIOUS
  <2>3. /\ Len(queue') = k /\ on \in [0..k -> SUBSET Files] /\ on[0] = Open' /\ on[k] = Viewed'
        /\ \A i \in 1..k : MayCome(on[i - 1], queue'[i]) /\ on[i] = After(on[i - 1], queue'[i])
    BY <1>2, <1>4, <1>5, <2>1, <2>2
  <2> HIDE DEF on, n
  <2> QED
    BY <2>3 DEF InTurn, Viewed
<1>8. ASSUME ~Marking', Head(queue).kind \notin Marks, NEW i \in 1..n  PROVE queue[i].kind \notin Marks
  <2>1. CASE i = 1
    BY <1>2, <1>8, <2>1
  <2>2. CASE i # 1
    <3>1. i - 1 \in 1..(n - 1) /\ queue'[i - 1] = queue[i]
      BY <1>0, <1>2, <2>2
    <3> QED
      BY <1>2, <1>8, <3>1 DEF Marking
  <2> QED
    BY <2>1, <2>2
<1> QED
  BY <1>2, <1>3, <1>7, <1>8 DEF Marking
-----------------------------------------------------------------------------
(* The editor. *)

LEMMA NoTextIsNothing == \A f \in Files : \A text \in Texts(f) : text # Nothing
BY TextsAssumption DEF Texts, Nothing

\* What a step of the editor does, whichever it is.
Told(m) ==
    /\ m \in Messages /\ queue' = Append(queue, m) /\ Len(queue) < MaxQueue
    /\ events < MaxEvents /\ events' = events + 1
    /\ MayCome(Viewed, m) /\ Viewed' = After(Viewed, m)
    /\ m.kind \in Marks \/ disk' = disk
    /\ DOMAIN disk' = Files /\ DOMAIN view' = Files
    /\ \A f \in Files : disk'[f] \in Texts(f) /\ view'[f] \in Texts(f) \cup {Nothing}
    /\ UNCHANGED <<docs, checked, lowered, show, screen, owed, parsed>>

LEMMA ViewedNow ==
    ASSUME TypeInv, NEW f \in Files, NEW text \in Texts(f) \cup {Nothing},
           view' = [view EXCEPT ![f] = text]
    PROVE  /\ text = Nothing => Viewed' = Viewed \ {f}
           /\ text # Nothing => Viewed' = Viewed \cup {f}
           /\ DOMAIN view' = Files /\ \A g \in Files : view'[g] \in Texts(g) \cup {Nothing}
<1>1. DOMAIN view = Files /\ \A g \in Files : view[g] \in Texts(g) \cup {Nothing}
  BY DEF TypeInv
<1>2. view'[f] = text /\ \A g \in Files : g # f => view'[g] = view[g]
  BY <1>1
<1> QED
  BY <1>1, <1>2 DEF Viewed

LEMMA EditorTells ==
    ASSUME TypeInv, Editor
    PROVE  \E m : Told(m)
<1>0. /\ DOMAIN disk = Files /\ DOMAIN view = Files
      /\ \A f \in Files : disk[f] \in Texts(f) /\ view[f] \in Texts(f) \cup {Nothing}
  BY DEF TypeInv
<1>1. ASSUME NEW f \in Files, NEW text \in Texts(f), OpenFile(f, text)  PROVE \E m : Told(m)
  <2> DEFINE m == [kind |-> "open", file |-> f, text |-> text]
  <2>1. m \in Messages
    BY MessagesAre
  <2>2. /\ DOMAIN view' = Files /\ \A g \in Files : view'[g] \in Texts(g) \cup {Nothing}
        /\ Viewed' = Viewed \cup {f}
    BY <1>1, NoTextIsNothing, ViewedNow DEF OpenFile
  <2>3. f \notin Viewed
    BY <1>1 DEF OpenFile, Viewed
  <2>4. MayCome(Viewed, m) /\ Viewed' = After(Viewed, m)
    BY <2>2, <2>3 DEF MayCome, After
  <2>5. Told(m)
    BY <1>0, <1>1, <2>1, <2>2, <2>4 DEF Told, OpenFile, Tell, server, history
  <2> QED
    BY <2>5
<1>2. ASSUME NEW f \in Files, NEW text \in Texts(f), ChangeText(f, text)  PROVE \E m : Told(m)
  <2> DEFINE m == [kind |-> "change", file |-> f, text |-> text]
  <2>1. m \in Messages
    BY MessagesAre
  <2>2. /\ DOMAIN view' = Files /\ \A g \in Files : view'[g] \in Texts(g) \cup {Nothing}
        /\ Viewed' = Viewed \cup {f}
    BY <1>2, NoTextIsNothing, ViewedNow DEF ChangeText
  <2>3. f \in Viewed
    BY <1>2 DEF ChangeText, Viewed
  <2>4. MayCome(Viewed, m) /\ Viewed' = After(Viewed, m)
    BY <2>2, <2>3 DEF MayCome, After
  <2>5. Told(m)
    BY <1>0, <1>2, <2>1, <2>2, <2>4 DEF Told, ChangeText, Tell, server, history
  <2> QED
    BY <2>5
<1>3. ASSUME NEW f \in Files, CloseFile(f)  PROVE \E m : Told(m)
  <2> DEFINE m == [kind |-> "close", file |-> f]
  <2>1. m \in Messages
    BY MessagesAre
  <2>2. /\ DOMAIN view' = Files /\ \A g \in Files : view'[g] \in Texts(g) \cup {Nothing}
        /\ Viewed' = Viewed \ {f}
    BY <1>3, ViewedNow DEF CloseFile
  <2>3. f \in Viewed
    BY <1>3 DEF CloseFile, Viewed
  <2>4. MayCome(Viewed, m) /\ Viewed' = After(Viewed, m)
    BY <2>2, <2>3 DEF MayCome, After
  <2>5. Told(m)
    BY <1>0, <1>3, <2>1, <2>2, <2>4 DEF Told, CloseFile, Tell, server, history
  <2> QED
    BY <2>5
<1>4. ASSUME NEW f \in Files, SaveFile(f)  PROVE \E m : Told(m)
  <2> DEFINE m == [kind |-> "save"]
  <2>1. m \in Messages
    BY MessagesAre
  <2>2. DOMAIN disk' = Files /\ \A g \in Files : disk'[g] \in Texts(g)
    BY <1>0, <1>4 DEF SaveFile
  <2>3. MayCome(Viewed, m) /\ Viewed' = After(Viewed, m) /\ m.kind \in Marks
    BY <1>4 DEF MayCome, After, SaveFile, Viewed, Marks
  <2>4. Told(m)
    BY <1>0, <1>4, <2>1, <2>2, <2>3 DEF Told, SaveFile, Tell, server, history
  <2> QED
    BY <2>4
<1>5. ASSUME NEW s \in Shows, ChangeSettings(s)  PROVE \E m : Told(m)
  <2> DEFINE m == [kind |-> "configure", show |-> s]
  <2>1. m \in Messages
    BY MessagesAre
  <2>2. MayCome(Viewed, m) /\ Viewed' = After(Viewed, m)
    BY <1>5 DEF MayCome, After, ChangeSettings, Viewed
  <2>3. Told(m)
    BY <1>0, <1>5, <2>1, <2>2 DEF Told, ChangeSettings, Tell, server, history
  <2> QED
    BY <2>3
<1>6. ASSUME Ask  PROVE \E m : Told(m)
  <2> DEFINE m == [kind |-> "request"]
  <2>1. m \in Messages
    BY MessagesAre
  <2>2. MayCome(Viewed, m) /\ Viewed' = After(Viewed, m)
    BY <1>6 DEF MayCome, After, Ask, Viewed
  <2>3. Told(m)
    BY <1>0, <1>6, <2>1, <2>2 DEF Told, Ask, Tell, server, history
  <2> QED
    BY <2>3
<1> QED
  BY <1>1, <1>2, <1>3, <1>4, <1>5, <1>6 DEF Editor

LEMMA EditorKeeps ==
    ASSUME IInv, Editor
    PROVE  IInv'
<1>0. TypeInv /\ InTurn
  BY DEF IInv
<1>1. PICK m : Told(m)
  BY <1>0, EditorTells
<1>2. UNCHANGED <<docs, checked, lowered, show, screen, owed, parsed>>
  BY <1>1 DEF Told
<1>3. Open' = Open /\ Dirty' = Dirty
  BY <1>2 DEF Open, Dirty
<1>4. TypeInv'
  <2>1. queue' \in Seq(Messages) /\ Len(queue') = Len(queue) + 1 /\ Len(queue') <= MaxQueue
    BY <1>0, <1>1, BoundsAssumption DEF TypeInv, Told
  <2>2. events' \in 0..MaxEvents
    BY <1>0, <1>1, BoundsAssumption DEF TypeInv, Told
  <2>3. /\ DOMAIN disk' = Files /\ DOMAIN view' = Files
        /\ \A f \in Files : disk'[f] \in Texts(f) /\ view'[f] \in Texts(f) \cup {Nothing}
    BY <1>1 DEF Told
  <2>4. ByFile(checked)' /\ ByFile(lowered)'
    BY <1>0, <1>2 DEF TypeInv, ByFile
  <2> QED
    BY <1>0, <1>2, <1>3, <2>1, <2>2, <2>3, <2>4 DEF TypeInv
<1>5. InTurn'
  BY <1>0, <1>1, MessageSent DEF Told
<1>6. Fresh'
  <2>1. Open' \ Dirty' \subseteq DOMAIN checked'
    BY <1>2, <1>3 DEF IInv, Fresh
  <2>2. ASSUME ~Marking'
        PROVE  \A f \in Open' \ Dirty' : checked'[f] = CheckFound(f)' /\ (f \in owed' => ~Clean(f)')
    <3>1. /\ queue' = Append(queue, m) /\ queue \in Seq(Messages) /\ m \in Messages
          /\ m.kind \in Marks \/ disk' = disk
      BY <1>0, <1>1 DEF Told, TypeInv
    <3>2. /\ Len(queue') = Len(queue) + 1 /\ Len(queue) \in Nat /\ queue'[Len(queue) + 1] = m
          /\ \A i \in 1..Len(queue) : queue'[i] = queue[i]
      BY <3>1
    <3>3. ~Marking /\ m.kind \notin Marks
      BY <2>2, <3>2 DEF Marking
    <3>4. \A f \in Files : Text(f)' = Text(f)
      BY <1>2, <3>1, <3>3 DEF Text
    <3>5. \A f \in Files : CheckFound(f)' = CheckFound(f) /\ Clean(f)' = Clean(f)
      BY <3>4, SameTexts
    <3>6. Open \subseteq Files
      BY DEF Open
    <3> QED
      BY <1>2, <1>3, <3>3, <3>5, <3>6 DEF IInv, Fresh
  <2> QED
    BY <2>1, <2>2 DEF Fresh
<1>7. Owed'
  BY <1>2, <1>3 DEF IInv, Owed
<1>8. Shown'
  <2>1. Shown
    BY DEF IInv
  <2> QED
    BY <1>2, <1>3, <2>1 DEF Shown, Merged
<1>9. FindingsFollow'
  BY <1>2, <1>3 DEF IInv, FindingsFollow
<1>10. Answers'
  BY <1>2, <1>3 DEF IInv, Answers, LastGood
<1> QED
  BY <1>4, <1>5, <1>6, <1>7, <1>8, <1>9, <1>10 DEF IInv
-----------------------------------------------------------------------------
(* The analysis of the documents that are marked. *)

LEMMA DocIs ==
    ASSUME NEW f \in Files, NEW doc \in Doc(f)
    PROVE  /\ doc # Nothing /\ doc.text \in Texts(f) /\ doc.dirty \in BOOLEAN /\ doc.lower \in BOOLEAN
           /\ doc.analysis \in Analyses \cup {Nothing} /\ doc.good \in Analyses \cup {Nothing}
           /\ doc.lens \subseteq Findings /\ LastGood(doc) \in Analyses \cup {Nothing}
BY DEF Doc, Nothing, LastGood

LEMMA OpenIs ==
    ASSUME TypeInv
    PROVE  /\ Open \subseteq Files /\ Dirty \subseteq Open /\ ToCheck \subseteq Dirty
           /\ ToLower \subseteq ToCheck /\ ToForget \subseteq Dirty
           /\ \A f \in Open : docs[f] \in Doc(f)
           /\ \A f \in Files \ Open : docs[f] = Nothing
BY DEF TypeInv, Open, Dirty, ToCheck, ToLower, ToForget

LEMMA AnalysisIs ==
    ASSUME NEW f \in Files, NEW text \in Texts(f), NEW tables \in BOOLEAN
    PROVE  [text |-> text, tables |-> tables] \in Analyses /\ [text |-> text, tables |-> tables] # Nothing
<1>1. text \in AppTexts \cup LibTexts
  BY DEF Texts
<1> QED
  BY <1>1 DEF Analyses, Nothing

LEMMA CheckedIs ==
    ASSUME TypeInv, NEW f \in ToCheck
    PROVE  /\ Checked(f) \in Doc(f) /\ Checked(f).text = docs[f].text /\ Checked(f).dirty = FALSE
           /\ Checked(f).lower = LowerLater(f) /\ Checked(f).lens = LensAfter(f)
           /\ Checked(f).analysis = [text |-> docs[f].text, tables |-> Tables(f)]
           /\ Checked(f).good = IF Tables(f) THEN Nothing ELSE LastGood(docs[f])
<1>1. f \in Files /\ docs[f] \in Doc(f)
  BY OpenIs
<1>2. /\ docs[f].text \in Texts(f) /\ docs[f].lower \in BOOLEAN /\ docs[f].lens \subseteq Findings
      /\ LastGood(docs[f]) \in Analyses \cup {Nothing}
  BY <1>1, DocIs
<1>3. LensAfter(f) \in SUBSET Findings
  BY <1>1, <1>2, LensIs DEF LensAfter
<1>4. LowerLater(f) \in BOOLEAN
  BY <1>2 DEF LowerLater
<1>5. [text |-> docs[f].text, tables |-> Tables(f)] \in Analyses
  BY <1>1, <1>2, AnalysisIs DEF Tables
<1> HIDE DEF LensAfter, LowerLater
<1> DEFINE a == [text |-> docs[f].text, tables |-> Tables(f)]
           g == IF Tables(f) THEN Nothing ELSE LastGood(docs[f])
<1>6. g \in Analyses \cup {Nothing} /\ a \in Analyses \cup {Nothing}
  BY <1>2, <1>5
<1>7. Checked(f) = [docs[f] EXCEPT !.dirty = FALSE, !.lower = LowerLater(f), !.analysis = a,
                                   !.good = g, !.lens = LensAfter(f)]
  BY DEF Checked
<1> HIDE DEF a, g
<1>8. /\ Checked(f) \in Doc(f) /\ Checked(f).text = docs[f].text /\ Checked(f).dirty = FALSE
      /\ Checked(f).lower = LowerLater(f) /\ Checked(f).lens = LensAfter(f)
      /\ Checked(f).analysis = a /\ Checked(f).good = g
  BY <1>1, <1>3, <1>4, <1>6, <1>7 DEF Doc
<1> QED
  BY <1>8 DEF a, g

LEMMA CrashedIs ==
    ASSUME TypeInv, NEW f \in Dirty
    PROVE  /\ Crashed(f) \in Doc(f) /\ Crashed(f).text = docs[f].text /\ Crashed(f).dirty = FALSE
           /\ Crashed(f).lens = {} /\ Crashed(f).analysis = Nothing
           /\ Crashed(f).good = LastGood(docs[f])
<1>1. f \in Files /\ docs[f] \in Doc(f)
  BY OpenIs
<1>2. LastGood(docs[f]) \in Analyses \cup {Nothing}
  BY <1>1, DocIs
<1> DEFINE g == LastGood(docs[f])
<1>3. Crashed(f) = [docs[f] EXCEPT !.dirty = FALSE, !.lower = FALSE, !.analysis = Nothing,
                                   !.good = g, !.lens = {}]
  BY DEF Crashed
<1> HIDE DEF g
<1> QED
  BY <1>1, <1>2, <1>3 DEF Doc, g

\* Every document keeps its text; none is marked any more.
LEMMA FlushedDocs ==
    ASSUME TypeInv, Flush
    PROVE  /\ DOMAIN docs' = Files /\ Open' = Open /\ Dirty' = {}
           /\ \A f \in Files : docs'[f] \in Doc(f) \cup {Nothing}
           /\ \A f \in Open : docs'[f].text = docs[f].text
           /\ \A f \in ToCheck : docs'[f] = Checked(f)
           /\ \A f \in Dirty \ ToCheck : docs'[f] = Crashed(f)
           /\ \A f \in Files \ Dirty : docs'[f] = docs[f]
<1>1. docs' = Flushed
  BY DEF Flush
<1>2. DOMAIN docs' = Files
  BY <1>1 DEF Flushed
<1>3. \A f \in ToCheck : docs'[f] = Checked(f)
  BY <1>1, OpenIs DEF Flushed
<1>4. \A f \in Dirty \ ToCheck : docs'[f] = Crashed(f)
  BY <1>1, OpenIs DEF Flushed
<1>5. \A f \in Files \ Dirty : docs'[f] = docs[f]
  BY <1>1, OpenIs DEF Flushed
<1>6. \A f \in Open : docs'[f] \in Doc(f) /\ docs'[f].text = docs[f].text /\ docs'[f].dirty = FALSE
  <2> SUFFICES ASSUME NEW f \in Open
               PROVE  docs'[f] \in Doc(f) /\ docs'[f].text = docs[f].text /\ docs'[f].dirty = FALSE
    OBVIOUS
  <2>1. CASE f \in ToCheck
    BY <1>3, <2>1, CheckedIs
  <2>2. CASE f \in Dirty \ ToCheck
    BY <1>4, <2>2, CrashedIs
  <2>3. CASE f \notin Dirty
    <3>1. f \in Files /\ docs[f] \in Doc(f) /\ ~docs[f].dirty
      BY <2>3, OpenIs DEF Dirty
    <3>2. docs[f].dirty = FALSE
      BY <3>1, DocIs
    <3> QED
      BY <1>5, <2>3, <3>1, <3>2
  <2> QED
    BY <2>1, <2>2, <2>3, OpenIs
<1>7. \A f \in Files \ Open : docs'[f] = Nothing
  BY <1>5, OpenIs
<1>8. Open' = Open
  <2>1. \A f \in Open : docs'[f] # Nothing
    BY <1>6, DocIs, OpenIs
  <2> QED
    BY <1>7, <2>1, OpenIs DEF Open
<1>9. Dirty' = {}
  BY <1>6, <1>8 DEF Dirty
<1> QED
  BY <1>2, <1>3, <1>4, <1>5, <1>6, <1>7, <1>8, <1>9, OpenIs

LEMMA FlushedFindings ==
    ASSUME TypeInv, Flush
    PROVE  /\ DOMAIN checked' = DOMAIN checked \cup Dirty
           /\ \A f \in Dirty : checked'[f] = CheckFound(f)
           /\ \A f \in DOMAIN checked \ Dirty : checked'[f] = checked[f]
           /\ DOMAIN lowered' = (DOMAIN lowered \ ToForget) \cup ToLower
           /\ \A f \in ToLower : lowered'[f] = LowerFound(f)
           /\ \A f \in DOMAIN lowered \ (ToForget \cup ToLower) : lowered'[f] = lowered[f]
           /\ ByFile(checked)' /\ ByFile(lowered)'
<1>1. /\ DOMAIN checked' = DOMAIN checked \cup Dirty
      /\ \A f \in Dirty : checked'[f] = CheckFound(f)
      /\ \A f \in DOMAIN checked \ Dirty : checked'[f] = checked[f]
  BY DEF Flush, FlushedChecked
<1>2. /\ DOMAIN lowered' = (DOMAIN lowered \ ToForget) \cup ToLower
      /\ \A f \in ToLower : lowered'[f] = LowerFound(f)
      /\ \A f \in DOMAIN lowered \ (ToForget \cup ToLower) : lowered'[f] = lowered[f]
  BY DEF Flush, FlushedLowered
<1>3. ByFile(checked) /\ ByFile(lowered)
  BY DEF TypeInv
<1>4. \A f \in DOMAIN checked' : DOMAIN checked'[f] \subseteq Files
                                   /\ \A g \in DOMAIN checked'[f] : checked'[f][g] \subseteq Findings
  <2>1. ASSUME NEW f \in Dirty
        PROVE  DOMAIN checked'[f] \subseteq Files
                 /\ \A g \in DOMAIN checked'[f] : checked'[f][g] \subseteq Findings
    BY <1>1, CheckFoundIs, OpenIs
  <2>2. ASSUME NEW f \in DOMAIN checked \ Dirty
        PROVE  DOMAIN checked'[f] \subseteq Files
                 /\ \A g \in DOMAIN checked'[f] : checked'[f][g] \subseteq Findings
    BY <1>1, <1>3 DEF ByFile
  <2> QED
    BY <1>1, <2>1, <2>2
<1>5. \A f \in DOMAIN lowered' : DOMAIN lowered'[f] \subseteq Files
                                   /\ \A g \in DOMAIN lowered'[f] : lowered'[f][g] \subseteq Findings
  <2>1. ASSUME NEW f \in ToLower
        PROVE  DOMAIN lowered'[f] \subseteq Files
                 /\ \A g \in DOMAIN lowered'[f] : lowered'[f][g] \subseteq Findings
    BY <1>2, LowerFoundIs, OpenIs
  <2>2. ASSUME NEW f \in DOMAIN lowered \ (ToForget \cup ToLower)
        PROVE  DOMAIN lowered'[f] \subseteq Files
                 /\ \A g \in DOMAIN lowered'[f] : lowered'[f][g] \subseteq Findings
    BY <1>2, <1>3 DEF ByFile
  <2> QED
    BY <1>2, <2>1, <2>2
<1> QED
  BY <1>1, <1>2, <1>4, <1>5 DEF ByFile
LEMMA MergedIs ==
    ASSUME NEW c, NEW l, ByFile(c), ByFile(l), NEW g
    PROVE  Merged(c, l, g) \subseteq Findings
<1>1. \A f \in {e \in DOMAIN c : g \in DOMAIN c[e]} : c[f][g] \subseteq Findings
  BY DEF ByFile
<1>2. \A f \in {e \in DOMAIN l : g \in DOMAIN l[e]} : l[f][g] \subseteq Findings
  BY DEF ByFile
<1> QED
  BY <1>1, <1>2 DEF Merged

\* What is found of a file is the same when every document says the same of it.
LEMMA SameMerged ==
    ASSUME NEW c, NEW l, NEW d, NEW m, NEW g,
           \A e : (e \in DOMAIN c /\ g \in DOMAIN c[e]) <=> (e \in DOMAIN d /\ g \in DOMAIN d[e]),
           \A e : (e \in DOMAIN l /\ g \in DOMAIN l[e]) <=> (e \in DOMAIN m /\ g \in DOMAIN m[e]),
           \A e \in DOMAIN c : g \in DOMAIN c[e] => c[e][g] = d[e][g],
           \A e \in DOMAIN l : g \in DOMAIN l[e] => l[e][g] = m[e][g]
    PROVE  Merged(c, l, g) = Merged(d, m, g)
<1>1. {e \in DOMAIN c : g \in DOMAIN c[e]} = {e \in DOMAIN d : g \in DOMAIN d[e]}
  OBVIOUS
<1>2. {e \in DOMAIN l : g \in DOMAIN l[e]} = {e \in DOMAIN m : g \in DOMAIN m[e]}
  OBVIOUS
<1>3. {c[f][g] : f \in {e \in DOMAIN c : g \in DOMAIN c[e]}}
        = {d[f][g] : f \in {e \in DOMAIN d : g \in DOMAIN d[e]}}
  BY <1>1
<1>4. {l[f][g] : f \in {e \in DOMAIN l : g \in DOMAIN l[e]}}
        = {m[f][g] : f \in {e \in DOMAIN m : g \in DOMAIN m[e]}}
  BY <1>2
<1> QED
  BY <1>3, <1>4, Zenon DEF Merged

\* The screen shows everything that was found, and nothing else.
LEMMA FlushShows ==
    ASSUME TypeInv, Shown, Flush
    PROVE  \A g \in Files : screen'[g] = Merged(checked', lowered', g)
<1> SUFFICES ASSUME NEW g \in Files  PROVE screen'[g] = Merged(checked', lowered', g)
  OBVIOUS
<1>1. screen'[g] = IF g \in FilesFound THEN Merged(checked', lowered', g) ELSE screen[g]
  BY DEF Flush, Publish
<1>2. CASE g \in FilesFound
  BY <1>1, <1>2
<1>3. CASE g \notin FilesFound
  <2>1. ASSUME NEW f \in Dirty
        PROVE  /\ g \notin FilesOf(checked, f) /\ g \notin FilesOf(lowered, f)
               /\ g \notin FilesOf(checked', f) /\ g \notin FilesOf(lowered', f)
    BY <1>3 DEF FilesFound
  <2>2. ASSUME NEW f \in Dirty
        PROVE  /\ f \in DOMAIN checked => g \notin DOMAIN checked[f]
               /\ f \in DOMAIN lowered => g \notin DOMAIN lowered[f]
               /\ f \in DOMAIN checked' => g \notin DOMAIN checked'[f]
               /\ f \in DOMAIN lowered' => g \notin DOMAIN lowered'[f]
    BY <2>1 DEF FilesOf
  <2>3. screen[g] = Merged(checked, lowered, g)
    BY <2>2 DEF Shown
  <2>4. \A e : (e \in DOMAIN checked /\ g \in DOMAIN checked[e])
                 <=> (e \in DOMAIN checked' /\ g \in DOMAIN checked'[e])
    BY <2>2, FlushedFindings
  <2>5. \A e : (e \in DOMAIN lowered /\ g \in DOMAIN lowered[e])
                 <=> (e \in DOMAIN lowered' /\ g \in DOMAIN lowered'[e])
    BY <2>2, FlushedFindings, OpenIs
  <2>6. \A e \in DOMAIN checked : g \in DOMAIN checked[e] => checked[e][g] = checked'[e][g]
    BY <2>2, FlushedFindings
  <2>7. \A e \in DOMAIN lowered : g \in DOMAIN lowered[e] => lowered[e][g] = lowered'[e][g]
    BY <2>2, FlushedFindings, OpenIs
  <2>8. Merged(checked, lowered, g) = Merged(checked', lowered', g)
    BY <2>4, <2>5, <2>6, <2>7, SameMerged
  <2> QED
    BY <1>1, <1>3, <2>3, <2>8
<1> QED
  BY <1>2, <1>3

\* Findings about a text: those that are no internal error are on lines that hold what they say.
Fit(findings, text) ==
    \A d \in findings : d.what # "ice" => d.line <= Len(text) /\ text[d.line] = d.what

AllFit(findings, text) ==
    \A d \in findings : d.line <= Len(text) /\ text[d.line] = d.what

LEMMA FollowIs ==
    FindingsFollow <=>
      \A f \in Open : /\ AllFit(docs[f].lens, docs[f].text)
                      /\ f \in DOMAIN lowered /\ f \in DOMAIN lowered[f] =>
                           Fit(lowered[f][f], docs[f].text)
BY DEF FindingsFollow, Fit, AllFit

LEMMA FlushFollows ==
    ASSUME TypeInv, FindingsFollow, Flush
    PROVE  FindingsFollow'
<1>1. \A f \in Open : /\ AllFit(docs[f].lens, docs[f].text)
                      /\ f \in DOMAIN lowered /\ f \in DOMAIN lowered[f] =>
                           Fit(lowered[f][f], docs[f].text)
  BY FollowIs
<1>2. ASSUME NEW f \in Open  PROVE AllFit(docs'[f].lens, docs'[f].text)
  <2>1. docs'[f].text = docs[f].text /\ Text(f) = docs[f].text
    BY FlushedDocs, TextIs, OpenIs
  <2>2. CASE f \in ToCheck
    <3>1. docs'[f].lens = LensAfter(f)
      BY <2>2, FlushedDocs, CheckedIs
    <3>2. AllFit(Lens(f), docs[f].text)
      <4>1. Text(f) \in Seq(Kinds)
        BY TextIs, OpenIs
      <4> QED
        BY <2>1, <4>1, LensIs, OpenIs DEF AllFit
    <3>3. AllFit({}, docs[f].text)
      BY DEF AllFit
    <3> HIDE DEF AllFit
    <3> QED
      BY <1>1, <2>1, <3>1, <3>2, <3>3 DEF LensAfter
  <2>3. CASE f \in Dirty \ ToCheck
    BY <2>3, FlushedDocs, CrashedIs DEF AllFit
  <2>4. CASE f \notin Dirty
    BY <1>1, <2>4, FlushedDocs, OpenIs
  <2> QED
    BY <2>2, <2>3, <2>4
<1>3. ASSUME NEW f \in Open, f \in DOMAIN lowered', f \in DOMAIN lowered'[f]
      PROVE  Fit(lowered'[f][f], docs'[f].text)
  <2>1. docs'[f].text = docs[f].text /\ Text(f) = docs[f].text /\ Text(f) \in Seq(Kinds)
    BY FlushedDocs, TextIs, OpenIs
  <2>2. CASE f \in ToLower
    <3>1. lowered'[f] = LowerFound(f)
      BY <2>2, FlushedFindings
    <3>2. Fit(LowerFound(f)[f], Text(f))
      BY <1>3, <2>1, <3>1, LowerFoundIs, OpenIs DEF Fit
    <3> QED
      BY <2>1, <3>1, <3>2
  <2>3. CASE f \notin ToLower
    <3>1. f \in DOMAIN lowered /\ lowered'[f] = lowered[f]
      BY <1>3, <2>3, FlushedFindings
    <3> QED
      BY <1>1, <1>3, <2>1, <3>1
  <2> QED
    BY <2>2, <2>3
<1>4. Open' = Open
  BY FlushedDocs
<1> QED
  BY <1>2, <1>3, <1>4 DEF FindingsFollow, Fit, AllFit

LEMMA FlushAnswers ==
    ASSUME TypeInv, Answers, Flush
    PROVE  Answers' /\ DOMAIN parsed' = Files /\ \A f \in Files : parsed'[f] \in Texts(f) \cup {Nothing}
<1>1. /\ DOMAIN parsed' = Files
      /\ \A f \in Files : parsed'[f] = IF f \in ToCheck /\ Tables(f) THEN docs[f].text ELSE parsed[f]
  BY DEF Flush
<1>2. \A f \in Files \ Open : parsed'[f] = Nothing
  BY <1>1, OpenIs DEF Answers
<1>3. \A f \in Files : parsed'[f] \in Texts(f) \cup {Nothing}
  <2> SUFFICES ASSUME NEW f \in Files  PROVE parsed'[f] \in Texts(f) \cup {Nothing}
    OBVIOUS
  <2>1. parsed[f] \in Texts(f) \cup {Nothing}
    BY DEF TypeInv
  <2>2. f \in ToCheck => docs[f].text \in Texts(f)
    BY OpenIs, DocIs
  <2> QED
    BY <1>1, <2>1, <2>2
<1>4. ASSUME NEW f \in Open
      PROVE  LET used == LastGood(docs'[f])
             IN  IF parsed'[f] = Nothing THEN used = Nothing
                 ELSE used # Nothing /\ used.tables /\ used.text = parsed'[f]
  <2>1. LET used == LastGood(docs[f])
        IN  IF parsed[f] = Nothing THEN used = Nothing
            ELSE used # Nothing /\ used.tables /\ used.text = parsed[f]
    BY DEF Answers
  <2>2. CASE f \in ToCheck /\ Tables(f)
    <3>1. /\ docs'[f].analysis = [text |-> docs[f].text, tables |-> Tables(f)]
          /\ parsed'[f] = docs[f].text
      BY <1>1, <2>2, FlushedDocs, CheckedIs, OpenIs
    <3>2. docs[f].text \in Texts(f) /\ docs[f].text # Nothing
      BY NoTextIsNothing, OpenIs, DocIs
    <3>3. PICK text, tables : text = docs[f].text /\ tables = Tables(f)
      OBVIOUS
    <3>4. tables = TRUE
      BY <2>2, <3>3 DEF Tables
    <3>5. [text |-> text, tables |-> tables] # Nothing
      BY <3>2, <3>3, <3>4, AnalysisIs, OpenIs
    <3>6. docs'[f].analysis = [text |-> text, tables |-> tables]
      BY <3>1, <3>3
    <3>7. docs'[f].analysis # Nothing /\ docs'[f].analysis.tables /\ docs'[f].analysis.text = text
      <4>1. PICK analysis : analysis = docs'[f].analysis
        OBVIOUS
      <4>2. analysis # Nothing /\ analysis.text = text /\ analysis.tables = tables
        BY <3>5, <3>6, <4>1
      <4>3. analysis.tables
        BY <3>4, <4>2, Zenon
      <4> QED
        BY <4>1, <4>2, <4>3, Zenon
    <3> QED
      BY <3>1, <3>2, <3>3, <3>7 DEF LastGood
  <2>3. CASE f \in ToCheck /\ ~Tables(f)
    <3>1. /\ docs'[f].analysis = [text |-> docs[f].text, tables |-> Tables(f)]
          /\ docs'[f].good = LastGood(docs[f]) /\ parsed'[f] = parsed[f]
      BY <1>1, <2>3, FlushedDocs, CheckedIs, OpenIs
    <3>2. ~docs'[f].analysis.tables
      BY <2>3, <3>1
    <3>3. LastGood(docs'[f]) = LastGood(docs[f])
      BY <3>1, <3>2 DEF LastGood
    <3> QED
      BY <2>1, <3>1, <3>3
  <2>4. CASE f \in Dirty \ ToCheck
    <3>0. docs'[f] = Crashed(f)
      BY <2>4, FlushedDocs
    <3>a. Crashed(f).analysis = Nothing /\ Crashed(f).good = LastGood(docs[f])
      BY <2>4, CrashedIs
    <3>b. parsed'[f] = parsed[f]
      BY <1>1, <2>4, OpenIs
    <3>1. /\ docs'[f].analysis = Nothing
          /\ docs'[f].good = LastGood(docs[f]) /\ parsed'[f] = parsed[f]
      BY <3>0, <3>a, <3>b
    <3>2. LastGood(docs'[f]) = LastGood(docs[f])
      BY <3>1 DEF LastGood
    <3> QED
      BY <2>1, <3>1, <3>2
  <2>5. CASE f \notin Dirty
    <3>1. docs'[f] = docs[f] /\ parsed'[f] = parsed[f]
      BY <1>1, <2>5, FlushedDocs, OpenIs
    <3> QED
      BY <2>1, <3>1
  <2> QED
    BY <2>2, <2>3, <2>4, <2>5
<1>5. Open' = Open
  BY FlushedDocs
<1> QED
  BY <1>1, <1>2, <1>3, <1>4, <1>5 DEF Answers
-----------------------------------------------------------------------------
(* What every step of the server keeps. *)

ServerTypes ==
    /\ show \in Shows
    /\ \A f \in Files :
         /\ parsed[f] \in Texts(f) \cup {Nothing}
         /\ screen[f] \subseteq Findings
         /\ docs[f] \in Doc(f) \cup {Nothing}
    /\ DOMAIN parsed = Files /\ DOMAIN docs = Files
    /\ DOMAIN checked \subseteq Open /\ DOMAIN lowered \subseteq Open
    /\ ByFile(checked) /\ ByFile(lowered)

ServerInv ==
    /\ ServerTypes /\ Owed /\ Shown /\ FindingsFollow /\ Answers
    /\ Open \ Dirty \subseteq DOMAIN checked

UpToDate == \A f \in Open \ Dirty : checked[f] = CheckFound(f) /\ (f \in owed => ~Clean(f))

LEMMA ServerIs == IInv => ServerInv /\ TypeInv /\ InTurn /\ (~Marking => UpToDate)
<1>1. TypeInv => ServerTypes
  BY DEF TypeInv, ServerTypes
<1> QED
  BY <1>1 DEF IInv, ServerInv, UpToDate, Fresh

LEMMA FlushOwes ==
    ASSUME TypeInv, Owed, Flush
    PROVE  Owed' /\ \A f \in Dirty : f \in owed' => ~Clean(f)
<1>1. owed' = owed \ (ToLower \cup (Dirty \ ToCheck)) /\ owed \subseteq Open
  BY DEF Flush, Owed
<1>2. ASSUME NEW f \in owed', f \in Dirty  PROVE f \in ToCheck /\ docs[f].lower /\ ~Clean(f)
  BY <1>1, <1>2 DEF Owed, ToLower
<1>3. ASSUME NEW f \in owed'  PROVE docs'[f].lower
  <2>1. CASE f \in Dirty
    <3>1. f \in ToCheck /\ LowerLater(f)
      BY <1>2, <1>3, <2>1 DEF LowerLater
    <3>2. docs'[f] = Checked(f)
      BY <3>1, FlushedDocs
    <3>3. Checked(f).lower = LowerLater(f)
      BY <3>1, CheckedIs
    <3> QED
      BY <3>1, <3>2, <3>3, Zenon
  <2>2. CASE f \notin Dirty
    <3>1. f \in Files /\ docs[f].lower
      BY <1>1, <1>3, OpenIs DEF Owed
    <3>2. docs'[f] = docs[f]
      BY <2>2, <3>1, FlushedDocs
    <3> QED
      BY <3>1, <3>2
  <2> QED
    BY <2>1, <2>2
<1>4. Open' = Open
  BY FlushedDocs
<1> QED
  BY <1>1, <1>2, <1>3, <1>4 DEF Owed

LEMMA FlushUpToDate ==
    ASSUME TypeInv, Owed, UpToDate, Open \ Dirty \subseteq DOMAIN checked, Flush, disk' = disk
    PROVE  UpToDate'
<1>1. \A f \in Files : Text(f)' = Text(f)
  <2> SUFFICES ASSUME NEW f \in Files  PROVE Text(f)' = Text(f)
    OBVIOUS
  <2>1. CASE f \in Open
    <3>1. docs[f] # Nothing /\ docs'[f] # Nothing /\ docs'[f].text = docs[f].text
      BY <2>1, FlushedDocs DEF Open
    <3> QED
      BY <3>1 DEF Text
  <2>2. CASE f \notin Open
    <3>1. docs[f] = Nothing /\ docs'[f] = Nothing
      BY <2>2, FlushedDocs DEF Open
    <3> QED
      BY <3>1 DEF Text
  <2> QED
    BY <2>1, <2>2
<1>2. \A f \in Files : CheckFound(f)' = CheckFound(f) /\ Clean(f)' = Clean(f)
  BY <1>1, SameTexts
<1>3. ASSUME NEW f \in Open
      PROVE  checked'[f] = CheckFound(f)' /\ (f \in owed' => ~Clean(f)')
  <2>1. CASE f \in Dirty
    BY <1>2, <2>1, FlushOwes, FlushedFindings, OpenIs
  <2>2. CASE f \notin Dirty
    <3>1. f \in Files /\ checked[f] = CheckFound(f) /\ (f \in owed => ~Clean(f))
      BY <2>2, OpenIs DEF UpToDate
    <3>2. owed' \subseteq owed
      BY DEF Flush
    <3>3. f \in DOMAIN checked /\ checked'[f] = checked[f]
      BY <2>2, FlushedFindings
    <3> QED
      BY <1>2, <3>1, <3>2, <3>3
  <2> QED
    BY <2>1, <2>2
<1>4. Open' = Open
  BY FlushedDocs
<1> QED
  BY <1>3, <1>4 DEF UpToDate

LEMMA FlushKeeps ==
    ASSUME IInv, Flush, disk' = disk
    PROVE  ServerInv' /\ Open' = Open /\ (~Marking => UpToDate')
<1>1. TypeInv /\ Owed /\ Shown /\ FindingsFollow /\ Answers /\ (~Marking => UpToDate)
  BY ServerIs DEF IInv
<1>2. Open \ Dirty \subseteq DOMAIN checked
  BY DEF IInv, Fresh
<1>3. \A g \in Files : screen'[g] = Merged(checked', lowered', g)
  BY <1>1, FlushShows
<1>4. \A g \in Files : Merged(checked', lowered', g) \subseteq Findings
  BY <1>1, FlushedFindings, MergedIs
<1>5. ServerTypes'
  <2>1. show' \in Shows
    BY <1>1 DEF TypeInv, Flush
  <2>2. \A f \in Files : /\ parsed'[f] \in Texts(f) \cup {Nothing}
                         /\ screen'[f] \subseteq Findings
                         /\ docs'[f] \in Doc(f) \cup {Nothing}
    BY <1>1, <1>3, <1>4, FlushAnswers, FlushedDocs
  <2>3. DOMAIN parsed' = Files /\ DOMAIN docs' = Files
    BY <1>1, FlushAnswers, FlushedDocs
  <2>4. DOMAIN checked' \subseteq Open' /\ DOMAIN lowered' \subseteq Open'
    BY <1>1, FlushedFindings, FlushedDocs, OpenIs DEF TypeInv
  <2>5. ByFile(checked)' /\ ByFile(lowered)'
    BY <1>1, FlushedFindings
  <2> QED
    BY <2>1, <2>2, <2>3, <2>4, <2>5 DEF ServerTypes
<1>6. Owed' /\ FindingsFollow' /\ Answers'
  BY <1>1, FlushOwes, FlushFollows, FlushAnswers
<1>7. Shown'
  BY <1>3 DEF Shown
<1>8. Open' \ Dirty' \subseteq DOMAIN checked'
  BY <1>1, <1>2, FlushedDocs, FlushedFindings
<1>9. ~Marking => UpToDate'
  BY <1>1, <1>2, FlushUpToDate
<1>10. Open' = Open
  BY <1>1, FlushedDocs
<1> QED
  BY <1>5, <1>6, <1>7, <1>8, <1>9, <1>10 DEF ServerInv
-----------------------------------------------------------------------------
(* The handlers. *)

Documents(documents) == DOMAIN documents = Files /\ \A f \in Files : documents[f] \in Doc(f) \cup {Nothing}

TouchedFrom(documents) ==
    /\ DOMAIN docs' = Files /\ Open' \subseteq Files /\ Dirty' = Open'
    /\ \A f \in Files : f \in Open' <=> documents[f] # Nothing
    /\ \A f \in Files : docs'[f] \in Doc(f) \cup {Nothing}
    /\ \A f \in Open' : /\ documents[f] \in Doc(f) /\ docs'[f].text = documents[f].text
                        /\ docs'[f].lens = documents[f].lens
                        /\ LastGood(docs'[f]) = LastGood(documents[f])
                        /\ documents[f].lower \/ docs' = Touched(documents, TRUE) => docs'[f].lower

\* The documents once every open one is marked.
LEMMA TouchedIs ==
    ASSUME NEW documents, Documents(documents),
           docs' = Touched(documents, FALSE) \/ docs' = Touched(documents, TRUE)
    PROVE  TouchedFrom(documents)
<1> USE DEF Documents
<1>0. PICK lower \in BOOLEAN : docs' = Touched(documents, lower) /\ (docs' = Touched(documents, TRUE) => lower)
  <2>1. CASE docs' = Touched(documents, TRUE)
    <3>1. TRUE \in BOOLEAN
      OBVIOUS
    <3> QED
      BY <2>1, <3>1, Zenon
  <2>2. CASE docs' # Touched(documents, TRUE)
    <3>1. FALSE \in BOOLEAN /\ docs' = Touched(documents, FALSE)
      BY <2>2
    <3> QED
      BY <2>2, <3>1, Zenon
  <2> QED
    BY <2>1, <2>2
<1>1. DOMAIN docs' = Files
  BY <1>0 DEF Touched
<1>2. ASSUME NEW f \in Files, documents[f] = Nothing  PROVE docs'[f] = Nothing
  BY <1>0, <1>2 DEF Touched
<1>3. ASSUME NEW f \in Files, documents[f] # Nothing
      PROVE  /\ documents[f] \in Doc(f) /\ docs'[f] \in Doc(f) /\ docs'[f] # Nothing
             /\ docs'[f].text = documents[f].text /\ docs'[f].lens = documents[f].lens
             /\ LastGood(docs'[f]) = LastGood(documents[f])
             /\ docs'[f].lower = (documents[f].lower \/ lower) /\ docs'[f].dirty = TRUE
  <2>1. documents[f] \in Doc(f)
    BY <1>3
  <2>2. PICK doc \in Doc(f) : doc = documents[f]
    BY <2>1
  <2>3. doc.lower \in BOOLEAN
    BY DocIs
  <2>4. PICK later \in BOOLEAN : later = (doc.lower \/ lower)
    BY <2>3
  <2>5. docs'[f] = [doc EXCEPT !.dirty = TRUE, !.lower = doc.lower \/ lower]
    BY <1>0, <1>3, <2>2 DEF Touched
  <2>6. docs'[f] = [doc EXCEPT !.dirty = TRUE, !.lower = later]
    BY <2>4, <2>5, Zenon
  <2>7. /\ docs'[f] \in Doc(f) /\ docs'[f].text = doc.text /\ docs'[f].lens = doc.lens
        /\ docs'[f].analysis = doc.analysis /\ docs'[f].good = doc.good
        /\ docs'[f].lower = later /\ docs'[f].dirty = TRUE
    BY <2>2, <2>6 DEF Doc
  <2>8. docs'[f] # Nothing
    BY <2>7, DocIs
  <2>9. LastGood(docs'[f]) = LastGood(doc)
    BY <2>7 DEF LastGood
  <2>10. docs'[f].lower = (doc.lower \/ lower)
    BY <2>4, <2>7, Zenon
  <2> HIDE <2>4, <2>5, <2>6
  <2> QED
    BY <2>1, <2>2, <2>7, <2>8, <2>9, <2>10
<1>4. Open' \subseteq Files /\ \A f \in Files : f \in Open' <=> documents[f] # Nothing
  BY <1>2, <1>3 DEF Open
<1>5. Dirty' = Open'
  BY <1>3, <1>4 DEF Dirty
<1>6. \A f \in Files : docs'[f] \in Doc(f) \cup {Nothing}
  BY <1>2, <1>3
<1>7. \A f \in Open' : /\ documents[f] \in Doc(f) /\ docs'[f].text = documents[f].text
                       /\ docs'[f].lens = documents[f].lens
                       /\ LastGood(docs'[f]) = LastGood(documents[f])
                       /\ documents[f].lower \/ docs' = Touched(documents, TRUE) => docs'[f].lower
  <2> SUFFICES ASSUME NEW f \in Open'
               PROVE  /\ documents[f] \in Doc(f) /\ docs'[f].text = documents[f].text
                      /\ docs'[f].lens = documents[f].lens
                      /\ LastGood(docs'[f]) = LastGood(documents[f])
                      /\ documents[f].lower \/ docs' = Touched(documents, TRUE) => docs'[f].lower
    OBVIOUS
  <2>1. f \in Files /\ documents[f] # Nothing
    BY <1>4
  <2>2. docs'[f].lower = (documents[f].lower \/ lower)
    BY <1>3, <2>1
  <2>3. documents[f].lower \/ docs' = Touched(documents, TRUE) => docs'[f].lower
    BY <1>0, <2>2, Zenon
  <2> QED
    BY <1>3, <2>1, <2>3
<1> QED
  BY <1>1, <1>4, <1>5, <1>6, <1>7 DEF TouchedFrom

\* Nothing is claimed of documents that are all to be analysed again.
LEMMA AllMarked ==
    ASSUME Dirty' = Open'
    PROVE  UpToDate' /\ Open' \ Dirty' \subseteq DOMAIN checked'
BY DEF UpToDate

\* Saving, and a setting.
LEMMA TouchedKeeps ==
    ASSUME IInv, docs' = Touched(docs, TRUE), owed' = Open, show' \in Shows,
           UNCHANGED <<checked, lowered, screen, parsed>>
    PROVE  ServerInv' /\ Open' = Open /\ UpToDate'
<1>1. TypeInv /\ ServerInv
  BY ServerIs
<1>2. TouchedFrom(docs)
  <2>1. Documents(docs)
    BY <1>1 DEF TypeInv, Documents
  <2> QED
    BY <2>1, TouchedIs
<1>3. /\ DOMAIN docs' = Files /\ Dirty' = Open' /\ Open' \subseteq Files
      /\ \A f \in Files : f \in Open' <=> docs[f] # Nothing
      /\ \A f \in Files : docs'[f] \in Doc(f) \cup {Nothing}
      /\ \A f \in Open' : /\ docs'[f].text = docs[f].text /\ docs'[f].lens = docs[f].lens
                          /\ LastGood(docs'[f]) = LastGood(docs[f])
                          /\ docs'[f].lower
  BY <1>2 DEF TouchedFrom
<1>4. Open' = Open
  BY <1>3 DEF Open
<1>5. ServerTypes'
  BY <1>1, <1>3, <1>4 DEF ServerInv, ServerTypes, ByFile
<1>6. Owed'
  BY <1>3, <1>4 DEF Owed
<1>7. Shown'
  <2>1. Dirty \subseteq Dirty'
    BY <1>1, <1>3, <1>4, OpenIs
  <2> QED
    BY <1>1, <2>1 DEF ServerInv, Shown, Merged
<1>8. FindingsFollow'
  <2>1. \A f \in Open : docs'[f].text = docs[f].text /\ docs'[f].lens = docs[f].lens
    BY <1>3, <1>4
  <2>2. Open' = Open /\ lowered' = lowered
    BY <1>4
  <2> HIDE <1>2, <1>3
  <2> QED
    BY <1>1, <2>1, <2>2 DEF ServerInv, FindingsFollow
<1>9. Answers'
  <2>1. parsed' = parsed /\ \A f \in Open : LastGood(docs'[f]) = LastGood(docs[f])
    BY <1>3, <1>4
  <2>2. Answers
    BY <1>1 DEF ServerInv
  <2> HIDE <1>1, <1>2, <1>3
  <2> QED
    BY <1>4, <2>1, <2>2 DEF Answers
<1> QED
  BY <1>3, <1>4, <1>5, <1>6, <1>7, <1>8, <1>9, AllMarked DEF ServerInv

\* Opening a document.
LEMMA OpenedKeeps ==
    ASSUME IInv, NEW f \in Files, NEW text \in Texts(f), f \notin Open, Opened(f, text)
    PROVE  ServerInv' /\ Open' = Open \cup {f} /\ UpToDate'
<1>1. TypeInv /\ ServerInv
  BY ServerIs
<1> DEFINE new == [text |-> text, dirty |-> TRUE, lower |-> TRUE,
                   analysis |-> Nothing, good |-> Nothing, lens |-> {}]
           documents == [docs EXCEPT ![f] = new]
<1>2. DOMAIN docs = Files /\ (\A e \in Files : docs[e] \in Doc(e) \cup {Nothing})
      /\ Open \subseteq Files
  BY <1>1, OpenIs DEF TypeInv
<1>3. new \in Doc(f) /\ new.lower /\ new.lens = {} /\ new.text = text /\ LastGood(new) = Nothing
  BY DEF Doc, LastGood
<1>4. docs' = Touched(documents, FALSE) /\ owed' = owed \cup {f}
      /\ UNCHANGED <<checked, lowered, show, screen, parsed>>
  BY DEF Opened
<1> HIDE DEF new
<1>5. documents[f] = new /\ DOMAIN documents = Files /\ \A e \in Files \ {f} : documents[e] = docs[e]
  BY <1>2
<1> HIDE DEF documents
<1>6. TouchedFrom(documents)
  <2>1. Documents(documents)
    BY <1>2, <1>3, <1>5 DEF Documents
  <2> QED
    BY <1>4, <2>1, TouchedIs
<1>7. Open' = Open \cup {f} /\ Dirty' = Open'
  <2>1. new # Nothing
    BY <1>3, DocIs
  <2> QED
    BY <1>2, <1>5, <1>6, <2>1 DEF TouchedFrom, Open
<1>8. \A e \in Open : /\ docs'[e].text = docs[e].text /\ docs'[e].lens = docs[e].lens
                      /\ LastGood(docs'[e]) = LastGood(docs[e])
                      /\ docs[e].lower => docs'[e].lower
  <2>1. \A e \in Open : e \in Files \ {f} /\ e \in Open'
    BY <1>2, <1>7
  <2> QED
    BY <1>5, <1>6, <2>1 DEF TouchedFrom
<1>9. docs'[f].lens = {} /\ LastGood(docs'[f]) = Nothing /\ docs'[f].lower
  BY <1>3, <1>5, <1>6, <1>7 DEF TouchedFrom
<1>10. DOMAIN docs' = Files /\ \A e \in Files : docs'[e] \in Doc(e) \cup {Nothing}
  BY <1>6 DEF TouchedFrom
<1>11. ServerTypes'
  BY <1>1, <1>4, <1>7, <1>10 DEF ServerInv, ServerTypes, ByFile
<1>12. Owed'
  BY <1>1, <1>4, <1>7, <1>8, <1>9 DEF ServerInv, Owed
<1>13. Shown'
  <2>1. Dirty \subseteq Dirty'
    BY <1>1, <1>7, OpenIs
  <2> QED
    BY <1>1, <1>4, <2>1 DEF ServerInv, Shown, Merged
<1>14. FindingsFollow'
  <2>1. ASSUME NEW e \in Open
        PROVE  /\ AllFit(docs'[e].lens, docs'[e].text)
               /\ e \in DOMAIN lowered' /\ e \in DOMAIN lowered'[e] =>
                    Fit(lowered'[e][e], docs'[e].text)
    BY <1>1, <1>4, <1>8, FollowIs DEF ServerInv
  <2>2. AllFit(docs'[f].lens, docs'[f].text) /\ f \notin DOMAIN lowered'
    BY <1>1, <1>4, <1>9 DEF AllFit, TypeInv
  <2> QED
    BY <1>7, <2>1, <2>2 DEF FindingsFollow, Fit, AllFit
<1>15. Answers'
  <2>1. \A e \in Open : LET used == LastGood(docs[e])
                        IN  IF parsed[e] = Nothing THEN used = Nothing
                            ELSE used # Nothing /\ used.tables /\ used.text = parsed[e]
    BY <1>1 DEF ServerInv, Answers
  <2>2. \A e \in Files \ Open : parsed[e] = Nothing
    BY <1>1 DEF ServerInv, Answers
  <2> QED
    BY <1>4, <1>7, <1>8, <1>9, <2>1, <2>2 DEF Answers
<1> QED
  BY <1>7, <1>11, <1>12, <1>13, <1>14, <1>15, AllMarked DEF ServerInv

\* Closing one: what was said of its program is taken back.
LEMMA ClosedKeeps ==
    ASSUME IInv, NEW f \in Files, f \in Open, Closed(f)
    PROVE  ServerInv' /\ Open' = Open \ {f} /\ UpToDate'
<1>1. TypeInv /\ ServerInv
  BY ServerIs
<1> DEFINE documents == [docs EXCEPT ![f] = Nothing]
           files == {f} \cup FilesOf(checked, f) \cup FilesOf(lowered, f)
<1>2. DOMAIN docs = Files /\ (\A e \in Files : docs[e] \in Doc(e) \cup {Nothing})
      /\ Open \subseteq Files /\ Dirty \subseteq Open /\ DOMAIN parsed = Files
  BY <1>1, OpenIs DEF TypeInv
<1>3. /\ docs' = Touched(documents, FALSE) /\ owed' = owed \ {f}
      /\ checked' = Without(checked, f) /\ lowered' = Without(lowered, f)
      /\ parsed' = [parsed EXCEPT ![f] = Nothing] /\ show' = show /\ Publish(files)
  BY DEF Closed
<1>4. documents[f] = Nothing /\ DOMAIN documents = Files /\ \A e \in Files \ {f} : documents[e] = docs[e]
  BY <1>2
<1> HIDE DEF documents
<1>5. TouchedFrom(documents)
  <2>1. Documents(documents)
    BY <1>2, <1>4 DEF Documents
  <2> QED
    BY <1>3, <2>1, TouchedIs
<1>6. Open' = Open \ {f} /\ Dirty' = Open'
  BY <1>2, <1>4, <1>5 DEF TouchedFrom, Open
<1>7. \A e \in Open' : /\ docs'[e].text = docs[e].text /\ docs'[e].lens = docs[e].lens
                       /\ LastGood(docs'[e]) = LastGood(docs[e])
                       /\ docs[e].lower => docs'[e].lower
  <2>1. \A e \in Open' : e \in Files \ {f}
    BY <1>2, <1>6
  <2> QED
    BY <1>4, <1>5, <2>1 DEF TouchedFrom
<1>8. DOMAIN docs' = Files /\ \A e \in Files : docs'[e] \in Doc(e) \cup {Nothing}
  BY <1>5 DEF TouchedFrom
<1>9. /\ DOMAIN checked' = DOMAIN checked \ {f} /\ \A e \in DOMAIN checked' : checked'[e] = checked[e]
      /\ DOMAIN lowered' = DOMAIN lowered \ {f} /\ \A e \in DOMAIN lowered' : lowered'[e] = lowered[e]
  BY <1>3 DEF Without
<1>10. ByFile(checked') /\ ByFile(lowered')
  BY <1>1, <1>9 DEF TypeInv, ByFile
<1>11. \A g \in Files : screen'[g] = IF g \in files THEN Merged(checked', lowered', g) ELSE screen[g]
  BY <1>3 DEF Publish
<1>12. ServerTypes'
  <2>1. \A g \in Files : screen'[g] \subseteq Findings
    BY <1>1, <1>10, <1>11, MergedIs DEF TypeInv
  <2>2. DOMAIN parsed' = Files /\ \A g \in Files : parsed'[g] \in Texts(g) \cup {Nothing}
    BY <1>1, <1>3 DEF TypeInv
  <2>3. DOMAIN checked' \subseteq Open' /\ DOMAIN lowered' \subseteq Open'
    BY <1>1, <1>6, <1>9 DEF TypeInv
  <2>4. show' \in Shows
    BY <1>1, <1>3 DEF TypeInv
  <2> QED
    BY <1>8, <1>10, <2>1, <2>2, <2>3, <2>4 DEF ServerTypes, ByFile
<1>13. Owed'
  BY <1>1, <1>3, <1>6, <1>7 DEF ServerInv, Owed
<1>14. ASSUME NEW g \in Files
       PROVE  \/ screen'[g] = Merged(checked', lowered', g)
              \/ \E e \in Dirty' : e \in DOMAIN lowered' /\ g \in DOMAIN lowered'[e]
  <2>1. CASE g \in files
    BY <1>11, <2>1
  <2>2. CASE g \notin files
    <3>1. /\ f \in DOMAIN checked => g \notin DOMAIN checked[f]
          /\ f \in DOMAIN lowered => g \notin DOMAIN lowered[f]
          /\ screen'[g] = screen[g]
      BY <1>11, <2>2 DEF FilesOf
    <3>2. CASE screen[g] = Merged(checked, lowered, g)
      <4>1. \A e : (e \in DOMAIN checked /\ g \in DOMAIN checked[e])
                     <=> (e \in DOMAIN checked' /\ g \in DOMAIN checked'[e])
        BY <1>9, <3>1
      <4>2. \A e : (e \in DOMAIN lowered /\ g \in DOMAIN lowered[e])
                     <=> (e \in DOMAIN lowered' /\ g \in DOMAIN lowered'[e])
        BY <1>9, <3>1
      <4>3. \A e \in DOMAIN checked : g \in DOMAIN checked[e] => checked[e][g] = checked'[e][g]
        BY <1>9, <3>1
      <4>4. \A e \in DOMAIN lowered : g \in DOMAIN lowered[e] => lowered[e][g] = lowered'[e][g]
        BY <1>9, <3>1
      <4>5. Merged(checked, lowered, g) = Merged(checked', lowered', g)
        BY <4>1, <4>2, <4>3, <4>4, SameMerged
      <4> QED
        BY <3>1, <3>2, <4>5
    <3>3. CASE \E e \in Dirty : e \in DOMAIN lowered /\ g \in DOMAIN lowered[e]
      <4>1. PICK e \in Dirty : e \in DOMAIN lowered /\ g \in DOMAIN lowered[e]
        BY <3>3
      <4>2. e # f /\ e \in DOMAIN lowered' /\ lowered'[e] = lowered[e] /\ e \in Dirty'
        BY <1>2, <1>6, <1>9, <3>1, <4>1
      <4> QED
        BY <4>1, <4>2
    <3> QED
      BY <1>1, <3>2, <3>3 DEF ServerInv, Shown
  <2> QED
    BY <2>1, <2>2
<1>15. FindingsFollow'
  <2>1. ASSUME NEW e \in Open'
        PROVE  /\ AllFit(docs'[e].lens, docs'[e].text)
               /\ e \in DOMAIN lowered' /\ e \in DOMAIN lowered'[e] =>
                    Fit(lowered'[e][e], docs'[e].text)
    BY <1>1, <1>6, <1>7, <1>9, FollowIs DEF ServerInv
  <2> QED
    BY <2>1 DEF FindingsFollow, Fit, AllFit
<1>16. Answers'
  <2>1. \A e \in Open : LET used == LastGood(docs[e])
                        IN  IF parsed[e] = Nothing THEN used = Nothing
                            ELSE used # Nothing /\ used.tables /\ used.text = parsed[e]
    BY <1>1 DEF ServerInv, Answers
  <2>2. \A e \in Files \ Open : parsed[e] = Nothing
    BY <1>1 DEF ServerInv, Answers
  <2>3. parsed'[f] = Nothing /\ \A e \in Files \ {f} : parsed'[e] = parsed[e]
    BY <1>2, <1>3
  <2> QED
    BY <1>2, <1>6, <1>7, <2>1, <2>2, <2>3 DEF Answers
<1> QED
  BY <1>6, <1>12, <1>13, <1>14, <1>15, <1>16, AllMarked DEF ServerInv, Shown

\* Findings that follow an edit are about the new text as they were about the old.
LEMMA MovedIs ==
    ASSUME NEW a \in Seq(Kinds), NEW b \in Seq(Kinds), NEW found, found \subseteq Findings
    PROVE  /\ Moved(a, b, found) \subseteq Findings
           /\ AllFit(found, a) => AllFit(Moved(a, b, found), b)
           /\ Fit(found, a) => Fit(Moved(a, b, found), b)
<1> DEFINE Comes(d, was) == /\ d \in Findings /\ d.what = was.what
                            /\ (was.line <= Len(a) /\ a[was.line] = was.what) =>
                                 (d.line <= Len(b) /\ b[d.line] = d.what)
<1>1. ASSUME NEW d \in Moved(a, b, found)  PROVE \E was \in found : Comes(d, was)
  <2>1. PICK was \in found : Kept(a, b, was.line) /\ d = [was EXCEPT !.line = MovedLine(a, b, was.line)]
    BY <1>1 DEF Moved
  <2> DEFINE i == was.line
             j == MovedLine(a, b, i)
  <2>2. was \in [line : Nat \ {0}, what : Kinds \cup {"ice"}] /\ i \in Nat \ {0}
    BY DEF Findings
  <2>3. j \in Nat \ {0}
    <3>1. /\ SamePrefix(a, b) \in Nat /\ SameSuffix(a, b) \in Nat
          /\ SamePrefix(a, b) + SameSuffix(a, b) <= Len(b)
      BY PrefixIs, SuffixIs
    <3>2. i <= SamePrefix(a, b) \/ i > Len(a) - SameSuffix(a, b)
      BY <2>1 DEF Kept
    <3>3. j = IF i <= SamePrefix(a, b) THEN i ELSE i + Len(b) - Len(a)
      BY DEF MovedLine
    <3> HIDE DEF i, j
    <3> QED
      BY <2>2, <3>1, <3>2, <3>3
  <2>4. i <= Len(a) => j \in 1..Len(b) /\ b[j] = a[i]
    BY <2>1, <2>2, LineMoves
  <2> HIDE DEF j
  <2>5. d \in Findings /\ d.what = was.what /\ d.line = j
    BY <2>1, <2>2, <2>3 DEF Findings, j
  <2>6. Comes(d, was)
    BY <2>4, <2>5
  <2> QED
    BY <2>6
<1>2. Moved(a, b, found) \subseteq Findings
  BY <1>1
<1>3. ASSUME AllFit(found, a)  PROVE AllFit(Moved(a, b, found), b)
  BY <1>1, <1>3 DEF AllFit
<1>4. ASSUME Fit(found, a)  PROVE Fit(Moved(a, b, found), b)
  BY <1>1, <1>4 DEF Fit
<1> QED
  BY <1>2, <1>3, <1>4

\* Changing the text of a document: what lowering found of its file follows.
LEMMA ChangedKeeps ==
    ASSUME IInv, NEW f \in Files, NEW text \in Texts(f), f \in Open, Changed(f, text)
    PROVE  ServerInv' /\ Open' = Open /\ UpToDate'
<1>1. TypeInv /\ ServerInv
  BY ServerIs
<1> DEFINE old == docs[f].text
           Follow(found) == Moved(old, text, found)
           documents == [docs EXCEPT ![f].text = text, ![f].lens = Follow(@)]
<1>2. DOMAIN docs = Files /\ (\A e \in Files : docs[e] \in Doc(e) \cup {Nothing})
      /\ Open \subseteq Files /\ Dirty \subseteq Open /\ docs[f] \in Doc(f)
  BY <1>1, OpenIs DEF TypeInv
<1>3. old \in Seq(Kinds) /\ text \in Seq(Kinds)
  <2>1. old \in Texts(f)
    BY <1>2, DocIs
  <2> QED
    BY <2>1, TextsAssumption DEF Texts
<1>4. /\ docs' = Touched(documents, FALSE)
      /\ lowered' = [e \in DOMAIN lowered |-> [g \in DOMAIN lowered[e] |->
                        IF g = f THEN Follow(lowered[e][g]) ELSE lowered[e][g]]]
      /\ UNCHANGED <<checked, show, screen, owed, parsed>>
  BY DEF Changed, history
<1>5. ASSUME NEW found, found \subseteq Findings
      PROVE  /\ Follow(found) \subseteq Findings /\ (AllFit(found, old) => AllFit(Follow(found), text))
             /\ (Fit(found, old) => Fit(Follow(found), text))
  BY <1>3, <1>5, MovedIs
<1>6. DOMAIN documents = Files /\ \A e \in Files \ {f} : documents[e] = docs[e]
  BY <1>2
<1>7. documents[f] = [docs[f] EXCEPT !.text = text, !.lens = Follow(docs[f].lens)]
  <2> HIDE DEF Follow
  <2> QED
    BY <1>2 DEF Doc
<1> HIDE DEF documents, Follow
<1>8. /\ documents[f] \in Doc(f) /\ documents[f].text = text
      /\ documents[f].lens = Follow(docs[f].lens) /\ documents[f].lower = docs[f].lower
      /\ LastGood(documents[f]) = LastGood(docs[f])
  <2> DEFINE lens == Follow(docs[f].lens)
  <2>1. lens \in SUBSET Findings
    BY <1>2, <1>5, DocIs
  <2>2. documents[f] = [docs[f] EXCEPT !.text = text, !.lens = lens]
    BY <1>7
  <2> HIDE DEF lens
  <2>3. /\ documents[f] \in Doc(f) /\ documents[f].text = text
        /\ documents[f].lens = lens /\ documents[f].lower = docs[f].lower
        /\ documents[f].analysis = docs[f].analysis /\ documents[f].good = docs[f].good
    BY <1>2, <2>1, <2>2 DEF Doc
  <2>4. LastGood(documents[f]) = LastGood(docs[f])
    BY <2>3 DEF LastGood
  <2> QED
    BY <2>3, <2>4 DEF lens
<1>9. TouchedFrom(documents)
  <2>1. Documents(documents)
    BY <1>2, <1>6, <1>8 DEF Documents
  <2> QED
    BY <1>4, <2>1, TouchedIs
<1>10. Open' = Open /\ Dirty' = Open'
  <2>1. documents[f] # Nothing /\ docs[f] # Nothing
    BY <1>2, <1>8, DocIs
  <2> QED
    BY <1>2, <1>6, <1>9, <2>1 DEF TouchedFrom, Open
<1>11. \A e \in Open : /\ docs'[e].lens = documents[e].lens /\ docs'[e].text = documents[e].text
                       /\ LastGood(docs'[e]) = LastGood(docs[e])
                       /\ docs[e].lower => docs'[e].lower
  BY <1>2, <1>6, <1>8, <1>9, <1>10 DEF TouchedFrom
<1>12. /\ DOMAIN lowered' = DOMAIN lowered
       /\ \A e \in DOMAIN lowered :
            /\ DOMAIN lowered'[e] = DOMAIN lowered[e]
            /\ \A g \in DOMAIN lowered[e] :
                 lowered'[e][g] = IF g = f THEN Follow(lowered[e][g]) ELSE lowered[e][g]
  BY <1>4
<1>13. ByFile(lowered')
  BY <1>1, <1>5, <1>12 DEF TypeInv, ByFile
<1>14. DOMAIN docs' = Files /\ \A e \in Files : docs'[e] \in Doc(e) \cup {Nothing}
  BY <1>9 DEF TouchedFrom
<1>15. ServerTypes'
  <2>1. ByFile(checked)' /\ ByFile(lowered)'
    BY <1>1, <1>4, <1>13 DEF TypeInv, ByFile
  <2>2. DOMAIN checked' \subseteq Open' /\ DOMAIN lowered' \subseteq Open'
    BY <1>1, <1>4, <1>10, <1>12 DEF TypeInv
  <2> QED
    BY <1>1, <1>4, <1>14, <2>1, <2>2 DEF ServerInv, ServerTypes
<1>16. Owed'
  BY <1>1, <1>4, <1>10, <1>11 DEF ServerInv, Owed
<1>17. ASSUME NEW g \in Files
       PROVE  \/ screen'[g] = Merged(checked', lowered', g)
              \/ \E e \in Dirty' : e \in DOMAIN lowered' /\ g \in DOMAIN lowered'[e]
  <2>1. CASE \E e \in DOMAIN lowered : g \in DOMAIN lowered[e]
    BY <1>1, <1>10, <1>12, <2>1 DEF TypeInv
  <2>2. CASE ~\E e \in DOMAIN lowered : g \in DOMAIN lowered[e]
    <3>1. screen[g] = Merged(checked, lowered, g)
      BY <1>1, <2>2 DEF ServerInv, Shown
    <3>2. Merged(checked, lowered, g) = Merged(checked, lowered', g)
      <4>1. \A e : (e \in DOMAIN lowered /\ g \in DOMAIN lowered[e])
                     <=> (e \in DOMAIN lowered' /\ g \in DOMAIN lowered'[e])
        BY <1>12
      <4>2. \A e \in DOMAIN lowered : g \in DOMAIN lowered[e] => lowered[e][g] = lowered'[e][g]
        BY <2>2
      <4> QED
        BY <4>1, <4>2, SameMerged
    <3>3. Merged(checked, lowered', g) = Merged(checked', lowered', g)
      BY <1>4
    <3> QED
      BY <1>4, <3>1, <3>2, <3>3
  <2> QED
    BY <2>1, <2>2
<1>18. FindingsFollow'
  <2>1. \A e \in Open : /\ AllFit(docs[e].lens, docs[e].text)
                        /\ e \in DOMAIN lowered /\ e \in DOMAIN lowered[e] =>
                             Fit(lowered[e][e], docs[e].text)
    BY <1>1, FollowIs DEF ServerInv
  <2>2. ASSUME NEW e \in Open, e # f
        PROVE  /\ AllFit(docs'[e].lens, docs'[e].text)
               /\ e \in DOMAIN lowered' /\ e \in DOMAIN lowered'[e] =>
                    Fit(lowered'[e][e], docs'[e].text)
    BY <1>2, <1>6, <1>11, <1>12, <2>1, <2>2
  <2>3. /\ AllFit(docs'[f].lens, docs'[f].text)
        /\ f \in DOMAIN lowered' /\ f \in DOMAIN lowered'[f] =>
             Fit(lowered'[f][f], docs'[f].text)
    <3>1. docs[f].lens \subseteq Findings
      BY <1>2, DocIs
    <3>2. f \in DOMAIN lowered /\ f \in DOMAIN lowered[f] => lowered[f][f] \subseteq Findings
      BY <1>1 DEF TypeInv, ByFile
    <3>3. docs'[f].lens = Follow(docs[f].lens) /\ docs'[f].text = text
      BY <1>8, <1>11
    <3>4. AllFit(Follow(docs[f].lens), text)
      BY <1>5, <2>1, <3>1
    <3>5. f \in DOMAIN lowered /\ f \in DOMAIN lowered[f] => Fit(Follow(lowered[f][f]), text)
      BY <1>5, <2>1, <3>2
    <3> QED
      BY <1>12, <3>3, <3>4, <3>5
  <2>4. \A e \in Open : /\ AllFit(docs'[e].lens, docs'[e].text)
                        /\ e \in DOMAIN lowered' /\ e \in DOMAIN lowered'[e] =>
                             Fit(lowered'[e][e], docs'[e].text)
    BY <2>2, <2>3
  <2> QED
    BY <1>10, <2>4 DEF FindingsFollow, Fit, AllFit
<1>19. Answers'
  BY <1>1, <1>4, <1>10, <1>11 DEF ServerInv, Answers
<1> QED
  BY <1>10, <1>15, <1>16, <1>17, <1>18, <1>19, AllMarked DEF ServerInv, Shown
-----------------------------------------------------------------------------
(* The steps. *)

\* What a message does to the server, whichever it is.
LEMMA HandleKeeps ==
    ASSUME IInv, NEW m \in Messages, MayCome(Open, m), Handle(m), disk' = disk
    PROVE  /\ ServerInv' /\ Open' = After(Open, m)
           /\ UpToDate' \/ (m.kind \notin Marks /\ (~Marking => UpToDate'))
<1>1. CASE m.kind = "open" /\ Opened(m.file, m.text)
  <2>1. m.file \in Files /\ m.text \in Texts(m.file) /\ m.file \notin Open
    BY <1>1, MessageIs DEF MayCome
  <2> QED
    BY <1>1, <2>1, OpenedKeeps DEF After
<1>2. CASE m.kind = "change" /\ Changed(m.file, m.text)
  <2>1. m.file \in Files /\ m.text \in Texts(m.file) /\ m.file \in Open
    BY <1>2, MessageIs DEF MayCome
  <2> QED
    BY <1>2, <2>1, ChangedKeeps DEF After
<1>3. CASE m.kind = "save" /\ Saved
  <2>1. show \in Shows
    BY ServerIs DEF TypeInv
  <2>2. ServerInv' /\ Open' = Open /\ UpToDate'
    BY <1>3, <2>1, TouchedKeeps DEF Saved
  <2> QED
    BY <1>3, <2>2 DEF After
<1>4. CASE m.kind = "close" /\ Closed(m.file)
  <2>1. m.file \in Files /\ m.file \in Open
    BY <1>4, MessageIs DEF MayCome
  <2> QED
    BY <1>4, <2>1, ClosedKeeps DEF After
<1>5. CASE m.kind = "configure" /\ Configured(m.show)
  <2>1. m.show \in Shows
    BY <1>5, MessageIs
  <2>2. ServerInv' /\ Open' = Open /\ UpToDate'
    BY <1>5, <2>1, TouchedKeeps DEF Configured
  <2> QED
    BY <1>5, <2>2 DEF After
<1>6. CASE m.kind = "request" /\ Answered
  BY <1>6, FlushKeeps DEF Answered, After, Marks
<1> QED
  BY <1>1, <1>2, <1>3, <1>4, <1>5, <1>6 DEF Handle

\* What the server and the editor keep each is all of the invariant.
LEMMA Together ==
    ASSUME TypeInv, ServerInv', InTurn', ~Marking' => UpToDate',
           queue' \in Seq(Messages), Len(queue') <= MaxQueue, UNCHANGED editor
    PROVE  IInv'
<1>1. TypeInv'
  BY DEF TypeInv, ServerInv, ServerTypes, editor
<1>2. Fresh'
  BY DEF Fresh, UpToDate, ServerInv
<1> QED
  BY <1>1, <1>2 DEF IInv, ServerInv

LEMMA ReceiveKeeps ==
    ASSUME IInv, Receive
    PROVE  IInv'
<1>1. TypeInv /\ InTurn
  BY ServerIs
<1>2. queue # <<>> /\ queue' = Tail(queue) /\ Handle(Head(queue)) /\ UNCHANGED editor
      /\ disk' = disk /\ view' = view
  BY DEF Receive, editor
<1>3. /\ Head(queue) \in Messages /\ MayCome(Open, Head(queue))
      /\ queue' \in Seq(Messages) /\ Len(queue') = Len(queue) - 1
      /\ Open' = After(Open, Head(queue)) => InTurn'
      /\ ~Marking' /\ Head(queue).kind \notin Marks => ~Marking
  BY <1>1, <1>2, MessageTaken
<1>4. /\ ServerInv' /\ Open' = After(Open, Head(queue))
      /\ UpToDate' \/ (Head(queue).kind \notin Marks /\ (~Marking => UpToDate'))
  BY <1>2, <1>3, HandleKeeps
<1>5. Len(queue') <= MaxQueue
  BY <1>1, <1>3, BoundsAssumption DEF TypeInv
<1> QED
  BY <1>1, <1>2, <1>3, <1>4, <1>5, Together

LEMMA RestKeeps ==
    ASSUME IInv, Rest
    PROVE  IInv'
<1>1. TypeInv /\ InTurn
  BY ServerIs
<1>2. queue = <<>> /\ Flush /\ UNCHANGED <<editor, queue>> /\ disk' = disk /\ view' = view
  BY DEF Rest, editor
<1>3. ServerInv' /\ Open' = Open /\ (~Marking => UpToDate')
  BY <1>2, FlushKeeps
<1>4. ~Marking
  BY <1>2 DEF Marking
<1>5. InTurn'
  BY <1>1, <1>2, <1>3 DEF InTurn
<1> QED
  BY <1>1, <1>2, <1>3, <1>4, <1>5, Together DEF TypeInv

LEMMA StepsKeep == IInv /\ [Next]_vars => IInv'
<1> SUFFICES ASSUME IInv, [Next]_vars  PROVE IInv'
  OBVIOUS
<1>1. CASE Editor
  BY <1>1, EditorKeeps
<1>2. CASE Receive
  BY <1>2, ReceiveKeeps
<1>3. CASE Rest
  BY <1>3, RestKeeps
<1>4. CASE UNCHANGED vars
  <2>1. TypeInv /\ ServerInv /\ InTurn /\ (~Marking => UpToDate)
    BY ServerIs
  <2>2. UNCHANGED <<disk, view, events, queue, docs, checked, lowered, show, screen, owed, parsed>>
    BY <1>4 DEF vars, editor, server, history
  <2>3. Open' = Open /\ Dirty' = Dirty
    BY <2>2 DEF Open, Dirty
  <2>4. \A f \in Files : Text(f)' = Text(f)
    BY <2>2 DEF Text
  <2>5. ~Marking' => UpToDate'
    BY <2>1, <2>2, <2>3, <2>4, SameTexts, OpenIs DEF Marking, UpToDate
  <2>6. InTurn'
    BY <2>1, <2>2, <2>3 DEF InTurn
  <2>7. ServerTypes'
    BY <2>1, <2>2, <2>3 DEF ServerInv, ServerTypes, ByFile
  <2>8. Owed' /\ FindingsFollow' /\ Answers'
    BY <2>1, <2>2, <2>3 DEF ServerInv, Owed, FindingsFollow, Answers, LastGood
  <2>9. Shown'
    BY <2>1, <2>2, <2>3 DEF ServerInv, Shown, Merged
  <2>10. ServerInv'
    BY <2>1, <2>2, <2>3, <2>7, <2>8, <2>9 DEF ServerInv
  <2> QED
    BY <2>1, <2>2, <2>5, <2>6, <2>10, Together DEF TypeInv, editor
<1> QED
  BY <1>1, <1>2, <1>3, <1>4 DEF Next

LEMMA InitIs == Init => IInv
<1> SUFFICES ASSUME Init  PROVE IInv
  OBVIOUS
<1>1. Open = {} /\ Dirty = {}
  BY DEF Init, Open, Dirty
<1>2. TypeInv
  <2>1. disk \in Disks /\ DOMAIN disk = Files /\ \A f \in Files : disk[f] \in Texts(f)
    BY TextsAssumption DEF Init
  <2>2. queue = <<>> /\ queue \in Seq(Messages) /\ Len(queue) <= MaxQueue /\ events \in 0..MaxEvents
    BY BoundsAssumption DEF Init
  <2>3. DOMAIN checked = {} /\ DOMAIN lowered = {}
    BY DEF Init
  <2>4. ByFile(checked) /\ ByFile(lowered)
    BY <2>3 DEF ByFile
  <2> QED
    BY <2>1, <2>2, <2>3, <2>4 DEF Init, TypeInv
<1>3. InTurn
  <2> DEFINE open == [i \in 0..0 |-> {}]
  <2>1. open \in [0..Len(queue) -> SUBSET Files] /\ open[0] = {} /\ Len(queue) = 0
    BY DEF Init
  <2>2. {f \in Files : view[f] # Nothing} = {}
    BY DEF Init
  <2>3. 1..Len(queue) = {}
    BY <2>1
  <2> HIDE DEF open
  <2> QED
    BY <1>1, <2>1, <2>2, <2>3 DEF InTurn
<1>4. Fresh /\ Owed /\ FindingsFollow /\ Answers
  BY <1>1 DEF Init, Fresh, Owed, FindingsFollow, Answers
<1>5. Shown
  <2>1. DOMAIN checked = {} /\ DOMAIN lowered = {}
    BY DEF Init
  <2>2. \A g \in Files : Merged(checked, lowered, g) = {} /\ screen[g] = {}
    BY <2>1 DEF Init, Merged
  <2> QED
    BY <2>2 DEF Shown
<1> QED
  BY <1>2, <1>3, <1>4, <1>5 DEF IInv

LEMMA ShownIs == IInv => EditorIsShownWhatHolds
<1> SUFFICES ASSUME IInv  PROVE EditorIsShownWhatHolds
  OBVIOUS
<1>1. TypeInv /\ ServerInv /\ (~Marking => UpToDate)
  BY ServerIs
<1>2. \A f \in Open : docs[f] \in Doc(f)
  BY <1>1, OpenIs
<1>3. TypeOK
  <2>1. \A f \in Open : /\ docs[f].text \in Texts(f) /\ docs[f].lens \subseteq Findings
                        /\ {docs[f].analysis, docs[f].good} \subseteq Analyses \cup {Nothing}
    BY <1>1, <1>2, DocIs, OpenIs
  <2>2. owed \subseteq Open /\ Open \ Dirty \subseteq DOMAIN checked
    BY <1>1 DEF ServerInv, Owed
  <2> QED
    BY <1>1, <2>1, <2>2 DEF TypeInv, TypeOK
<1>4. ASSUME AtRest
      PROVE  /\ \A f \in Open : checked[f] = CheckFound(f) /\ (f \in owed => ~Clean(f))
             /\ \A g \in Files : screen[g] = Merged(checked, lowered, g)
  <2>1. ~Marking /\ Dirty = {}
    BY <1>4 DEF AtRest, Marking
  <2> QED
    BY <1>1, <2>1 DEF UpToDate, ServerInv, Shown
<1>5. ScreenUpToDate
  BY <1>4 DEF ScreenUpToDate
<1>6. SavedIsLowered
  BY <1>1, <1>4 DEF SavedIsLowered, ServerInv, Owed
<1>7. FindingsFollow /\ HoverAnswers
  BY <1>1 DEF ServerInv, Answers, HoverAnswers
<1> QED
  BY <1>3, <1>5, <1>6, <1>7 DEF EditorIsShownWhatHolds

\* Whatever the texts, the disk, the settings and the order of the editor's
\* messages: once the server rests (server.rs: flush), the screen shows what
\* the programs of the open documents have in each file as they are, and no
\* document opened or saved that is clean waits to be lowered; findings of
\* lowering stay on their lines through every edit (shift.rs); and hover has
\* the last analysis with tables to answer from, through texts that do not
\* parse and checks that panic (docs.rs).
THEOREM LspShowsWhatHolds == Spec => []EditorIsShownWhatHolds
<1>1. Init => IInv
  BY InitIs
<1>2. IInv /\ [Next]_vars => IInv'
  BY StepsKeep
<1>3. IInv => EditorIsShownWhatHolds
  BY ShownIs
<1> QED
  BY <1>1, <1>2, <1>3, PTL DEF Spec
-----------------------------------------------------------------------------
(***************************************************************************)
(* Ranges (kir/src/range/interval.rs): they hold what the operators of the *)
(* language give, for types of every width.  The argument is that each     *)
(* operator moves one way in each operand, on each side of 0 for a         *)
(* divisor, so its extremes are at the ends that the code looks at.        *)
(***************************************************************************)

\* Ranges, and the types of the language: unsigned ones, and signed ones with
\* one negative value more.
IntRanges == [lo : Int, hi : Int]
IntTypes == {ty \in [lo : Int, hi : Int, bits : Nat] : ty.hi >= 0 /\ ty.lo \in {0, -ty.hi - 1}}

USE DEF Interval, Has, FitsIn, Least, Greatest

\* A join holds what either range holds.
LEMMA JoinHolds ==
    ASSUME NEW a \in IntRanges, NEW b \in IntRanges, NEW x \in Int, Has(a, x) \/ Has(b, x)
    PROVE  Join(a, b) \in IntRanges /\ Has(Join(a, b), x)
BY DEF Join, IntRanges

\* A meet holds what both hold, and is not empty then.
LEMMA MeetHolds ==
    ASSUME NEW a \in IntRanges, NEW b \in IntRanges, NEW x \in Int, Has(a, x), Has(b, x)
    PROVE  Meets(a, b) /\ Meet(a, b) \in IntRanges /\ Has(Meet(a, b), x)
BY DEF Meets, Meet, IntRanges

\* A widened range holds what the old and the new one hold.
LEMMA WidenHolds ==
    ASSUME NEW a \in IntRanges, NEW new \in IntRanges, NEW ty \in IntTypes, NEW x \in Int, Has(a, x) \/ Has(new, x)
    PROVE  Has(Widen(a, new, ty), x)
BY DEF Widen, IntRanges, IntTypes

\* What a result wraps to is of the type.
LEMMA WrappedFits ==
    ASSUME NEW ty \in IntTypes, NEW v \in Int
    PROVE  Wrapped(v, ty) \in Int /\ Has(ty, Wrapped(v, ty))
<1> DEFINE n == ty.hi - ty.lo + 1
           m == (v - ty.lo) % n
<1>1. n \in Int /\ n > 0 /\ ty.lo \in Int /\ ty.hi \in Int
  BY DEF IntTypes
<1>2. m \in 0..(n - 1)
  BY <1>1
<1>3. Wrapped(v, ty) = ty.lo + m
  BY DEF Wrapped
<1> HIDE DEF m
<1> QED
  BY <1>1, <1>2, <1>3

\* If a range holds the exact result, the settled one holds the result, with
\* its check and without.
LEMMA SettleHolds ==
    ASSUME NEW ty \in IntTypes, NEW exact \in IntRanges, NEW v \in Int, Has(exact, v)
    PROVE  Holds(v, exact, ty)
<1>1. ASSUME Has(ty, v), NEW tested \in BOOLEAN  PROVE Has(Settle(exact, ty, tested), v)
  BY <1>1 DEF Settle, Clip, Meets, Meet, OfType, IntRanges, IntTypes
<1>2. ASSUME ~Has(ty, v)  PROVE ~FitsIn(exact, ty) /\ Has(Settle(exact, ty, FALSE), Wrapped(v, ty))
  <2>1. ~FitsIn(exact, ty)
    BY <1>2 DEF IntRanges, IntTypes
  <2> QED
    BY <2>1, WrappedFits DEF Settle, OfType
<1> QED
  BY <1>1, <1>2 DEF Holds

\* Sums, differences and negations.
LEMMA AddHolds ==
    ASSUME NEW a \in IntRanges, NEW b \in IntRanges, NEW x \in Int, NEW y \in Int, Has(a, x), Has(b, y)
    PROVE  /\ Add(a, b) \in IntRanges /\ Has(Add(a, b), x + y)
           /\ Sub(a, b) \in IntRanges /\ Has(Sub(a, b), x - y)
           /\ Neg(a) \in IntRanges /\ Has(Neg(a), -x)
BY DEF Add, Sub, Neg, IntRanges

\* Numbers of which one is the least and one the greatest.
HasEnds(S) ==
    /\ S \subseteq Int
    /\ \E x \in S : \A y \in S : x <= y
    /\ \E x \in S : \A y \in S : x >= y

\* The hull of such numbers holds them.
LEMMA HullHolds ==
    ASSUME NEW S, HasEnds(S)
    PROVE  Hull(S) \in IntRanges /\ \A y \in S : Has(Hull(S), y)
<1>1. LeastIn(S) \in S /\ \A y \in S : LeastIn(S) <= y
  BY DEF HasEnds, LeastIn
<1>2. GreatestIn(S) \in S /\ \A y \in S : GreatestIn(S) >= y
  BY DEF HasEnds, GreatestIn
<1>3. LeastIn(S) \in Int /\ GreatestIn(S) \in Int
  BY <1>1, <1>2 DEF HasEnds
<1>4. Hull(S) = [lo |-> LeastIn(S), hi |-> GreatestIn(S)]
  BY DEF Hull
<1> QED
  BY <1>1, <1>2, <1>3, <1>4 DEF IntRanges

\* Four numbers have a least and a greatest.
LEMMA FourHaveEnds ==
    ASSUME NEW p \in Int, NEW q \in Int, NEW r \in Int, NEW s \in Int
    PROVE  HasEnds({p, q, r, s})
BY DEF HasEnds

\* And so has a union of sets that do.
LEMMA UnionHasEnds ==
    ASSUME NEW S, NEW T, HasEnds(S), HasEnds(T)
    PROVE  HasEnds(S \cup T)
<1>1. PICK l \in S, m \in T : (\A y \in S : l <= y) /\ (\A y \in T : m <= y)
  BY DEF HasEnds
<1>2. PICK g \in S, h \in T : (\A y \in S : g >= y) /\ (\A y \in T : h >= y)
  BY DEF HasEnds
<1>3. S \subseteq Int /\ T \subseteq Int
  BY DEF HasEnds
<1>4. \E x \in S \cup T : \A y \in S \cup T : x <= y
  <2>1. CASE l <= m
    BY <1>1, <1>3, <2>1
  <2>2. CASE m <= l
    BY <1>1, <1>3, <2>2
  <2> QED
    BY <1>1, <1>3, <2>1, <2>2
<1>5. \E x \in S \cup T : \A y \in S \cup T : x >= y
  <2>1. CASE g >= h
    BY <1>2, <1>3, <2>1
  <2>2. CASE h >= g
    BY <1>2, <1>3, <2>2
  <2> QED
    BY <1>2, <1>3, <2>1, <2>2
<1> QED
  BY <1>3, <1>4, <1>5 DEF HasEnds

\* A product does not leave the corners' when one factor stays.
LEMMA ProductBetween ==
    ASSUME NEW x \in Int, NEW l \in Int, NEW h \in Int, NEW y \in Int, l <= x, x <= h
    PROVE  \/ l * y <= x * y /\ x * y <= h * y
           \/ h * y <= x * y /\ x * y <= l * y
<1>1. CASE y >= 0
  <2>1. (x - l) * y >= 0 /\ (h - x) * y >= 0
    BY <1>1
  <2> QED
    BY <2>1
<1>2. CASE y < 0
  <2>1. (x - l) * (-y) >= 0 /\ (h - x) * (-y) >= 0
    BY <1>2
  <2> QED
    BY <2>1
<1> QED
  BY <1>1, <1>2

\* A product lies between those of the corners.
LEMMA MulHolds ==
    ASSUME NEW a \in IntRanges, NEW b \in IntRanges, NEW x \in Int, NEW y \in Int, Has(a, x), Has(b, y)
    PROVE  Mul(a, b) \in IntRanges /\ Has(Mul(a, b), x * y)
<1> DEFINE p == a.lo * b.lo  q == a.lo * b.hi  r == a.hi * b.lo  s == a.hi * b.hi
<1>0. a.lo \in Int /\ a.hi \in Int /\ b.lo \in Int /\ b.hi \in Int
  BY DEF IntRanges
<1>1. p \in Int /\ q \in Int /\ r \in Int /\ s \in Int /\ x * y \in Int /\ a.lo * y \in Int /\ a.hi * y \in Int
  BY <1>0
<1>2. {u * v : u \in Ends(a), v \in Ends(b)} = {p, q, r, s}
  BY DEF Ends
<1>3. \/ a.lo * y <= x * y /\ x * y <= a.hi * y
      \/ a.hi * y <= x * y /\ x * y <= a.lo * y
  BY <1>0, ProductBetween
<1>4. \/ p <= a.lo * y /\ a.lo * y <= q
      \/ q <= a.lo * y /\ a.lo * y <= p
  BY <1>0, ProductBetween
<1>5. \/ r <= a.hi * y /\ a.hi * y <= s
      \/ s <= a.hi * y /\ a.hi * y <= r
  BY <1>0, ProductBetween
<1>6. Hull({p, q, r, s}) \in IntRanges /\ \A w \in {p, q, r, s} : Has(Hull({p, q, r, s}), w)
  BY <1>1, FourHaveEnds, HullHolds
<1>7. Mul(a, b) = Hull({p, q, r, s})
  <2> DEFINE corners == {u * v : u \in Ends(a), v \in Ends(b)}
  <2>1. Mul(a, b) = Hull(corners)
    BY DEF Mul
  <2>2. corners = {p, q, r, s}
    BY <1>2
  <2> HIDE DEF corners, p, q, r, s
  <2> QED
    BY <2>1, <2>2
<1> DEFINE hull == Hull({p, q, r, s})
<1> DEFINE m == x * y   lo == a.lo * y   hi == a.hi * y
<1>8. hull.lo \in Int /\ hull.hi \in Int /\ hull.lo <= p /\ hull.lo <= q /\ hull.lo <= r /\ hull.lo <= s
      /\ hull.hi >= p /\ hull.hi >= q /\ hull.hi >= r /\ hull.hi >= s
  BY <1>6 DEF IntRanges
<1> HIDE DEF hull, m, lo, hi, p, q, r, s
<1>9. hull.lo <= m /\ m <= hull.hi
  <2>1. m \in Int /\ lo \in Int /\ hi \in Int /\ p \in Int /\ q \in Int /\ r \in Int /\ s \in Int
    BY <1>1 DEF m, lo, hi
  <2>2. /\ \/ lo <= m /\ m <= hi
           \/ hi <= m /\ m <= lo
        /\ \/ p <= lo /\ lo <= q
           \/ q <= lo /\ lo <= p
        /\ \/ r <= hi /\ hi <= s
           \/ s <= hi /\ hi <= r
    BY <1>3, <1>4, <1>5 DEF m, lo, hi
  <2> QED
    BY <1>8, <2>1, <2>2
<1> QED
  BY <1>6, <1>7, <1>9 DEF m, hull

\* What the quotient of naturals is.
LEMMA DivNat ==
    ASSUME NEW n \in Nat, NEW d \in Nat \ {0}
    PROVE  n \div d \in Nat /\ (n \div d) * d <= n /\ n < (n \div d + 1) * d
OBVIOUS

\* It grows with the number divided.
LEMMA DivGrows ==
    ASSUME NEW n \in Nat, NEW m \in Nat, n <= m, NEW d \in Nat \ {0}
    PROVE  n \div d <= m \div d
<1> DEFINE q == n \div d  p == m \div d
<1>1. q \in Nat /\ q * d <= n /\ p \in Nat /\ m < (p + 1) * d
  BY DivNat
<1> HIDE DEF q, p
<1>2. ASSUME q >= p + 1  PROVE FALSE
  <2>1. q * d >= (p + 1) * d
    BY <1>1, <1>2
  <2> QED
    BY <1>1, <2>1
<1>3. q <= p
  BY <1>1, <1>2
<1> QED
  BY <1>3 DEF q, p

\* It shrinks as the divisor grows.
LEMMA DivShrinks ==
    ASSUME NEW n \in Nat, NEW d \in Nat \ {0}, NEW e \in Nat, d <= e
    PROVE  n \div e <= n \div d
<1> DEFINE q == n \div e  p == n \div d
<1>1. q \in Nat /\ q * e <= n /\ p \in Nat /\ n < (p + 1) * d
  BY DivNat
<1> HIDE DEF q, p
<1>2. ASSUME q >= p + 1  PROVE FALSE
  <2>1. q * d >= (p + 1) * d
    BY <1>1, <1>2
  <2>2. q * e >= q * d
    BY <1>1
  <2> QED
    BY <1>1, <2>1, <2>2
<1>3. q <= p
  BY <1>1, <1>2
<1> QED
  BY <1>3 DEF q, p

\* Whole division, towards zero, by the signs of its operands.
LEMMA WholeOf ==
    ASSUME NEW n \in Nat, NEW d \in Nat \ {0}
    PROVE  /\ Whole(n, d) = n \div d
           /\ Whole(-n, d) = -(n \div d)
           /\ Whole(n, -d) = -(n \div d)
           /\ Whole(-n, -d) = n \div d
           /\ n \div d \in Nat
<1> DEFINE q == n \div d
<1>1. q \in Nat /\ (n = 0 => q = 0)
  BY DivNat
<1>2. Abs(n) = n /\ Abs(-n) = n /\ Abs(d) = d /\ Abs(-d) = d
  BY DEF Abs
<1> HIDE DEF q
<1>3. /\ Whole(n, d) = IF (n < 0) = (d < 0) THEN q ELSE -q
      /\ Whole(-n, d) = IF (-n < 0) = (d < 0) THEN q ELSE -q
      /\ Whole(n, -d) = IF (n < 0) = (-d < 0) THEN q ELSE -q
      /\ Whole(-n, -d) = IF (-n < 0) = (-d < 0) THEN q ELSE -q
  BY <1>2 DEF Whole, q
<1> QED
  BY <1>1, <1>3 DEF q

\* It is a number.
LEMMA WholeIsInt ==
    ASSUME NEW x \in Int, NEW y \in Int, y # 0
    PROVE  Whole(x, y) \in Int
<1>1. PICK n \in Nat : x = n \/ x = -n
  <2>1. x \in Nat \/ -x \in Nat
    OBVIOUS
  <2>2. x = -(-x)
    OBVIOUS
  <2> QED
    BY <2>1, <2>2
<1>2. PICK d \in Nat \ {0} : y = d \/ y = -d
  <2>1. y \in Nat \ {0} \/ -y \in Nat \ {0}
    OBVIOUS
  <2>2. y = -(-y)
    OBVIOUS
  <2> QED
    BY <2>1, <2>2
<1>3. n \div d \in Int /\ -(n \div d) \in Int
  BY WholeOf
<1> QED
  BY <1>1, <1>2, <1>3, WholeOf

\* The quotient moves one way with the number divided.
LEMMA WholeGrows ==
    ASSUME NEW l \in Int, NEW x \in Int, l <= x, NEW d \in Nat \ {0}
    PROVE  /\ Whole(l, d) <= Whole(x, d)
           /\ Whole(x, -d) <= Whole(l, -d)
<1>1. CASE l >= 0
  <2>1. l \in Nat /\ x \in Nat
    BY <1>1
  <2>2. l \div d <= x \div d /\ l \div d \in Nat /\ x \div d \in Nat
    BY <2>1, DivGrows, DivNat
  <2>3. /\ Whole(l, d) = l \div d /\ Whole(l, -d) = -(l \div d)
        /\ Whole(x, d) = x \div d /\ Whole(x, -d) = -(x \div d)
    BY <2>1, WholeOf
  <2> QED
    BY <2>2, <2>3
<1>2. CASE x < 0
  <2> DEFINE n == -x  m == -l
  <2>1. n \in Nat /\ m \in Nat /\ n <= m /\ x = -n /\ l = -m
    BY <1>2
  <2> HIDE DEF n, m
  <2>2. n \div d <= m \div d /\ n \div d \in Nat /\ m \div d \in Nat
    BY <2>1, DivGrows, DivNat
  <2>3. /\ Whole(-n, d) = -(n \div d) /\ Whole(-m, d) = -(m \div d)
        /\ Whole(-n, -d) = n \div d /\ Whole(-m, -d) = m \div d
    BY <2>1, WholeOf
  <2> QED
    BY <2>1, <2>2, <2>3
<1>3. CASE l < 0 /\ x >= 0
  <2> DEFINE m == -l
  <2>1. x \in Nat /\ m \in Nat /\ l = -m
    BY <1>3
  <2> HIDE DEF m
  <2>2. Whole(x, d) = x \div d /\ Whole(x, -d) = -(x \div d) /\ x \div d \in Nat
    BY <2>1, WholeOf
  <2>3. Whole(-m, d) = -(m \div d) /\ Whole(-m, -d) = m \div d /\ m \div d \in Nat
    BY <2>1, WholeOf
  <2> QED
    BY <2>1, <2>2, <2>3
<1> QED
  BY <1>1, <1>2, <1>3

\* It moves one way with the divisor, on each side of 0.
LEMMA WholeShrinks ==
    ASSUME NEW n \in Nat, NEW d \in Nat \ {0}, NEW e \in Nat, d <= e
    PROVE  /\ Whole(n, e) <= Whole(n, d)    /\ Whole(-n, d) <= Whole(-n, e)
           /\ Whole(n, -d) <= Whole(n, -e)  /\ Whole(-n, -e) <= Whole(-n, -d)
<1>0. e \in Nat \ {0}
  OBVIOUS
<1>1. n \div e <= n \div d /\ n \div e \in Nat /\ n \div d \in Nat
  BY <1>0, DivShrinks, DivNat
<1>2. /\ Whole(n, d) = n \div d /\ Whole(-n, d) = -(n \div d)
      /\ Whole(n, -d) = -(n \div d) /\ Whole(-n, -d) = n \div d
  BY WholeOf
<1>3. /\ Whole(n, e) = n \div e /\ Whole(-n, e) = -(n \div e)
      /\ Whole(n, -e) = -(n \div e) /\ Whole(-n, -e) = n \div e
  BY <1>0, WholeOf
<1> QED
  BY <1>1, <1>2, <1>3

\* A quotient lies between those by the ends of a range of divisors without 0.
LEMMA WholeBetween ==
    ASSUME NEW x \in Int, NEW l \in Int, NEW y \in Int, NEW h \in Int, l <= y, y <= h, l > 0 \/ h < 0
    PROVE  \/ Whole(x, l) <= Whole(x, y) /\ Whole(x, y) <= Whole(x, h)
           \/ Whole(x, h) <= Whole(x, y) /\ Whole(x, y) <= Whole(x, l)
<1>0. PICK n \in Nat : x = n \/ x = -n
  <2>1. x \in Nat \/ -x \in Nat
    OBVIOUS
  <2>2. x = -(-x)
    OBVIOUS
  <2> QED
    BY <2>1, <2>2
<1>1. CASE l > 0
  BY <1>0, <1>1, WholeShrinks
<1>2. CASE h < 0
  <2> DEFINE c == -l  d == -y  e == -h
  <2>1. /\ c \in Nat \ {0} /\ d \in Nat \ {0} /\ e \in Nat \ {0} /\ e <= d /\ d <= c
        /\ l = -c /\ y = -d /\ h = -e
    BY <1>2
  <2> HIDE DEF c, d, e
  <2>2. /\ Whole(n, -e) <= Whole(n, -d)  /\ Whole(-n, -d) <= Whole(-n, -e)
        /\ Whole(n, -d) <= Whole(n, -c)  /\ Whole(-n, -c) <= Whole(-n, -d)
    BY <2>1, WholeShrinks
  <2> QED
    BY <1>0, <2>1, <2>2
<1> QED
  BY <1>1, <1>2

\* And between those of the corners.
LEMMA QuotientBetween ==
    ASSUME NEW a \in IntRanges, NEW p \in IntRanges, NEW x \in Int, NEW y \in Int,
           Has(a, x), Has(p, y), p.lo > 0 \/ p.hi < 0
    PROVE  \E m \in {Whole(u, v) : u \in Ends(a), v \in Ends(p)},
              n \in {Whole(u, v) : u \in Ends(a), v \in Ends(p)} :
              m \in Int /\ n \in Int /\ m <= Whole(x, y) /\ Whole(x, y) <= n
<1> DEFINE W(u, v) == Whole(u, v)
<1>0. /\ a.lo \in Int /\ a.hi \in Int /\ p.lo \in Int /\ p.hi \in Int
      /\ p.lo # 0 /\ p.hi # 0 /\ y # 0
  BY DEF IntRanges
<1>1. /\ \A u \in {a.lo, a.hi}, v \in {p.lo, p.hi, y} : W(u, v) \in Int
      /\ W(x, y) \in Int
  BY <1>0, WholeIsInt
<1>2. \/ W(a.lo, y) <= W(x, y) /\ W(x, y) <= W(a.hi, y)
      \/ W(a.hi, y) <= W(x, y) /\ W(x, y) <= W(a.lo, y)
  <2>1. CASE y > 0
    BY <1>0, <2>1, WholeGrows
  <2>2. CASE y < 0
    <3>1. PICK d \in Nat \ {0} : y = -d
      <4>1. -y \in Nat \ {0} /\ y = -(-y)
        BY <2>2
      <4> QED
        BY <4>1
    <3> QED
      BY <1>0, <3>1, WholeGrows
  <2> QED
    BY <1>0, <2>1, <2>2
<1>3. \A u \in {a.lo, a.hi} : \/ W(u, p.lo) <= W(u, y) /\ W(u, y) <= W(u, p.hi)
                              \/ W(u, p.hi) <= W(u, y) /\ W(u, y) <= W(u, p.lo)
  BY <1>0, WholeBetween
<1> DEFINE quotients == {Whole(u, v) : u \in Ends(a), v \in Ends(p)}
<1>4. \A u \in {a.lo, a.hi}, v \in {p.lo, p.hi} : W(u, v) \in quotients
  BY DEF Ends
<1>5. W(x, y) = Whole(x, y)
  OBVIOUS
<1> HIDE DEF W, quotients
<1>6. PICK u \in {a.lo, a.hi}, v \in {p.lo, p.hi} : W(u, v) <= W(x, y)
  BY <1>0, <1>1, <1>2, <1>3
<1>7. PICK c \in {a.lo, a.hi}, d \in {p.lo, p.hi} : W(x, y) <= W(c, d)
  BY <1>0, <1>1, <1>2, <1>3
<1>8. /\ W(u, v) \in quotients /\ W(u, v) \in Int
      /\ W(c, d) \in quotients /\ W(c, d) \in Int
  BY <1>1, <1>4
<1>9. \E m \in quotients, n \in quotients : m \in Int /\ n \in Int /\ m <= Whole(x, y) /\ Whole(x, y) <= n
  BY <1>5, <1>6, <1>7, <1>8
<1> QED
  BY <1>9 DEF quotients

\* The divisors of a range on each side of 0.
Negatives(b) == Interval(b.lo, Least(b.hi, -1))
Positives(b) == Interval(Greatest(b.lo, 1), b.hi)

\* The parts of a range of divisors are on one side of 0 each, and have every
\* divisor but 0.
LEMMA PartsOf ==
    ASSUME NEW b \in IntRanges
    PROVE  /\ Negatives(b) \in IntRanges /\ Negatives(b).hi < 0
           /\ Positives(b) \in IntRanges /\ Positives(b).lo > 0
           /\ NonzeroParts(b) = {p \in {Negatives(b), Positives(b)} : p.lo <= p.hi}
           /\ \A y \in Int : Has(b, y) /\ y # 0 => \E p \in NonzeroParts(b) : Has(p, y)
<1>1. /\ Negatives(b) \in IntRanges /\ Negatives(b).hi < 0
      /\ Positives(b) \in IntRanges /\ Positives(b).lo > 0
  BY DEF Negatives, Positives, IntRanges
<1>2. NonzeroParts(b) = {p \in {Negatives(b), Positives(b)} : p.lo <= p.hi}
  BY DEF NonzeroParts, Negatives, Positives
<1>3. ASSUME NEW y \in Int, Has(b, y), y # 0  PROVE \E p \in NonzeroParts(b) : Has(p, y)
  <2>1. CASE y < 0
    <3>1. Has(Negatives(b), y) /\ Negatives(b).lo <= Negatives(b).hi
      BY <1>3, <2>1 DEF Negatives, IntRanges
    <3> QED
      BY <1>2, <3>1
  <2>2. CASE y > 0
    <3>1. Has(Positives(b), y) /\ Positives(b).lo <= Positives(b).hi
      BY <1>3, <2>2 DEF Positives, IntRanges
    <3> QED
      BY <1>2, <3>1
  <2> QED
    BY <1>3, <2>1, <2>2
<1> QED
  BY <1>1, <1>2, <1>3

\* A quotient by any divisor but 0 is in the range of Div.
LEMMA DivHolds ==
    ASSUME NEW ty, NEW a \in IntRanges, NEW b \in IntRanges, NEW x \in Int, NEW y \in Int,
           Has(a, x), Has(b, y), y # 0
    PROVE  Div(a, b, ty) \in IntRanges /\ Has(Div(a, b, ty), Whole(x, y))
<1> DEFINE Q(p) == {Whole(u, v) : u \in Ends(a), v \in Ends(p)}
           all == {Whole(u, v) : u \in Ends(a), v \in UNION {Ends(p) : p \in NonzeroParts(b)}}
<1>1. PICK part \in NonzeroParts(b) : Has(part, y)
  BY PartsOf
<1>2. \A p \in NonzeroParts(b) : p \in IntRanges /\ (p.lo > 0 \/ p.hi < 0) /\ p.lo <= p.hi
  BY PartsOf
<1>3. ASSUME NEW p \in NonzeroParts(b)  PROVE HasEnds(Q(p))
  <2>1. a.lo \in Int /\ a.hi \in Int /\ p.lo \in Int /\ p.hi \in Int /\ p.lo # 0 /\ p.hi # 0
    BY <1>2 DEF IntRanges
  <2>2. /\ Whole(a.lo, p.lo) \in Int /\ Whole(a.lo, p.hi) \in Int
        /\ Whole(a.hi, p.lo) \in Int /\ Whole(a.hi, p.hi) \in Int
    BY <2>1, WholeIsInt
  <2>3. Q(p) = {Whole(a.lo, p.lo), Whole(a.lo, p.hi), Whole(a.hi, p.lo), Whole(a.hi, p.hi)}
    BY DEF Ends
  <2> HIDE DEF Q
  <2> QED
    BY <2>2, <2>3, FourHaveEnds
<1>4. all = UNION {Q(p) : p \in NonzeroParts(b)}
  OBVIOUS
<1>5. \E m \in Q(part), n \in Q(part) :
        m \in Int /\ n \in Int /\ m <= Whole(x, y) /\ Whole(x, y) <= n
  BY <1>1, <1>2, QuotientBetween
<1>6. Div(a, b, ty) = Hull(all)
  BY <1>1 DEF Div
<1> HIDE DEF Q, all
<1>7. HasEnds(all)
  <2>1. NonzeroParts(b) \subseteq {Negatives(b), Positives(b)}
    BY PartsOf
  <2>2. CASE NonzeroParts(b) = {Negatives(b), Positives(b)}
    <3>1. all = Q(Negatives(b)) \cup Q(Positives(b))
      BY <1>4, <2>2
    <3> QED
      BY <1>3, <2>2, <3>1, UnionHasEnds
  <2>3. CASE \E p : NonzeroParts(b) = {p}
    <3>1. PICK p : NonzeroParts(b) = {p}
      BY <2>3
    <3>2. all = Q(p)
      BY <1>4, <3>1
    <3> QED
      BY <1>3, <3>1, <3>2
  <2> QED
    BY <1>1, <2>1, <2>2, <2>3
<1>8. Q(part) \subseteq all
  BY <1>4
<1>9. PICK m \in all, n \in all : m \in Int /\ n \in Int /\ m <= Whole(x, y) /\ Whole(x, y) <= n
  BY <1>5, <1>8
<1>10. Hull(all) \in IntRanges /\ Has(Hull(all), m) /\ Has(Hull(all), n)
  BY <1>7, HullHolds
<1>11. Whole(x, y) \in Int
  BY WholeIsInt
<1> DEFINE w == Whole(x, y)  h == Hull(all)
<1> HIDE DEF w, h
<1>12. Has(h, w)
  BY <1>9, <1>10, <1>11 DEF w, h, IntRanges
<1> QED
  BY <1>6, <1>10, <1>12 DEF w, h

\* The remainder has the sign of the number divided and is nearer to 0 than it
\* and than the divisor.
LEMMA RemainderOf ==
    ASSUME NEW x \in Int, NEW y \in Int, y # 0
    PROVE  /\ Remainder(x, y) \in Int
           /\ x >= 0 => 0 <= Remainder(x, y) /\ Remainder(x, y) <= x /\ Remainder(x, y) < Abs(y)
           /\ x < 0 => Remainder(x, y) <= 0 /\ x <= Remainder(x, y) /\ -Remainder(x, y) < Abs(y)
<1>1. PICK n \in Nat : (x >= 0 /\ x = n) \/ (x < 0 /\ x = -n)
  <2>1. x \in Nat \/ -x \in Nat
    OBVIOUS
  <2>2. x = -(-x)
    OBVIOUS
  <2> QED
    BY <2>1, <2>2
<1>2. PICK d \in Nat \ {0} : y = d \/ y = -d
  <2>1. y \in Nat \ {0} \/ -y \in Nat \ {0}
    OBVIOUS
  <2>2. y = -(-y)
    OBVIOUS
  <2> QED
    BY <2>1, <2>2
<1> DEFINE q == n \div d
<1>3. q \in Nat /\ q * d <= n /\ n < (q + 1) * d
  BY DivNat
<1>4. /\ Whole(n, d) = q /\ Whole(-n, d) = -q
      /\ Whole(n, -d) = -q /\ Whole(-n, -d) = q
  BY WholeOf
<1>5. Abs(y) = d
  BY <1>2 DEF Abs
<1> HIDE DEF q
<1> DEFINE r == n - q * d
<1>6. r \in Int /\ 0 <= r /\ r <= n /\ r < d
  <2>1. q * d \in Int /\ q * d >= 0 /\ (q + 1) * d = q * d + d
    BY <1>3
  <2> QED
    BY <1>3, <2>1
<1>7. /\ x = n => Remainder(x, y) = r
      /\ x = -n => Remainder(x, y) = -r
  <2>1. /\ Remainder(n, d) = n - d * q /\ Remainder(n, -d) = n - (-d) * (-q)
        /\ Remainder(-n, d) = -n - d * (-q) /\ Remainder(-n, -d) = -n - (-d) * q
    BY <1>4 DEF Remainder
  <2>2. d * q = q * d /\ (-d) * (-q) = q * d /\ d * (-q) = -(q * d) /\ (-d) * q = -(q * d)
    BY <1>3
  <2>3. q * d \in Int
    BY <1>3
  <2> QED
    BY <1>2, <2>1, <2>2, <2>3
<1> HIDE DEF r
<1> QED
  BY <1>1, <1>5, <1>6, <1>7

\* A remainder is in the range of Rem.
LEMMA RemHolds ==
    ASSUME NEW ty, NEW a \in IntRanges, NEW b \in IntRanges, NEW x \in Int, NEW y \in Int,
           Has(a, x), Has(b, y), y # 0
    PROVE  Rem(a, b, ty) \in IntRanges /\ Has(Rem(a, b, ty), Remainder(x, y))
<1> DEFINE sizes == {Abs(v) : v \in UNION {Ends(p) : p \in NonzeroParts(b)}}
           S(p) == {Abs(v) : v \in Ends(p)}
           largest == GreatestIn(sizes)
<1>1. PICK part \in NonzeroParts(b) : Has(part, y)
  BY PartsOf
<1>2. \A p \in NonzeroParts(b) : p \in IntRanges /\ (p.lo > 0 \/ p.hi < 0) /\ p.lo <= p.hi
  BY PartsOf
<1>3. ASSUME NEW p \in NonzeroParts(b)  PROVE HasEnds(S(p))
  <2>1. Abs(p.lo) \in Int /\ Abs(p.hi) \in Int
    BY <1>2 DEF IntRanges, Abs
  <2>2. S(p) = {Abs(p.lo), Abs(p.hi), Abs(p.lo), Abs(p.hi)}
    BY DEF Ends
  <2> HIDE DEF S
  <2> QED
    BY <2>1, <2>2, FourHaveEnds
<1>4. sizes = UNION {S(p) : p \in NonzeroParts(b)}
  OBVIOUS
<1>5. \E v \in S(part) : v \in Int /\ v >= Abs(y)
  <2>1. part.lo \in Int /\ part.hi \in Int
    BY <1>2 DEF IntRanges
  <2>2. Abs(part.lo) \in S(part) /\ Abs(part.hi) \in S(part)
    BY DEF Ends
  <2>3. Abs(y) <= Abs(part.lo) \/ Abs(y) <= Abs(part.hi)
    BY <1>1, <1>2, <2>1 DEF Abs
  <2>4. Abs(part.lo) \in Int /\ Abs(part.hi) \in Int /\ Abs(y) \in Int
    BY <2>1 DEF Abs
  <2> HIDE DEF S
  <2> QED
    BY <2>2, <2>3, <2>4
<1>6. Rem(a, b, ty) = [lo |-> IF a.lo < 0 THEN -Least(-a.lo, largest - 1) ELSE 0,
                       hi |-> IF a.hi > 0 THEN Least(a.hi, largest - 1) ELSE 0]
  BY <1>1 DEF Rem
<1> HIDE DEF S, sizes
<1>7. HasEnds(sizes)
  <2>1. NonzeroParts(b) \subseteq {Negatives(b), Positives(b)}
    BY PartsOf
  <2>2. CASE NonzeroParts(b) = {Negatives(b), Positives(b)}
    <3>1. sizes = S(Negatives(b)) \cup S(Positives(b))
      BY <1>4, <2>2
    <3> QED
      BY <1>3, <2>2, <3>1, UnionHasEnds
  <2>3. CASE \E p : NonzeroParts(b) = {p}
    <3>1. PICK p : NonzeroParts(b) = {p}
      BY <2>3
    <3>2. sizes = S(p)
      BY <1>4, <3>1
    <3> QED
      BY <1>3, <3>1, <3>2
  <2> QED
    BY <1>1, <2>1, <2>2, <2>3
<1>8. largest \in Int /\ \A v \in sizes : v <= largest
  <2>1. GreatestIn(sizes) \in sizes /\ \A v \in sizes : GreatestIn(sizes) >= v
    BY <1>7 DEF HasEnds, GreatestIn
  <2>2. sizes \subseteq Int
    BY <1>7 DEF HasEnds
  <2> QED
    BY <2>1, <2>2
<1>9. Abs(y) <= largest
  <2>1. PICK v \in S(part) : v \in Int /\ v >= Abs(y)
    BY <1>5
  <2>2. v \in sizes
    BY <1>4
  <2>3. Abs(y) \in Int
    BY DEF Abs
  <2> HIDE DEF largest
  <2> QED
    BY <1>8, <2>1, <2>2, <2>3
<1> HIDE DEF largest
<1>10. Abs(y) \in Int /\ Abs(y) >= 1
  BY DEF Abs
<1>11. a.lo \in Int /\ a.hi \in Int
  BY DEF IntRanges
<1> DEFINE r == Remainder(x, y)  size == Abs(y)
<1>12. /\ r \in Int
       /\ x >= 0 => 0 <= r /\ r <= x /\ r < size
       /\ x < 0 => r <= 0 /\ x <= r /\ -r < size
  BY RemainderOf
<1> HIDE DEF r, size
<1>13. size \in Int /\ size >= 1 /\ size <= largest
  BY <1>9, <1>10 DEF size
<1>14. Rem(a, b, ty) \in IntRanges /\ Has(Rem(a, b, ty), r)
  BY <1>6, <1>8, <1>11, <1>12, <1>13 DEF IntRanges
<1> QED
  BY <1>14 DEF r

\* Where the checks of a division are left out it has a result, of its type.
LEMMA DivisionCannotFail ==
    ASSUME NEW ty \in IntTypes, NEW a \in IntRanges, NEW b \in IntRanges, FitsIn(a, ty), FitsIn(b, ty),
           DivisionSafe(a, b, ty), NEW x \in Int, NEW y \in Int, Has(a, x), Has(b, y)
    PROVE  y # 0 /\ Has(ty, Whole(x, y))
<1>1. y # 0 /\ ~(ty.lo < 0 /\ x = ty.lo /\ y = -1)
  BY DEF DivisionSafe, Signed
<1>2. PICK n \in Nat : (x >= 0 /\ x = n) \/ (x < 0 /\ x = -n)
  <2>1. x \in Nat \/ -x \in Nat
    OBVIOUS
  <2>2. x = -(-x)
    OBVIOUS
  <2> QED
    BY <2>1, <2>2
<1>3. PICK d \in Nat \ {0} : y = d \/ y = -d
  <2>1. y \in Nat \ {0} \/ -y \in Nat \ {0}
    BY <1>1
  <2>2. y = -(-y)
    OBVIOUS
  <2> QED
    BY <2>1, <2>2
<1> DEFINE q == n \div d
<1>4. q \in Nat /\ q * d <= n /\ q <= n /\ (d >= 2 /\ n > 0 => q < n)
  <2>1. q \in Nat /\ q * d <= n
    BY DivNat
  <2> HIDE DEF q
  <2>2. q * d >= q
    BY <2>1
  <2>3. ASSUME d >= 2  PROVE q * d >= q + q
    BY <2>1, <2>3
  <2>4. q * d \in Int
    BY <2>1
  <2> QED
    BY <2>1, <2>2, <2>3, <2>4
<1>5. /\ Whole(n, d) = q /\ Whole(-n, d) = -q
      /\ Whole(n, -d) = -q /\ Whole(-n, -d) = q
  BY WholeOf
<1> HIDE DEF q
<1>6. /\ ty.lo \in Int /\ ty.hi \in Int /\ ty.hi >= 0 /\ (ty.lo = 0 \/ ty.lo = -ty.hi - 1)
      /\ ty.lo <= x /\ x <= ty.hi /\ ty.lo <= y /\ y <= ty.hi
  BY DEF IntTypes, IntRanges
<1>7. CASE x >= 0 /\ x = n
  BY <1>3, <1>4, <1>5, <1>6, <1>7, <1>1
<1>8. CASE x < 0 /\ x = -n
  <2>1. CASE y = d
    BY <1>1, <1>4, <1>5, <1>6, <1>8, <2>1
  <2>2. CASE y = -d
    BY <1>1, <1>4, <1>5, <1>6, <1>8, <2>2
  <2> QED
    BY <1>3, <2>1, <2>2
<1> QED
  BY <1>2, <1>7, <1>8

\* A range that the analysis computes from the ranges of two operands holds
\* every result of the operator, checked or wrapped, and a division whose
\* checks it leaves out cannot fail: for types of every width (interval.rs:
\* add to rem, settle, join, widen, meet, rand_int, division_safe).
THEOREM RangesHoldResults ==
    ASSUME NEW ty \in IntTypes, NEW a \in IntRanges, NEW b \in IntRanges, FitsIn(a, ty), FitsIn(b, ty),
           NEW x \in Int, NEW y \in Int, Has(a, x), Has(b, y)
    PROVE  ArithmeticHolds(ty, a, b, x, y)
<1>1. Holds(x + y, Add(a, b), ty) /\ Holds(x - y, Sub(a, b), ty) /\ Holds(-x, Neg(a), ty)
  BY AddHolds, SettleHolds
<1>2. Holds(x * y, Mul(a, b), ty)
  BY MulHolds, SettleHolds
<1>3. ASSUME y # 0  PROVE Holds(Whole(x, y), Div(a, b, ty), ty) /\ Holds(Remainder(x, y), Rem(a, b, ty), ty)
  <2>1. Whole(x, y) \in Int /\ Remainder(x, y) \in Int
    BY <1>3, WholeIsInt, RemainderOf
  <2>2. Holds(Whole(x, y), Div(a, b, ty), ty)
    BY <1>3, <2>1, DivHolds, SettleHolds
  <2>3. Holds(Remainder(x, y), Rem(a, b, ty), ty)
    BY <1>3, <2>1, RemHolds, SettleHolds
  <2> QED
    BY <2>2, <2>3
<1>4. DivisionSafe(a, b, ty) => y # 0 /\ Has(ty, Whole(x, y))
  BY DivisionCannotFail
<1>5. Join(a, b) \in IntRanges /\ Has(Join(a, b), x) /\ Has(Join(a, b), y)
  BY JoinHolds
<1>6. Has(RandInt(a, b, ty), x) /\ Has(RandInt(a, b, ty), y)
  BY <1>5 DEF RandInt, OfType, IntRanges, IntTypes
<1>7. Has(Widen(a, b, ty), x) /\ Has(Widen(a, b, ty), y)
  BY WidenHolds
<1>8. Has(b, x) => Meets(a, b) /\ Has(Meet(a, b), x)
  BY MeetHolds
<1> QED
  BY <1>1, <1>2, <1>3, <1>4, <1>5, <1>6, <1>7, <1>8 DEF ArithmeticHolds

\* Widening only grows a range, inside its type, and an end that moves is at
\* the type's end: each end moves once at most, which is why a loop's rounds
\* come to a fixed point (interval.rs, widen).
THEOREM WideningEnds ==
    ASSUME NEW ty \in IntTypes, NEW a \in IntRanges, NEW new \in IntRanges, FitsIn(a, ty), FitsIn(new, ty)
    PROVE  /\ Widen(a, new, ty) \in IntRanges
           /\ FitsIn(a, Widen(a, new, ty)) /\ FitsIn(Widen(a, new, ty), ty)
           /\ Widen(a, new, ty).lo \in {a.lo, ty.lo} /\ Widen(a, new, ty).hi \in {a.hi, ty.hi}
BY DEF Widen, IntRanges, IntTypes
=============================================================================
