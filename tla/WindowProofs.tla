---------------------------- MODULE WindowProofs ----------------------------
(***************************************************************************)
(* Theorems about Window, for any threads, frames and objects: raylib is   *)
(* used as it allows, and no object on the GPU is lost.  The invariant is  *)
(* in two parts.  ProgramInv is about the threads, their registries and    *)
(* the ids of objects, and is inductive alone; RaylibInv ties raylib to    *)
(* the one thread with a real window.                                      *)
(***************************************************************************)
EXTENDS Window, TLAPS

ProgramType ==
    /\ phase \in [Threads -> Phases]
    /\ asked \in [Threads -> BOOLEAN]
    /\ frames \in [Threads -> Nat]
    /\ \A t \in Threads : frames[t] <= IF Real(t) THEN 1 ELSE FramesToRun
    /\ step \in [Threads -> Steps]
    /\ in3d \in [Threads -> BOOLEAN]
    /\ camera \in [Threads -> BOOLEAN]
    /\ registry \in [Threads -> [Ids -> Kinds \cup {"none"}]]
    /\ freeing \in [Threads -> SUBSET Ids]
    /\ nextId \in 1..(MaxObjects + 1)
    /\ queue \in SUBSET Ids /\ handles \in SUBSET Ids
    /\ maker \in [Ids -> Threads \cup {"none"}]

\* A thread is between two frames only while its window is open, a headless
\* one starts another only while it has frames left, and a window that has not
\* opened has not made anything.
FramesInTurn ==
    \A t \in Threads :
        /\ step[t] # "program" => phase[t] = "open"
        /\ step[t] \in {"drain", "start"} /\ ~Real(t) => frames[t] < FramesToRun
        /\ phase[t] = "not_opened" => frames[t] = 0 /\ \A id \in 1..(nextId - 1) : maker[id] # t

\* An object is in the registry of the thread that made it, or taken out of it
\* to be freed, and is freed before the thread's program goes on.
InOnePlace ==
    \A t \in Threads :
        /\ \A id \in Live(t) \cup freeing[t] : id < nextId /\ maker[id] = t
        /\ Live(t) \cap freeing[t] = {}
        /\ freeing[t] # {} => step[t] \in {"start", "closing"}
        /\ step[t] = "closing" \/ phase[t] = "closed" => Live(t) = {}

\* A handle was given out and is held or dropped, never both.
HeldOrDropped ==
    /\ handles \cap queue = {}
    /\ \A id \in handles \cup queue : id < nextId
    /\ \A id \in handles : \A t \in Threads :
          maker[id] = t /\ phase[t] = "open" /\ step[t] # "closing" => id \in Live(t)
    /\ \A t \in Threads : Live(t) \subseteq handles \cup queue

ProgramInv == ProgramType /\ FramesInTurn /\ InOnePlace /\ HeldOrDropped

GlType == [open : BOOLEAN, drawing : BOOLEAN, depth : Int, batch : SUBSET Ids, gpu : SUBSET Ids,
           rects : BOOLEAN, material : BOOLEAN, misuse : SUBSET {"pass", "frame", "unload", "close"}]

\* What raylib is, g, when the window is in phase ph, its thread is in step st
\* of a frame, n is 0 before the first one, i is whether a 3D pass is on, live
\* are its objects and free those it is about to unload.
Fits(g, ph, st, n, i, live, free) ==
    /\ g \in GlType /\ g.misuse = {}
    /\ g.open <=> ph = "open"
    /\ g.drawing <=> (ph = "open" /\ st = "program" /\ n > 0)
    /\ g.depth = IF i THEN 1 ELSE 0
    /\ i => ph = "open" /\ st = "program"
    /\ g.batch # {} => ph = "open" /\ st = "program"
    /\ g.batch \subseteq live
    /\ g.gpu = live \cup free
    /\ g.rects \/ g.material => ph = "open"

\* raylib follows the thread t of the real window.
Follows(t) == Fits(gl, phase[t], step[t], frames[t], in3d[t], Live(t), freeing[t])

RaylibInv ==
    /\ gl \in GlType /\ gl.misuse = {}
    /\ RealWindows = {} => gl = Closed
    /\ \A t \in RealWindows : Follows(t)

Inv == ProgramInv /\ RaylibInv
-----------------------------------------------------------------------------
LEMMA ProgramInvInit == Init => ProgramInv
<1> SUFFICES ASSUME Init  PROVE ProgramInv
  OBVIOUS
<1>1. ProgramType
  BY BoundsAssumption DEF Init, ProgramType, Phases, Steps, Real
<1>2. \A t \in Threads : Live(t) = {}
  BY DEF Init, Live
<1> QED
  BY <1>1, <1>2 DEF Init, ProgramInv, FramesInTurn, InOnePlace, HeldOrDropped

\* What an action that leaves the registries alone keeps of them.
LEMMA LiveKept ==
    ASSUME UNCHANGED registry
    PROVE  \A t \in Threads : Live(t)' = Live(t)
BY DEF Live

LEMMA ProgramInvStep == ProgramInv /\ [Next]_vars => ProgramInv'
<1> SUFFICES ASSUME ProgramInv, [Next]_vars  PROVE ProgramInv'
  OBVIOUS
<1> USE DEF ProgramInv
<1>1. ASSUME NEW t \in Threads, Open(t)  PROVE ProgramInv'
  <2> USE <1>1 DEF Open, objects
  <2>1. ProgramType'
    BY DEF ProgramType, Phases
  <2>2. FramesInTurn'
    BY DEF FramesInTurn, ProgramType
  <2>3. InOnePlace'
    BY LiveKept DEF InOnePlace, ProgramType
  <2>4. HeldOrDropped'
    BY LiveKept DEF HeldOrDropped, ProgramType, FramesInTurn, Ids
  <2> QED
    BY <2>1, <2>2, <2>3, <2>4
<1>2. ASSUME NEW t \in Threads, Close(t)  PROVE ProgramInv'
  <2> USE <1>2 DEF Close, objects
  <2>1. ProgramType'
    BY DEF ProgramType
  <2>2. FramesInTurn' /\ InOnePlace' /\ HeldOrDropped'
    BY LiveKept DEF FramesInTurn, InOnePlace, HeldOrDropped
  <2> QED
    BY <2>1, <2>2
<1>3. ASSUME NEW t \in Threads, EndFrame(t)  PROVE ProgramInv'
  <2> USE <1>3 DEF EndFrame, Opened, objects
  <2>1. ProgramType'
    BY DEF ProgramType, Steps
  <2>2. ASSUME ~Real(t), step'[t] = "drain"  PROVE frames[t] < FramesToRun
    <3>1. PICK ends \in Ends(t) : step' = [step EXCEPT ![t] = IF ends THEN "close" ELSE "drain"]
      OBVIOUS
    <3>2. ~ends
      BY <2>2, <3>1 DEF ProgramType
    <3>3. ~(frames[t] >= FramesToRun)
      BY <2>2, <3>2, Zenon DEF Ends
    <3> QED
      BY <3>2, <3>3, BoundsAssumption DEF ProgramType
  <2>5. \A u \in Threads : step'[u] = step[u] \/ (u = t /\ step'[u] \in {"close", "drain"})
    <3>1. \E v \in {"close", "drain"} : step' = [step EXCEPT ![t] = v]
      BY Zenon
    <3> QED
      BY <3>1 DEF ProgramType
  <2>6. FramesInTurn'
    BY <2>2, <2>5 DEF FramesInTurn
  <2>3. InOnePlace'
    BY LiveKept DEF InOnePlace, ProgramType
  <2>4. HeldOrDropped'
    BY LiveKept DEF HeldOrDropped, ProgramType
  <2> QED
    BY <2>1, <2>6, <2>3, <2>4
<1>4. ASSUME NEW t \in Threads, Drain(t)  PROVE ProgramInv'
  <2> USE <1>4 DEF Drain, Without, Taken, LeftQueued
  <2>1. ProgramType'
    BY DEF ProgramType, Steps
  <2>2. FramesInTurn'
    BY DEF FramesInTurn, ProgramType
  <2>3. Live(t)' = Live(t) \ queue /\ \A u \in Threads \ {t} : Live(u)' = Live(u)
    BY DEF ProgramType, Live
  <2>4. InOnePlace'
    BY <2>3 DEF InOnePlace, ProgramType, FramesInTurn
  <2>5. HeldOrDropped'
    BY <2>3 DEF HeldOrDropped, ProgramType, InOnePlace
  <2> QED
    BY <2>1, <2>2, <2>4, <2>5
<1>5. ASSUME NEW t \in Threads, StartFrame(t)  PROVE ProgramInv'
  <2> USE <1>5 DEF StartFrame
  <2>1. ProgramType'
    BY BoundsAssumption DEF ProgramType, Steps, FramesInTurn, Real
  <2>2. FramesInTurn'
    BY DEF FramesInTurn, ProgramType
  <2>3. InOnePlace'
    BY LiveKept DEF InOnePlace, ProgramType
  <2>4. HeldOrDropped'
    BY LiveKept DEF HeldOrDropped, ProgramType
  <2> QED
    BY <2>1, <2>2, <2>3, <2>4
<1>6. ASSUME NEW t \in Threads, TakeAll(t)  PROVE ProgramInv'
  <2> USE <1>6 DEF TakeAll, Without
  <2>1. ProgramType'
    BY DEF ProgramType, Steps, Live
  <2>2. FramesInTurn'
    BY DEF FramesInTurn, ProgramType
  <2>3. Live(t)' = {} /\ \A u \in Threads \ {t} : Live(u)' = Live(u)
    BY DEF ProgramType, Live
  <2>4. InOnePlace'
    BY <2>3 DEF InOnePlace, ProgramType, FramesInTurn
  <2>5. HeldOrDropped'
    BY <2>3 DEF HeldOrDropped, ProgramType, InOnePlace
  <2> QED
    BY <2>1, <2>2, <2>4, <2>5
<1>7. ASSUME NEW t \in Threads, EndWindow(t)  PROVE ProgramInv'
  <2> USE <1>7 DEF EndWindow
  <2>1. ProgramType'
    BY DEF ProgramType, Steps, Phases
  <2>2. FramesInTurn'
    BY DEF FramesInTurn, ProgramType
  <2>3. InOnePlace'
    BY LiveKept DEF InOnePlace, ProgramType
  <2>4. HeldOrDropped'
    BY LiveKept DEF HeldOrDropped, ProgramType
  <2> QED
    BY <2>1, <2>2, <2>3, <2>4
<1>8. ASSUME NEW t \in Threads, Draw(t)  PROVE ProgramInv'
  <2>1. /\ in3d' \in [Threads -> BOOLEAN] /\ camera' \in [Threads -> BOOLEAN]
        /\ UNCHANGED <<window, objects>>
    BY <1>8 DEF Draw, DrawShape, Clear, DrawRects, SetCamera, DrawShape3D, Sprite, DrawMesh,
                In2D, In3D, ProgramType, window, objects
  <2> QED
    BY <2>1, LiveKept DEF ProgramType, FramesInTurn, InOnePlace, HeldOrDropped, window, objects
<1>9. ASSUME NEW t \in Threads, NEW kind \in Kinds, Make(t, kind)  PROVE ProgramInv'
  <2> USE <1>9 DEF Make, Opened, window
  <2>1. nextId \in Ids /\ nextId + 1 \in 1..(MaxObjects + 1) /\ nextId \in Int /\ Ids \subseteq Int
    BY BoundsAssumption DEF ProgramType, Ids
  <2>2. ProgramType'
    BY <2>1 DEF ProgramType
  <2>3. FramesInTurn'
    BY <2>1 DEF FramesInTurn, ProgramType
  <2>4. Live(t)' = Live(t) \cup {nextId} /\ \A u \in Threads \ {t} : Live(u)' = Live(u)
    BY <2>1 DEF ProgramType, Live, Kinds
  <2>5. \A u \in Threads : Live(u) \subseteq Int /\ freeing[u] \subseteq Int /\ nextId \notin Live(u)
    BY <2>1 DEF ProgramType, Live, InOnePlace
  <2>6. InOnePlace'
    <3>1. \A u \in Threads : \A id \in Live(u)' \cup freeing'[u] : id < nextId' /\ maker'[id] = u
      BY <2>1, <2>4, <2>5 DEF InOnePlace, ProgramType
    <3>2. freeing[t] = {} /\ phase[t] # "closed" /\ step[t] # "closing"
      BY DEF InOnePlace
    <3> QED
      BY <2>4, <3>1, <3>2 DEF InOnePlace
  <2>7. HeldOrDropped'
    <3>1. queue \subseteq Int /\ handles \subseteq Int /\ nextId \notin queue \cup handles
      BY <2>1 DEF ProgramType, HeldOrDropped
    <3>2. maker' = [maker EXCEPT ![nextId] = t] /\ maker'[nextId] = t
      BY <2>1 DEF ProgramType
    <3>3. \A id \in handles : maker'[id] = maker[id]
      BY <2>1, <3>1 DEF ProgramType
    <3>4. \A id \in handles' : \A u \in Threads :
            maker'[id] = u /\ phase'[u] = "open" /\ step'[u] # "closing" => id \in Live(u)'
      BY <2>4, <3>1, <3>2, <3>3 DEF HeldOrDropped
    <3>5. \A id \in handles' \cup queue' : id < nextId'
      BY <2>1, <3>1 DEF HeldOrDropped
    <3> QED
      BY <2>4, <3>1, <3>4, <3>5 DEF HeldOrDropped
  <2> QED
    BY <2>2, <2>3, <2>6, <2>7
<1>10. ASSUME NEW id \in Ids, Drop(id)  PROVE ProgramInv'
  <2> USE <1>10 DEF Drop, window
  <2>1. ProgramType'
    BY DEF ProgramType
  <2>2. FramesInTurn' /\ InOnePlace'
    BY LiveKept DEF FramesInTurn, InOnePlace
  <2>3. HeldOrDropped'
    BY LiveKept DEF HeldOrDropped
  <2> QED
    BY <2>1, <2>2, <2>3
<1>11. CASE UNCHANGED vars
  BY <1>11, LiveKept DEF vars, ProgramType, FramesInTurn, InOnePlace, HeldOrDropped
<1> QED
  BY <1>1, <1>2, <1>3, <1>4, <1>5, <1>6, <1>7, <1>8, <1>9, <1>10, <1>11 DEF Next, Frame, FrameAfterEnd
-----------------------------------------------------------------------------
LEMMA RaylibInvInit == Init => RaylibInv
<1> SUFFICES ASSUME Init  PROVE RaylibInv
  OBVIOUS
<1>1. gl \in GlType /\ gl.misuse = {}
  BY DEF Init, GlType, Closed
<1>2. ASSUME NEW t \in RealWindows  PROVE Follows(t)
  <2>1. t \in Threads /\ Live(t) = {}
    BY RealAssumption DEF Init, Live
  <2> QED
    BY <1>1, <2>1 DEF Init, Follows, Fits, Closed
<1> QED
  BY <1>1, <1>2 DEF Init, RaylibInv

\* What a thread does, other than letting a handle go.
Acts(t) ==
    \/ Open(t) \/ Close(t) \/ Frame(t) \/ Draw(t)
    \/ \E kind \in Kinds : Make(t, kind)

\* All that RaylibInv says of a thread.
Same(t) ==
    /\ phase'[t] = phase[t] /\ step'[t] = step[t] /\ frames'[t] = frames[t] /\ in3d'[t] = in3d[t]
    /\ Live(t)' = Live(t) /\ freeing'[t] = freeing[t]

\* No thread touches another one's window and objects.
LEMMA OthersSame ==
    ASSUME ProgramInv, NEW t \in Threads, Acts(t), NEW u \in Threads \ {t}
    PROVE  Same(u)
<1> USE DEF ProgramInv, ProgramType, Same, Live, objects, window
<1>1. CASE Open(t) \/ Close(t)
  BY <1>1 DEF Open, Close
<1>2. CASE EndFrame(t)
  <2>1. \E v \in {"close", "drain"} : step' = [step EXCEPT ![t] = v]
    BY <1>2, Zenon DEF EndFrame
  <2> QED
    BY <1>2, <2>1 DEF EndFrame
<1>3. CASE Drain(t) \/ StartFrame(t) \/ TakeAll(t) \/ EndWindow(t)
  BY <1>3 DEF Drain, StartFrame, TakeAll, EndWindow, Without
<1>4. CASE Draw(t)
  BY <1>4 DEF Draw, DrawShape, Clear, DrawRects, SetCamera, DrawShape3D, Sprite, DrawMesh, In2D, In3D
<1>5. ASSUME NEW kind \in Kinds, Make(t, kind)  PROVE Same(u)
  BY <1>5 DEF Make
<1> QED
  BY <1>1, <1>2, <1>3, <1>4, <1>5 DEF Acts, Frame

\* A headless window does not call raylib.
LEMMA HeadlessQuiet ==
    ASSUME NEW t \in Threads, ~Real(t), Acts(t)
    PROVE  gl' = gl
BY DEF Acts, Open, Close, Frame, EndFrame, Drain, StartFrame, TakeAll, EndWindow, Draw, DrawShape, Clear,
       DrawRects, SetCamera, DrawShape3D, Sprite, DrawMesh, Make, OnGl

\* What raylib follows stays, and raylib with it.
LEMMA FollowsKept ==
    ASSUME NEW t \in Threads, Follows(t), Same(t), gl' = gl
    PROVE  Follows(t)'
BY DEF Follows, Same

\* A step of another thread, or of one without a raylib window.
LEMMA RaylibInvHeadless ==
    ASSUME ProgramInv, RaylibInv, NEW t \in Threads, ~Real(t), Acts(t)
    PROVE  RaylibInv'
<1>1. gl' = gl
  BY HeadlessQuiet
<1>2. \A u \in RealWindows : Follows(u)'
  <2> SUFFICES ASSUME NEW u \in RealWindows  PROVE Follows(u)'
    OBVIOUS
  <2>1. u \in Threads \ {t}
    BY RealAssumption DEF Real
  <2> QED
    BY <1>1, <2>1, OthersSame, FollowsKept DEF RaylibInv
<1> QED
  BY <1>1, <1>2 DEF RaylibInv

-----------------------------------------------------------------------------
(* What the calls of raylib keep of Fits. *)

LEMMA FlushFits ==
    ASSUME NEW g, NEW ph, NEW st, NEW n, NEW i, NEW live, NEW free, Fits(g, ph, st, n, i, live, free)
    PROVE  Fits(Flush(g), ph, st, n, i, live, free)
BY DEF Fits, Flush, GlType

LEMMA EndPassFits ==
    ASSUME NEW g, NEW ph, NEW st, NEW n, NEW i \in BOOLEAN, NEW live, NEW free,
           Fits(g, ph, st, n, i, live, free)
    PROVE  Fits(IF i THEN EndMode3D(g) ELSE g, ph, st, n, FALSE, live, free)
<1>1. CASE ~i
  BY <1>1
<1>2. CASE i
  <2>1. g.depth = 1
    BY <1>2 DEF Fits
  <2> DEFINE e == [Flush(g) EXCEPT !.depth = @ - 1]
  <2>2. EndMode3D(g) = e
    BY <2>1 DEF EndMode3D, Checked
  <2>3. e \in GlType
    <3>1. Flush(g) \in GlType /\ Flush(g).depth = 1
      BY <2>1 DEF Fits, GlType, Flush
    <3>2. e = [Flush(g) EXCEPT !.depth = 0]
      BY <3>1
    <3> HIDE DEF e
    <3> QED
      BY <3>1, <3>2 DEF GlType
  <2>4. /\ e.open = g.open /\ e.drawing = g.drawing /\ e.depth = 0 /\ e.batch = {}
        /\ e.gpu = g.gpu /\ e.rects = g.rects /\ e.material = g.material /\ e.misuse = g.misuse
    BY <2>1 DEF Fits, GlType, Flush
  <2> HIDE DEF e
  <2>5. Fits(e, ph, st, n, FALSE, live, free)
    BY <2>3, <2>4 DEF Fits
  <2> QED
    BY <1>2, <2>2, <2>5
<1> QED
  BY <1>1, <1>2

LEMMA BeginPassFits ==
    ASSUME NEW g, NEW n, NEW live, NEW free, Fits(g, "open", "program", n, FALSE, live, free)
    PROVE  Fits(BeginMode3D(g), "open", "program", n, TRUE, live, free)
<1> DEFINE b == [Flush(g) EXCEPT !.depth = @ + 1]
<1>1. BeginMode3D(g) = b
  BY DEF BeginMode3D, Checked, Fits
<1>2. b \in GlType
  <2>1. Flush(g) \in GlType /\ Flush(g).depth = 0
    BY DEF Fits, GlType, Flush
  <2>2. b = [Flush(g) EXCEPT !.depth = 1]
    BY <2>1
  <2> HIDE DEF b
  <2> QED
    BY <2>1, <2>2 DEF GlType
<1>3. /\ b.open = g.open /\ b.drawing = g.drawing /\ b.depth = 1 /\ b.batch = {}
      /\ b.gpu = g.gpu /\ b.rects = g.rects /\ b.material = g.material /\ b.misuse = g.misuse
  BY DEF Fits, GlType, Flush
<1> HIDE DEF b
<1>4. Fits(b, "open", "program", n, TRUE, live, free)
  BY <1>2, <1>3 DEF Fits
<1> QED
  BY <1>1, <1>4

LEMMA EndFrameFits ==
    ASSUME NEW g, NEW n \in Nat, NEW live, NEW free, NEW st \in {"close", "drain"},
           Fits(g, "open", "program", n, FALSE, live, free)
    PROVE  Fits(IF n > 0 THEN EndDrawing(g) ELSE Flush(g), "open", st, n, FALSE, live, free)
<1>1. CASE n > 0
  <2>1. g.drawing /\ g.depth = 0
    BY <1>1 DEF Fits
  <2>2. EndDrawing(g) = [Flush(g) EXCEPT !.drawing = FALSE]
    BY <2>1 DEF EndDrawing, Checked
  <2> QED
    BY <1>1, <2>2 DEF Fits, GlType, Flush
<1>2. CASE ~(n > 0)
  BY <1>2 DEF Fits, GlType, Flush
<1> QED
  BY <1>1, <1>2

LEMMA StartFits ==
    ASSUME NEW g, NEW n, NEW i, NEW live, NEW free,
           Fits(g, "open", "start", n, i, live, free), live \cap free = {}
    PROVE  Fits(BeginDrawing(Unload(g, free)), "open", "program", 1, FALSE, live, {})
<1>1. g.open /\ ~g.drawing /\ g.batch = {} /\ g.gpu = live \cup free /\ g.depth = 0
  BY DEF Fits
<1> DEFINE u == [g EXCEPT !.gpu = @ \ free]
<1>2. Unload(g, free) = u
  BY <1>1 DEF Unload, Checked
<1>3. u \in GlType /\ u.open /\ ~u.drawing
  BY <1>1 DEF GlType, Fits
<1> DEFINE b == [u EXCEPT !.drawing = TRUE]
<1>4. BeginDrawing(u) = b
  BY <1>3 DEF BeginDrawing, Checked
<1>5. b \in GlType
  BY <1>3 DEF GlType
<1>6. /\ b.open = g.open /\ b.drawing = TRUE /\ b.depth = g.depth /\ b.batch = g.batch
      /\ b.gpu = live /\ b.rects = g.rects /\ b.material = g.material /\ b.misuse = g.misuse
  BY <1>1 DEF Fits, GlType
<1> HIDE DEF b
<1>7. Fits(b, "open", "program", 1, FALSE, live, {})
  BY <1>1, <1>5, <1>6 DEF Fits
<1> QED
  BY <1>2, <1>4, <1>7

LEMMA EndWindowFits ==
    ASSUME NEW g, NEW n, NEW i, NEW free, Fits(g, "open", "closing", n, i, {}, free)
    PROVE  Fits(CloseWindow(OwnFreed(Unload(g, free))), "closed", "program", n, i, {}, {})
<1>1. g.open /\ ~g.drawing /\ g.batch = {} /\ g.gpu = free /\ g.depth = 0
  BY DEF Fits
<1> DEFINE u == [g EXCEPT !.gpu = @ \ free]
<1> DEFINE w == [u EXCEPT !.rects = FALSE, !.material = FALSE]
<1>2. OwnFreed(Unload(g, free)) = w
  BY <1>1 DEF Unload, Checked, OwnFreed
<1>3. w \in GlType /\ w.gpu = {} /\ ~w.rects /\ ~w.material /\ w.depth = 0
  BY <1>1 DEF GlType, Fits
<1> DEFINE c == [w EXCEPT !.open = FALSE, !.drawing = FALSE]
<1>4. CloseWindow(w) = c
  BY <1>3 DEF CloseWindow, Checked
<1>5. c \in GlType
  BY <1>3 DEF GlType
<1>6. /\ c.open = FALSE /\ c.drawing = FALSE /\ c.depth = g.depth /\ c.batch = g.batch
      /\ c.gpu = {} /\ c.rects = FALSE /\ c.material = FALSE /\ c.misuse = g.misuse
  BY <1>1 DEF Fits, GlType
<1> HIDE DEF c
<1>7. Fits(c, "closed", "program", n, i, {}, {})
  BY <1>1, <1>5, <1>6 DEF Fits
<1> QED
  BY <1>2, <1>4, <1>7

\* What is drawn with a texture of the window, and what a window makes for
\* itself and for the program.
LEMMA DrawnFits ==
    ASSUME NEW g, NEW n, NEW i, NEW live, NEW free, NEW id \in live \cap Ids,
           Fits(g, "open", "program", n, i, live, free)
    PROVE  Fits([g EXCEPT !.batch = @ \cup {id}], "open", "program", n, i, live, free)
BY DEF Fits, GlType

LEMMA OwnFits ==
    ASSUME NEW g, NEW n, NEW i, NEW live, NEW free, Fits(g, "open", "program", n, i, live, free)
    PROVE  /\ Fits(RectsDrawn(g), "open", "program", n, i, live, free)
           /\ Fits(MeshDrawn(g), "open", "program", n, i, live, free)
BY DEF Fits, GlType, RectsDrawn, MeshDrawn, Flush

LEMMA MadeFits ==
    ASSUME NEW g, NEW n, NEW i, NEW live, NEW free, NEW id \in Ids,
           Fits(g, "open", "program", n, i, live, free)
    PROVE  Fits([g EXCEPT !.gpu = @ \cup {id}], "open", "program", n, i, live \cup {id}, free)
BY DEF Fits, GlType
-----------------------------------------------------------------------------
\* A step of the thread with the raylib window.
LEMMA RaylibInvReal ==
    ASSUME ProgramInv, RaylibInv, NEW t \in Threads, Real(t), Acts(t)
    PROVE  RaylibInv'
<1>1. t \in RealWindows /\ Follows(t) /\ \A u \in RealWindows : u = t
  BY RealAssumption DEF Real, RaylibInv
<1>2. SUFFICES Fits(gl', phase'[t], step'[t], frames'[t], in3d'[t], Live(t)', freeing'[t])
  BY <1>1 DEF RaylibInv, Follows, Fits
<1> DEFINE n == frames[t]
           i == in3d[t]
           live == Live(t)
           free == freeing[t]
<1>3. Fits(gl, phase[t], step[t], n, i, live, free)
  BY <1>1 DEF Follows
<1>4. n \in Nat /\ i \in BOOLEAN /\ live \subseteq Ids /\ free \subseteq Ids
  BY DEF ProgramInv, ProgramType, Live
<1>5. \A u \in Threads : step[u] # "program" => phase[u] = "open"
  BY DEF ProgramInv, FramesInTurn
<1>6. /\ live \cap free = {}
      /\ free # {} => step[t] \in {"start", "closing"}
      /\ step[t] = "closing" \/ phase[t] = "closed" => live = {}
  BY DEF ProgramInv, InOnePlace
<1>7. CASE Open(t)
  <2>1. gl' = [gl EXCEPT !.open = TRUE] /\ phase'[t] = "open" /\ UNCHANGED <<step, frames, in3d, freeing>>
    BY <1>7 DEF Open, OnGl, objects, ProgramInv, ProgramType
  <2>2. Live(t)' = live
    BY <1>7, LiveKept DEF Open, objects
  <2>3. phase[t] = "not_opened" /\ n = 0
    BY <1>7 DEF Open, ProgramInv, FramesInTurn
  <2>4. /\ gl' \in GlType /\ gl'.open = TRUE /\ gl'.drawing = gl.drawing /\ gl'.depth = gl.depth
        /\ gl'.batch = gl.batch /\ gl'.gpu = gl.gpu /\ gl'.rects = gl.rects
        /\ gl'.material = gl.material /\ gl'.misuse = gl.misuse
    BY <1>3, <2>1 DEF Fits, GlType
  <2> QED
    BY <1>3, <2>1, <2>2, <2>3, <2>4 DEF Fits
<1>8. CASE Close(t)
  BY <1>3, <1>8, LiveKept DEF Close, objects
<1>9. CASE EndFrame(t)
  <2>1. phase[t] = "open" /\ step[t] = "program" /\ free = {} /\ UNCHANGED <<phase, frames, freeing>>
    BY <1>6, <1>9 DEF EndFrame, Opened, objects
  <2>2. in3d'[t] = FALSE /\ gl' = FrameEnded(t)
    BY <1>9 DEF EndFrame, OnGl, ProgramInv, ProgramType
  <2>3. step'[t] \in {"close", "drain"}
    <3>1. \E v \in {"close", "drain"} : step' = [step EXCEPT ![t] = v]
      BY <1>9, Zenon DEF EndFrame
    <3> QED
      BY <3>1 DEF ProgramInv, ProgramType
  <2>4. Live(t)' = live
    BY <1>9, LiveKept DEF EndFrame, objects
  <2>5. Fits(AfterPass(t), "open", "program", n, FALSE, live, free)
    BY <1>3, <1>4, <2>1, EndPassFits DEF AfterPass
  <2>6. Fits(FrameEnded(t), "open", step'[t], n, FALSE, live, free)
    BY <1>4, <2>3, <2>5, EndFrameFits DEF FrameEnded
  <2> QED
    BY <2>1, <2>2, <2>4, <2>6
<1>10. CASE Drain(t)
  <2>1. UNCHANGED <<phase, frames, in3d, gl>> /\ step'[t] = "start" /\ freeing'[t] = queue \cap live
    BY <1>10 DEF Drain, Taken, ProgramInv, ProgramType
  <2>2. Live(t)' = live \ queue
    BY <1>10 DEF Drain, Without, Taken, ProgramInv, ProgramType, Live
  <2>3. step[t] = "drain" /\ phase[t] = "open" /\ free = {}
    BY <1>5, <1>6, <1>10 DEF Drain
  <2> QED
    BY <1>3, <2>1, <2>2, <2>3 DEF Fits
<1>11. CASE StartFrame(t)
  <2>1. /\ phase' = phase /\ phase[t] = "open" /\ step[t] = "start" /\ step'[t] = "program"
        /\ frames'[t] = 1 /\ in3d'[t] = FALSE /\ freeing'[t] = {}
        /\ gl' = BeginDrawing(Unload(gl, free))
    BY <1>5, <1>11 DEF StartFrame, OnGl, ProgramInv, ProgramType
  <2>2. Live(t)' = live
    BY <1>11, LiveKept DEF StartFrame
  <2>3. Fits(gl, "open", "start", n, i, live, free)
    BY <1>3, <2>1
  <2>4. Fits(BeginDrawing(Unload(gl, free)), "open", "program", 1, FALSE, live, {})
    BY <1>6, <2>3, StartFits
  <2> QED
    BY <2>1, <2>2, <2>4
<1>12. CASE TakeAll(t)
  <2>1. UNCHANGED <<phase, frames, in3d, gl>> /\ step'[t] = "closing" /\ freeing'[t] = live
    BY <1>12 DEF TakeAll, ProgramInv, ProgramType
  <2>2. Live(t)' = {}
    BY <1>12 DEF TakeAll, Without, ProgramInv, ProgramType, Live
  <2>3. step[t] = "close" /\ phase[t] = "open" /\ free = {}
    BY <1>5, <1>6, <1>12 DEF TakeAll
  <2> QED
    BY <1>3, <2>1, <2>2, <2>3 DEF Fits
<1>13. CASE EndWindow(t)
  <2>1. /\ phase[t] = "open" /\ phase'[t] = "closed" /\ step[t] = "closing" /\ step'[t] = "program"
        /\ UNCHANGED <<frames, in3d>> /\ freeing'[t] = {}
        /\ gl' = CloseWindow(OwnFreed(Unload(gl, free)))
    BY <1>5, <1>13 DEF EndWindow, OnGl, ProgramInv, ProgramType
  <2>2. live = {} /\ Live(t)' = {}
    BY <1>6, <1>13, LiveKept DEF EndWindow
  <2> QED
    BY <1>3, <2>1, <2>2, EndWindowFits
<1>14. CASE Draw(t)
  <2>1. /\ phase[t] = "open" /\ step[t] = "program" /\ UNCHANGED <<phase, step, frames, freeing>>
        /\ UNCHANGED registry
    BY <1>14 DEF Draw, DrawShape, Clear, DrawRects, SetCamera, DrawShape3D, Sprite, DrawMesh,
                 In2D, In3D, Opened, window, objects
  <2>2. Live(t)' = live
    BY <2>1, LiveKept
  <2>3. Fits(AfterPass(t), "open", "program", n, FALSE, live, free)
    BY <1>3, <1>4, <2>1, EndPassFits DEF AfterPass
  <2>4. SUFFICES Fits(gl', "open", "program", n, in3d'[t], live, free)
    BY <2>1, <2>2
  <2>5. CASE In2D(t)
    <3>1. in3d'[t] = FALSE
      BY <2>5 DEF In2D, ProgramInv, ProgramType
    <3>2. SUFFICES Fits(gl', "open", "program", n, FALSE, live, free)
      BY <3>1
    <3>3. CASE DrawShape(t)
      BY <2>3, <3>3 DEF DrawShape, OnGl
    <3>4. CASE Clear(t)
      BY <2>3, <3>4, FlushFits DEF Clear, OnGl
    <3>5. CASE DrawRects(t)
      BY <2>3, <3>5, OwnFits DEF DrawRects, OnGl
    <3>6. ASSUME NEW id \in Ids, Sprite(t, id)  PROVE Fits(gl', "open", "program", n, FALSE, live, free)
      <4>1. id \in live
        BY <3>6 DEF Sprite, Live
      <4> QED
        BY <2>3, <3>6, <4>1, DrawnFits DEF Sprite, OnGl
    <3>7. CASE In3D(t)
      <4>1. in3d'[t] = TRUE
        BY <3>7 DEF In3D, ProgramInv, ProgramType
      <4> QED
        BY <3>1, <4>1
    <3> QED
      BY <1>14, <3>3, <3>4, <3>5, <3>6, <3>7 DEF Draw, SetCamera, DrawShape3D, DrawMesh
  <2>6. CASE In3D(t)
    <3>1. in3d'[t] = TRUE
      BY <2>6 DEF In3D, ProgramInv, ProgramType
    <3>2. SUFFICES Fits(gl', "open", "program", n, TRUE, live, free)
      BY <3>1
    <3>3. Fits(BeginMode3D(AfterPass(t)), "open", "program", n, TRUE, live, free)
      BY <2>3, BeginPassFits
    <3>4. Fits(Begun(t), "open", "program", n, TRUE, live, free)
      <4>1. CASE in3d[t]
        BY <1>3, <2>1, <4>1 DEF Begun, Fits
      <4>2. CASE ~in3d[t]
        BY <3>3, <4>2 DEF Begun, AfterPass
      <4> QED
        BY <4>1, <4>2
    <3>5. CASE SetCamera(t)
      BY <3>3, <3>5 DEF SetCamera, OnGl
    <3>6. CASE DrawShape3D(t)
      BY <3>4, <3>6 DEF DrawShape3D, OnGl
    <3>7. ASSUME NEW id \in Ids, DrawMesh(t, id)  PROVE Fits(gl', "open", "program", n, TRUE, live, free)
      BY <3>4, <3>7, OwnFits DEF DrawMesh, OnGl
    <3>8. CASE In2D(t)
      <4>1. in3d'[t] = FALSE
        BY <3>8 DEF In2D, ProgramInv, ProgramType
      <4> QED
        BY <3>1, <4>1
    <3> QED
      BY <1>14, <3>5, <3>6, <3>7, <3>8 DEF Draw, DrawShape, Clear, DrawRects, Sprite
  <2> QED
    BY <1>14, <2>5, <2>6 DEF Draw, DrawShape, Clear, DrawRects, SetCamera, DrawShape3D, Sprite, DrawMesh
<1>15. ASSUME NEW kind \in Kinds, Make(t, kind)
       PROVE  Fits(gl', phase'[t], step'[t], frames'[t], in3d'[t], Live(t)', freeing'[t])
  <2>1. phase[t] = "open" /\ step[t] = "program" /\ UNCHANGED <<phase, step, frames, in3d, freeing>>
    BY <1>15 DEF Make, Opened, window
  <2>2. nextId \in Ids
    BY <1>15, BoundsAssumption DEF Make, ProgramInv, ProgramType, Ids
  <2>3. Live(t)' = live \cup {nextId}
    BY <1>15, <2>2 DEF Make, ProgramInv, ProgramType, Live, Kinds
  <2>4. gl' = [gl EXCEPT !.gpu = @ \cup {nextId}]
    BY <1>15 DEF Make, OnGl
  <2> QED
    BY <1>3, <2>1, <2>2, <2>3, <2>4, MadeFits
<1> QED
  BY <1>7, <1>8, <1>9, <1>10, <1>11, <1>12, <1>13, <1>14, <1>15 DEF Acts, Frame

LEMMA RaylibInvStep == ProgramInv /\ RaylibInv /\ [Next]_vars => RaylibInv'
<1> SUFFICES ASSUME ProgramInv, RaylibInv, [Next]_vars  PROVE RaylibInv'
  OBVIOUS
<1>1. ASSUME NEW t \in Threads, Acts(t)  PROVE RaylibInv'
  BY <1>1, RaylibInvHeadless, RaylibInvReal
<1>2. ASSUME gl' = gl, UNCHANGED <<registry, freeing, phase, step, frames, in3d>>  PROVE RaylibInv'
  <2>1. \A t \in RealWindows : Follows(t)'
    BY <1>2, LiveKept, RealAssumption DEF RaylibInv, Follows
  <2> QED
    BY <1>2, <2>1 DEF RaylibInv
<1>3. ASSUME NEW id \in Ids, Drop(id)  PROVE RaylibInv'
  BY <1>2, <1>3 DEF Drop, window
<1>4. CASE UNCHANGED vars
  BY <1>2, <1>4 DEF vars
<1> QED
  BY <1>1, <1>3, <1>4 DEF Next, Acts, FrameAfterEnd
-----------------------------------------------------------------------------
THEOREM InvAlways == Spec => []Inv
<1>1. Init => Inv
  BY ProgramInvInit, RaylibInvInit DEF Inv
<1>2. Inv /\ [Next]_vars => Inv'
  BY ProgramInvStep, RaylibInvStep DEF Inv
<1> QED
  BY <1>1, <1>2, PTL DEF Spec

\* raylib is used as it allows (pass.rs, gpu.rs, the drawing natives): its
\* passes and frames are paired, and a texture is not unloaded while what was
\* drawn with it is batched.
THEOREM RaylibUsed == Spec => []RaylibUsedAsAllowed
<1>1. Inv => RaylibUsedAsAllowed
  <2> SUFFICES ASSUME Inv  PROVE RaylibUsedAsAllowed
    OBVIOUS
  <2> USE DEF Inv, RaylibInv
  <2>1. gl.open = (\E t \in RealWindows : phase[t] = "open")
    <3>1. CASE RealWindows = {}
      <4>1. gl.open = FALSE
        BY <3>1 DEF Closed
      <4> QED
        BY <3>1, <4>1
    <3>2. ASSUME NEW t \in RealWindows  PROVE gl.open = (\E u \in RealWindows : phase[u] = "open")
      <4>1. gl.open <=> (\E u \in RealWindows : phase[u] = "open")
        BY <3>2, RealAssumption DEF Follows, Fits
      <4>2. gl.open \in BOOLEAN
        BY DEF GlType
      <4> QED
        BY <4>1, <4>2
    <3> QED
      BY <3>1, <3>2
  <2>2. TypeOK
    BY <2>1 DEF TypeOK, ProgramInv, ProgramType, GlType
  <2>3. PassesPaired
    BY DEF PassesPaired, Follows, Fits
  <2>4. PendingTexturesLive
    <3>1. CASE RealWindows = {}
      BY <3>1 DEF PendingTexturesLive, Closed
    <3>2. CASE RealWindows # {}
      BY <3>2 DEF PendingTexturesLive, Follows, Fits
    <3> QED
      BY <3>1, <3>2
  <2> QED
    BY <2>2, <2>3, <2>4 DEF RaylibUsedAsAllowed
<1> QED
  BY <1>1, InvAlways, PTL

\* No object on the GPU is lost (gpu.rs): one that is held is there until its
\* window closes, one that was dropped is there or unloaded, and a window that
\* closed has left nothing.
THEOREM ObjectsKept == Spec => []ObjectsHold
<1>1. Inv => ObjectsHold
  <2> SUFFICES ASSUME Inv  PROVE ObjectsHold
    OBVIOUS
  <2> USE DEF Inv, RaylibInv
  <2>1. ObjectsAccounted
    BY DEF ObjectsAccounted, ProgramInv, HeldOrDropped, Follows, Fits
  <2>2. ClosedLeavesNothing
    <3>1. CASE RealWindows = {}
      BY <3>1 DEF ClosedLeavesNothing, Closed
    <3>2. ASSUME NEW t \in RealWindows  PROVE ClosedLeavesNothing
      <4>1. Follows(t) /\ t \in Threads
        BY <3>2, RealAssumption
      <4>2. ~gl.open => phase[t] # "open" /\ step[t] = "program"
        BY <4>1 DEF Follows, Fits, ProgramInv, FramesInTurn
      <4>3. ASSUME phase[t] # "open"  PROVE Live(t) = {} /\ freeing[t] = {}
        <5>1. step[t] = "program" /\ freeing[t] = {}
          BY <4>1, <4>3 DEF ProgramInv, FramesInTurn, InOnePlace
        <5>2. CASE phase[t] = "closed"
          BY <4>1, <5>1, <5>2 DEF ProgramInv, InOnePlace
        <5>3. CASE phase[t] = "not_opened"
          <6>1. \A id \in 1..(nextId - 1) : maker[id] # t
            BY <4>1, <5>3 DEF ProgramInv, FramesInTurn
          <6>2. \A id \in Live(t) : id \in 1..(nextId - 1) /\ maker[id] = t
            BY <4>1 DEF ProgramInv, ProgramType, InOnePlace, Live, Ids
          <6> QED
            BY <5>1, <6>1, <6>2
        <5> QED
          BY <4>1, <4>3, <5>2, <5>3 DEF ProgramInv, ProgramType, Phases
      <4> QED
        BY <4>1, <4>2, <4>3 DEF ClosedLeavesNothing, Follows, Fits
    <3> QED
      BY <3>1, <3>2
  <2> QED
    BY <2>1, <2>2 DEF ObjectsHold
<1> QED
  BY <1>1, InvAlways, PTL
=============================================================================
