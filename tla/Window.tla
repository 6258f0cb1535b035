------------------------------- MODULE Window -------------------------------
(***************************************************************************)
(* The window of a Kestrel program and the GPU objects its values own      *)
(* (window/src/state.rs, gpu.rs, pass.rs, bulk.rs, material.rs and the     *)
(* natives that draw).  A texture or a mesh is made on the thread of the   *)
(* window and is dropped on any thread: a drop only queues its id, and the *)
(* frame that starts next on the maker's thread unloads it.                *)
(*                                                                         *)
(* raylib is external: `gl` is what the calls this code makes of it rely   *)
(* on - the batch of shapes it draws late, the pass it is in, what is on   *)
(* the GPU - and `gl.misuse` collects the calls it does not allow.  A      *)
(* native that is refused ends the process, so only accepted calls are     *)
(* here.  Pixels, input and the clock are not modelled.                    *)
(***************************************************************************)
EXTENDS Integers

CONSTANTS
    Threads,      \* threads that open a window
    RealWindows,  \* those whose window is a raylib window, not a headless one
    FramesToRun,  \* KESTREL_HEADLESS
    MaxObjects    \* bound: the objects made

ASSUME RealAssumption   == RealWindows \subseteq Threads /\ \A t, u \in RealWindows : t = u
ASSUME BoundsAssumption == FramesToRun \in Nat /\ MaxObjects \in Nat

VARIABLES
    phase,     \* the window of each thread: not_opened, open, closed
    asked,     \* window.close was called
    frames,    \* frames started (a real window only asks whether any has)
    step,      \* where the thread is in window.frame
    in3d,      \* pass.rs: between BeginMode3D and EndMode3D
    camera,    \* pass.rs: draw3d.camera was called
    registry,  \* gpu.rs: the objects of each thread
    freeing,   \* gpu.rs: objects out of the registry, not unloaded yet
    nextId, queue,
    handles,   \* the ids that values of the program hold
    maker,     \* history: the thread that made each object
    gl         \* raylib

vars == <<phase, asked, frames, step, in3d, camera, registry, freeing,
          nextId, queue, handles, maker, gl>>
window  == <<phase, asked, frames, step>>
objects == <<registry, freeing, nextId, queue, handles, maker>>

Ids   == 1..MaxObjects
Kinds == {"texture", "mesh"}

Real(t) == t \in RealWindows
Live(t) == {id \in Ids : registry[t][id] # "none"}
-----------------------------------------------------------------------------
(* raylib. *)

Closed == [open |-> FALSE, drawing |-> FALSE, depth |-> 0, batch |-> {}, gpu |-> {},
           rects |-> FALSE, material |-> FALSE, misuse |-> {}]

Checked(g, what, right) == IF right THEN g ELSE [g EXCEPT !.misuse = @ \cup {what}]

Flush(g) == [g EXCEPT !.batch = {}]

BeginMode3D(g) == [Checked(Flush(g), "pass", g.depth = 0) EXCEPT !.depth = @ + 1]
EndMode3D(g)   == [Checked(Flush(g), "pass", g.depth = 1) EXCEPT !.depth = @ - 1]

BeginDrawing(g) == [Checked(g, "frame", g.open /\ ~g.drawing) EXCEPT !.drawing = TRUE]
EndDrawing(g)   == [Checked(Flush(g), "frame", g.drawing /\ g.depth = 0)
                      EXCEPT !.drawing = FALSE]

\* Unloading what the batch still draws with, or what is not there.
Unload(g, ids) ==
    [Checked(g, "unload", ids \subseteq g.gpu /\ ids \cap g.batch = {}) EXCEPT !.gpu = @ \ ids]

CloseWindow(g) ==
    [Checked(g, "close", g.gpu = {} /\ ~g.rects /\ ~g.material /\ g.depth = 0)
       EXCEPT !.open = FALSE, !.drawing = FALSE]
-----------------------------------------------------------------------------
Init ==
    /\ phase    = [t \in Threads |-> "not_opened"]
    /\ asked    = [t \in Threads |-> FALSE]
    /\ frames   = [t \in Threads |-> 0]
    /\ step     = [t \in Threads |-> "program"]
    /\ in3d     = [t \in Threads |-> FALSE]
    /\ camera   = [t \in Threads |-> FALSE]
    /\ registry = [t \in Threads |-> [id \in Ids |-> "none"]]
    /\ freeing  = [t \in Threads |-> {}]
    /\ nextId = 1 /\ queue = {} /\ handles = {}
    /\ maker = [id \in Ids |-> "none"]
    /\ gl = Closed

Opened(t)  == phase[t] = "open" /\ step[t] = "program"
OnGl(t, g) == IF Real(t) THEN g ELSE gl

Open(t) ==
    /\ phase[t] = "not_opened"
    /\ phase' = [phase EXCEPT ![t] = "open"]
    /\ gl' = OnGl(t, [gl EXCEPT !.open = TRUE])
    /\ UNCHANGED <<asked, frames, step, in3d, camera, objects>>

Close(t) ==
    /\ Opened(t)
    /\ asked' = [asked EXCEPT ![t] = TRUE]
    /\ UNCHANGED <<phase, frames, step, in3d, camera, objects, gl>>
-----------------------------------------------------------------------------
(* window.frame, from the end of the last frame to the start of the next.  *)
(* The steps are those between which another thread can queue a drop.      *)

\* Nothing batched is left when objects are unloaded, and no pass goes on.
AfterPass(t) == IF in3d[t] THEN EndMode3D(gl) ELSE gl
FirstFrameUnflushed(t) == \* seeded fault
    IF frames[t] > 0 THEN EndDrawing(AfterPass(t)) ELSE AfterPass(t)
FrameEnded(t) ==
    IF frames[t] > 0 THEN EndDrawing(AfterPass(t)) ELSE Flush(AfterPass(t))

\* The user of a real window may close it; a headless one runs out of frames.
EndsLate(t) == \* seeded fault
    IF asked[t] THEN {TRUE}
    ELSE IF Real(t) THEN BOOLEAN ELSE {frames[t] > FramesToRun}

Ends(t) ==
    IF asked[t] THEN {TRUE}
    ELSE IF Real(t) THEN BOOLEAN ELSE {frames[t] >= FramesToRun}

EndFrame(t) ==
    /\ Opened(t)
    /\ \E ends \in Ends(t) : step' = [step EXCEPT ![t] = IF ends THEN "close" ELSE "drain"]
    /\ gl' = OnGl(t, FrameEnded(t))
    /\ in3d' = [in3d EXCEPT ![t] = @ /\ ~Real(t)]
    /\ UNCHANGED <<phase, asked, frames, camera, objects>>

\* gpu::drain, as far as the lock of the queue is held.
Without(t, ids) ==
    [registry EXCEPT ![t] = [id \in Ids |-> IF id \in ids THEN "none" ELSE @[id]]]

TakenIfAllOwn(t) == IF queue \subseteq Live(t) THEN queue ELSE {} \* seeded fault
Taken(t)         == queue \cap Live(t)

NoneLeft(t)   == {} \* seeded fault
LeftQueued(t) == queue \ Taken(t)

Drain(t) ==
    /\ step[t] = "drain"
    /\ freeing' = [freeing EXCEPT ![t] = Taken(t)]
    /\ registry' = Without(t, Taken(t))
    /\ queue' = LeftQueued(t)
    /\ step' = [step EXCEPT ![t] = "start"]
    /\ UNCHANGED <<phase, asked, frames, in3d, camera, nextId, handles, maker, gl>>

\* The rest of gpu::drain, and the next frame: it starts in 2D.
StartFrame(t) ==
    /\ step[t] = "start"
    /\ gl' = OnGl(t, BeginDrawing(Unload(gl, freeing[t])))
    /\ freeing' = [freeing EXCEPT ![t] = {}]
    /\ in3d' = [in3d EXCEPT ![t] = FALSE]
    /\ frames' = [frames EXCEPT ![t] = IF Real(t) THEN 1 ELSE @ + 1]
    /\ step' = [step EXCEPT ![t] = "program"]
    /\ UNCHANGED <<phase, asked, camera, registry, nextId, queue, handles, maker>>

\* gpu::close_all, as far as the lock of the queue is held.
TakeAll(t) ==
    /\ step[t] = "close"
    /\ freeing' = [freeing EXCEPT ![t] = Live(t)]
    /\ registry' = Without(t, Ids)
    /\ queue' = queue \ Live(t)
    /\ step' = [step EXCEPT ![t] = "closing"]
    /\ UNCHANGED <<phase, asked, frames, in3d, camera, nextId, handles, maker, gl>>

\* bulk::close and material::close.
OwnKept(g)  == g \* seeded fault
OwnFreed(g) == [g EXCEPT !.rects = FALSE, !.material = FALSE]

EndWindow(t) ==
    /\ step[t] = "closing"
    /\ gl' = OnGl(t, CloseWindow(OwnFreed(Unload(gl, freeing[t]))))
    /\ freeing' = [freeing EXCEPT ![t] = {}]
    /\ phase' = [phase EXCEPT ![t] = "closed"]
    /\ step' = [step EXCEPT ![t] = "program"]
    /\ UNCHANGED <<asked, frames, in3d, camera, registry, nextId, queue, handles, maker>>

\* After that, frame() gives false and does nothing.
FrameAfterEnd(t) == phase[t] = "closed" /\ UNCHANGED vars
-----------------------------------------------------------------------------
(* Drawing.  A call of `draw` is 2D and ends a pass; one of `draw3d` is 3D *)
(* and begins a pass with the camera kept.                                 *)

In2D(t) ==
    /\ Opened(t)
    /\ in3d' = [in3d EXCEPT ![t] = FALSE]
    /\ UNCHANGED <<window, camera, objects>>

In3D(t) ==
    /\ Opened(t)
    /\ in3d' = [in3d EXCEPT ![t] = TRUE]
    /\ UNCHANGED <<window, objects>>

BegunAnyway(t) == BeginMode3D(gl) \* seeded fault
Begun(t) == IF in3d[t] THEN gl ELSE BeginMode3D(gl)

DrawShape(t) == In2D(t) /\ gl' = OnGl(t, AfterPass(t))

\* draw.clear and window.screenshot draw what is batched first.
Clear(t) == In2D(t) /\ gl' = OnGl(t, Flush(AfterPass(t)))

\* bulk.rs makes the mesh of the window and the material on first use.
RectsDrawn(g) == [Flush(g) EXCEPT !.rects = TRUE, !.material = TRUE]

DrawRects(t) ==
    /\ In2D(t)
    /\ \E none \in BOOLEAN :
          gl' = OnGl(t, IF none THEN AfterPass(t) ELSE RectsDrawn(AfterPass(t)))

Sprite(t, id) ==
    /\ registry[t][id] = "texture"
    /\ In2D(t)
    /\ gl' = OnGl(t, [AfterPass(t) EXCEPT !.batch = @ \cup {id}])

SetCamera(t) ==
    /\ In3D(t)
    /\ camera' = [camera EXCEPT ![t] = TRUE]
    /\ gl' = OnGl(t, BeginMode3D(AfterPass(t)))

DrawShape3D(t) ==
    /\ In3D(t)
    /\ camera[t] /\ UNCHANGED camera
    /\ gl' = OnGl(t, Begun(t))

\* A mesh is drawn at once, after the shapes batched before it.  One without
\* parts draws nothing.
MeshDrawn(g) == [Flush(g) EXCEPT !.material = TRUE]

DrawMesh(t, id) ==
    /\ registry[t][id] = "mesh"
    /\ In3D(t)
    /\ camera[t] /\ UNCHANGED camera
    /\ \E empty \in BOOLEAN :
          gl' = OnGl(t, IF empty THEN Begun(t) ELSE MeshDrawn(Begun(t)))
-----------------------------------------------------------------------------
(* Objects. *)

Make(t, kind) ==
    /\ Opened(t)
    /\ nextId <= MaxObjects
    /\ registry' = [registry EXCEPT ![t][nextId] = kind]
    /\ maker' = [maker EXCEPT ![nextId] = t]
    /\ handles' = handles \cup {nextId}
    /\ nextId' = nextId + 1
    /\ gl' = OnGl(t, [gl EXCEPT !.gpu = @ \cup {nextId}])
    /\ UNCHANGED <<window, in3d, camera, freeing, queue>>

\* The value that holds the handle is dropped, on whatever thread it is.
Drop(id) ==
    /\ id \in handles
    /\ handles' = handles \ {id}
    /\ queue' = queue \cup {id}
    /\ UNCHANGED <<window, in3d, camera, registry, freeing, nextId, maker, gl>>
-----------------------------------------------------------------------------
Draw(t) ==
    \/ DrawShape(t) \/ Clear(t) \/ DrawRects(t) \/ SetCamera(t) \/ DrawShape3D(t)
    \/ \E id \in Ids : Sprite(t, id) \/ DrawMesh(t, id)

Frame(t) == EndFrame(t) \/ Drain(t) \/ StartFrame(t) \/ TakeAll(t) \/ EndWindow(t)

Next ==
    \/ \E t \in Threads :
         \/ Open(t) \/ Close(t) \/ Frame(t) \/ FrameAfterEnd(t) \/ Draw(t)
         \/ \E kind \in Kinds : Make(t, kind)
    \/ \E id \in Ids : Drop(id)

Spec == Init /\ [][Next]_vars

\* A program's loop asks for the next frame until there is none.
FairSpec == Spec /\ \A t \in Threads : WF_vars(Frame(t))
-----------------------------------------------------------------------------
Phases == {"not_opened", "open", "closed"}
Steps  == {"program", "drain", "start", "close", "closing"}

\* Every variable has its type; raylib is open just while the real window is.
TypeOK ==
    /\ phase \in [Threads -> Phases]
    /\ asked \in [Threads -> BOOLEAN]
    /\ \A t \in Threads : frames[t] \in 0..(IF Real(t) THEN 1 ELSE FramesToRun)
    /\ step \in [Threads -> Steps]
    /\ in3d \in [Threads -> BOOLEAN]
    /\ camera \in [Threads -> BOOLEAN]
    /\ registry \in [Threads -> [Ids -> Kinds \cup {"none"}]]
    /\ freeing \in [Threads -> SUBSET Ids]
    /\ nextId \in 1..(MaxObjects + 1)
    /\ queue \in SUBSET Ids /\ handles \in SUBSET Ids
    /\ maker \in [Ids -> Threads \cup {"none"}]
    /\ gl.open = (\E t \in RealWindows : phase[t] = "open")
    /\ gl.batch \in SUBSET Ids /\ gl.gpu \in SUBSET Ids /\ gl.depth \in Int

\* What raylib draws with later is still there when it does: a texture that
\* was drawn with and then dropped, on any thread, is unloaded after the batch
\* that names it was drawn, and every object is unloaded once.
PendingTexturesLive == gl.batch \subseteq gl.gpu /\ "unload" \notin gl.misuse

\* raylib's passes and frames are paired whatever the order of 2D calls, 3D
\* calls and frames is: pass.rs knows which pass raylib is in, and no frame and
\* no window ends inside one.
PassesPaired ==
    /\ \A t \in RealWindows : gl.depth = IF in3d[t] THEN 1 ELSE 0
    /\ gl.misuse \cap {"pass", "frame"} = {}

\* No object is lost: one that a value still holds is there until its window
\* closes, one that is there is held or waits to be freed, and the GPU holds
\* just what the registry and the frame now starting account for.
ObjectsAccounted ==
    /\ \A t \in Threads, id \in handles :
          maker[id] = t /\ phase[t] = "open" /\ step[t] # "closing" => id \in Live(t)
    /\ \A t \in Threads : Live(t) \subseteq handles \cup queue
    /\ \A t \in RealWindows : gl.gpu = Live(t) \cup freeing[t]

\* A window that closed has left nothing on the GPU: not the program's objects,
\* held or dropped, and not the two the window made for itself.
ClosedLeavesNothing ==
    /\ "close" \notin gl.misuse
    /\ ~gl.open => gl.gpu = {} /\ gl.batch = {} /\ ~gl.rects /\ ~gl.material

\* raylib is used as it allows: in its passes and frames, and with textures
\* that are there when it draws.
RaylibUsedAsAllowed == TypeOK /\ PassesPaired /\ PendingTexturesLive

\* Nothing on the GPU is lost, and nothing is left when its window closes.
ObjectsHold == ObjectsAccounted /\ ClosedLeavesNothing

\* An object that was dropped goes, as long as its window has frames or ends: a
\* thread that drains leaves the others' ids for them.
DroppedObjectsGo ==
    \A t \in Threads, id \in Ids :
        (id \in queue /\ id \in Live(t)) ~> (id \notin Live(t) /\ id \notin freeing[t])
=============================================================================
