# Verification of the Kestrel compiler and runtime

Kestrel is a statically typed language for games. A Rust workspace under
`src/kestrel` holds its compiler (`syntax`, `check`, `kir`, `codegen`,
`driver`, `cli`), the runtime that compiled programs link (`runtime`,
`window`), a Godot add-on that runs Kestrel scripts in a host (`godot`) and a
language server (`lsp`). The window draws with raylib, whose C code is in the
tree (`window/raylib`) and is most of it. This directory holds TLA+ models of
the parts whose correctness depends on an order of steps, of the compiler's
range analysis and of raylib's algorithms, the TLC runs that check them, and
proofs for TLAPS.

Contents: 1 inventory, 2 what is hard, 3 the modules and the code, 4 the runs,
5 fairness, 6 the proofs, 7 what the models found, 8 what is not modelled,
9 the plan, 10 how to run.

## 1. Inventory

| Component | State | Operations | Talks to |
| --- | --- | --- | --- |
| `runtime/src/par.rs` thread pool | per job: next, failed, failure, growth lock, (participants, arenas); per process: ticket channel, live count, spawning lock; per thread: CURRENT | run_job, reserve, send, serve, participate, fail_in_job, shared_growth | arenas (adopt), panic (a failing iteration), lists and maps (growth lock) |
| `runtime/src/map.rs`, `map_copy.rs` hash map | entries in insertion order, slot table, used, count, locks | find, insert, remove, dup, copy_into, make_room | generated loops (lock/unlock), arenas |
| `runtime/src/list.rs` lists | items, len, cap | remove, insert, clear, copy, compact, grow | generated `remove` loops, arenas |
| `runtime/src/arena.rs`, `blocks.rs` memory | per thread: stack of pushed arenas, spare blocks; per arena: blocks, free range, children | push, pop, new, alloc, grow, adopt, free | everything that allocates |
| `runtime/src/sort.rs` | none | stable merge sort, permute | lists |
| `runtime/src/replay/`, `replay_file.rs` | process mode (record, replay), native log and cursor, output log and unfinished line, frames | record or play, note a frame, print, finish, compare | every input native, print, panic, the window |
| `runtime/src/gpu.rs`, `window/src/gpu.rs` | process: NEXT_ID, drop queue; per thread: registry | add, queue_drop, drain, close_all | arenas (a drop hook frees a handle), the window |
| `window/src/state.rs`, `pass.rs` | not opened, open, closed; 2D/3D pass, camera | open, frame, close, begin/end 3D | raylib |
| `raylib/rlgl.h`, modes of `rcore.c` | RLGL: vertex buffer, list of draws, matrices and their stack, texture, shader, blending | rlBegin, rlVertex3f, rlSetTexture, rlDrawRenderBatch, Begin/End of modes | OpenGL; everything that draws |
| `raylib/rcore.c`, `rcore_desktop_glfw.c`, `rgestures.h` input | CORE.Input (keys, queues, mouse, touch, gamepads), GESTURES, the list of recorded events | callbacks of GLFW, PollInputEvents, IsKeyPressed and the like, record and play events | GLFW; the program, once a frame |
| `raylib/raymath.h`, `rcamera.h` | none | vectors, matrices, quaternions, cameras | rcore, rmodels, rlgl |
| `raylib/rtextures.c` | none (an image is its caller's) | pixel formats, generators, cutting, turning, filters, drawing on images | rtext, textures on the GPU |
| `raylib/rshapes.c` | the texture shapes are drawn with | shapes, curves, tests of collision | rlgl |
| `raylib/rmodels.c` | none (meshes, models are their caller's) | solids, generators of meshes, rays, skeletons | rlgl, raymath |
| `raylib/rtext.c`, paths and bytes of `rcore.c` | static buffers of results | UTF-8, strings, paths, Base64, layout, a font's picture | rtextures, rlgl |
| `godot/src` host | path, loaded program and the times of its files, worker (thread and its two channels) | load, run, refresh, failure hook | the runtime, the driver |
| `lsp/src` server | open documents (dirty, lower, analysis, good, lens), what each program found by file, settings | open, change, save, close, configure, request, flush, crash of an analysis | the driver |
| `kir/src/range` range analysis | at each point of a function: a range for each number, facts a - b <= c between two | evaluate, refine by a condition, assign, join, widen, run a loop to its fixed point, decide checks, trust assumptions | lowering (the checks), codegen (leaves the proven ones out) |
| `driver`, `cli` | none between runs | build, check, run, replay | the compiler |
| `syntax`, `check`, `kir`, `codegen` compiler | per compilation | parse, check, lower, range proofs, emit | one another, once per compilation |

What makes each modelled component correct:

- **par for**: the loop gives what a plain `for` gives, with the same failure
  at any thread count; each iteration runs once; what the body made outlives
  the loop; nobody reads the caller's variables after the loop returned; two
  threads never get the same memory of a shared arena; the loop returns.
- **map**: it is a map that keeps insertion order; a key is found if and only
  if it is there; probing ends; a loop over a map visits its keys in order and
  is never left with a pointer to moved memory; locks are undone on every way
  out.
- **loops that remove**: however such a loop is left, its list holds the items
  that were not removed, in their order, and zeros after them; nobody reaches
  freed memory through a list.
- **range analysis**: no check is left out that some run fails; a range holds
  every value that its expression has.
- **window**: raylib is used as it allows; objects are unloaded once, by the
  thread that made them, after whatever still draws with them; nothing is left
  when the window closes.
- **replay**: a deterministic program's replay matches its recording on any
  machine, and a match means that the same things happened.
- **Godot host**: what runs is the last version that compiled; its constants
  live as long as it does; changes on disk are noticed; a call always ends.
- **language server**: when it rests, the editor shows what the open programs
  have now; positions follow edits; nothing is forgotten or retried for ever.
- **raylib's drawing layer**: the device draws what the program drew, in that
  order, each shape with the texture, transform and state of the moment it was
  drawn, however full the buffers are; modes leave nothing behind.
- **raylib's input**: each frame tells the program what the user did since the
  last; a gesture has a button that began it; a recording plays as it was.
- **raylib's algorithms**: the many ways to do one thing agree, what is stored
  or encoded comes back, what is filled covers its outline and no more, and
  nothing is written outside an image, a text or an atlas.

## 2. What is hard here

`PROJECT.json` lists the hazards, each at its line, with the properties that
would catch it. In short:

- *Interleaving*: chunks, failures and growths of a `par for`
  (`ParFor`); drops queued by any thread while a window drains or closes
  (`Window`); files written while a host compiles (`GodotHost`).
- *Waiting*: a caller that fails waits for one participant left, one that
  succeeds for none; threads that failed never answer again.
- *Stale state*: a slot found before a table was rebuilt; a pointer into
  entries that a loop's body moves; a fact about a variable that the loop's
  body has changed; findings of a text that has changed since; the times of the
  files of a program that was put back.
- *Partial failure*: a reload takes the program out before any of the steps
  that can fail; an analysis panics; a recorded program fails in the middle
  of a line; a removing loop is left half way, its list half compacted.
- *Long sequences of legal calls*: a table of a map that is never empty
  enough; passes and frames of raylib in any order; modes in modes while
  shapes wait to be drawn.
- *Limits*: a vertex buffer that fills inside a shape; a queue of keys that is
  full; a list of events that is.
- *Edges of numbers*: the bounds of a division when the divisor's range passes
  0, shifts and factors of ten pixel formats, drawing that begins left of an
  image, an odd number of pieces, a ray along a face, a
  sequence of bytes that ends too early.

Hazards of parts without a model, which no property covers: an arena freed
while it is pushed, or pushed and left by an early way out
(runtime/src/arena.rs:209); the free range of an arena that is empty, exactly
full or kept (arena.rs:61); the line of a failure, a global that every failing
call has to store (runtime/src/panic.rs:84).

## 3. The modules and the code

The dashes show EXTENDS (`<-`) and INSTANCE (`~`).

    PlainFor   ~ ParFor <- ParForInv <- ParForProofs
    OrderedMap ~ HashMap <- MCHashMap
                 HashMap <- Collections <- MCCollections, HashMapProofs
    RemoveLoop ~           Collections
    Window     <- WindowProofs
    GodotHost  <- GodotHostProofs,  GodotHost <- MCGodotHost
    Rlgl       <- RlglProofs
    Lsp        <- MCLsp, AnalysisProofs
    Input      <- MCInput, InputProofs
    Replay     <- MCReplay, ReplayProofs

    Numbers <- Raymath <- MathLaws                               ~ Algorithms
               Raymath <- Solids <- Meshes <- SolidLaws          ~ Algorithms
            <- Pixels <- Images <- ImageLaws                     ~ Algorithms
            <- Shapes <- ShapeLaws                               ~ Algorithms
            <- Intervals <- Facts <- Ranges <- RangeLaws         ~ Algorithms
               Intervals <- AnalysisProofs
               Text <- TextLaws                                  ~ Algorithms
                                                   Algorithms <- MCAlgorithms

Definitions marked `seeded fault` are used by no specification: each is the
form its neighbour would have with a plausible mistake in the code, and
`PROJECT.json` ("mutants") says which property then fails in which run. They
show that every property of every passing run can fail.

### ParFor (runtime/src/par.rs)

One action is one atomic access to what the threads share: the chunk counter
(`TakeChunk`, the fetch_add), the failed flag (`CheckFailed`), a mutex held
once (`FailIteration`, `Leave`, `Report`, `Uncount`), the ticket channel
(`Send`, `TakeTicket`). Two regions are two steps because what lies between
matters: `reserve` starts a thread and then counts it (`StartThread`,
`CountThread`), and `shared_growth` runs the bump allocator under the lock
(`LockGrowth`, `Grow`), so that a missing lock would be seen. `next` moves on
past the end as the code's counter does. The condition variable is
`asleep`/`asleepLast`, woken by `Finish` as `Job::finish` notifies, and also
for no reason (`SpuriousWake`). `pc` is where each thread is; `mine` is
CURRENT. What an iteration does is fixed by its index: it fails (`bad`, chosen
when the loop begins), grows a shared collection (`Grows`), or neither, and it
leaves one thing in its thread's own arena (`made`), handed over at the end
(`arenas`) and adopted by the caller (`kept`).

A `par for` inside another runs inline on its thread and is part of its
iteration. `Pool.live` is a `usize` and wraps (`MaxUsize`): with two callers a
thread can fail and be taken off before it is counted.

A failing loop ends the program with the winner's message. The caller's next
round stands for what runs in the same process after that: the Godot host's
next worker thread, or the next test of a test binary.

`PlainFor` is the abstract specification: a loop begins with some failing
iterations and ends with the outcome of a plain `for`. Threads, chunks and
arenas are not in it. The refinement mapping is the identity on the five
variables they share.

### HashMap (runtime/src/map.rs, map_copy.rs, kir/src/lower/maps.rs, codegen/src/func/maps.rs, kir/src/lower/scopes.rs)

A map is its entries (with the dead ones), count, cap, slots and locks, as in
the header. `Probe`, `Rebuilt`, `MakeRoom`, `Added`, `Dropped`, `Dup` and
`CopyInto` are the runtime's functions; the actions are what a program does
with them: `m[k] = v`, `remove`, assignment of one map to another (into the
target's arrays when they fit and no loop runs over it), a new empty map, and
loops with their lock, their place, their skipping of dead entries, and the
ways out: the end, `break`, `return` through several loops. Adding to a map
under a loop fails the program. A hash is a number given to each key: reading
and comparing the bytes of keys is left out.

`OrderedMap` is the abstract specification: each map is a sequence of pairs.
The refinement mapping takes the live entries of a map in their order (`Pairs`):
dead entries, slots, capacities and locks are not in it.

### RemoveLoop and Collections (runtime/src/list.rs, kir/src/lower/remove.rs, scopes.rs, check/src/body/remove.rs)

`for b in xs` whose body says `remove b` compacts its list as it goes: `kept`
counts the items kept so far, which are packed at the front, `next` is the
first item not reached. `KeepStep` is what every end of a pass runs, `Finish`
what every end of a loop does (kestrel_rt_list_compact, `Compact`), and `Break`
and `Return` run both, the innermost loop first. A loop inside runs over
another list or over the list that the current item holds, which it finds again
through the outer list at each use (`Name`, `Found`); its body may remove the
outer item, and is then left at once, as the checker asks. When `shared` holds,
code that the body calls takes items out of the list, inserts some or clears it
between any two steps of the loop. `want` and `dropped` are history variables.

`Collections` puts maps (HashMap) and lists in one system, one kind in each
program. `Room` bounds the items that a list ever has.

### Window (window/src/state.rs, gpu.rs, pass.rs, bulk.rs, material.rs, natives_*.rs)

`gl` is what this code relies on of raylib (`Rlgl` has the whole of it): the
batch of shapes that raylib draws late, the depth of 3D passes, the objects on the GPU, and
`misuse`, the calls it does not allow. `window.frame` is cut where another
thread can queue a drop: the end of the last frame, the drain of the queue
under its lock, the unloading and the next frame; and for a window that ends,
taking the registry and closing. Natives that refuse a call end the process,
so only accepted calls are actions.

### Replay (runtime/src/replay/, replay_file.rs, print.rs, cli/src/replay_cmd.rs)

A first run is recorded, its file read back, and a second run replayed. Both
runs may do anything; when `same` holds, the second one does what a
deterministic program does: the same as the first for as long as it was given
the same results. Output comes in writes cut anywhere. The window of a
recording ends because its user closes it, because the program asked, or
because its frames run out; that of a replay follows the recording.

### GodotHost (godot/src/lib.rs, worker.rs, driver/src/lib.rs)

One `Kestrel` object, a program of one or two files, a user who writes them at
any moment. The steps of a call are what lies between two reads of the disk or
two messages: look at the times, read the entry, read the module, check and
compile and note the times, build the constants on the worker, put the old
version back. Worker threads take a job, answer, and park when they failed.
`good`, `tried`, `restored` and `raced` are history variables.

### Lsp (lsp/src/server.rs, work.rs, docs.rs, shift.rs, diagnostics.rs, lower.rs)

Two files, a program and the library it uses. A text is its lines, and a line
only what the compiler finds in it: a call that needs the library, an error, a
parse error, a panic of the checker or of lowering, a warning of lowering, an
item of the cost lens. The editor's messages queue; the server handles one, or
analyses the marked documents when none waits or before a request. `owed` and
`parsed` are history variables.

### Rlgl (raylib/rlgl.h, the modes of rcore.c)

`gl` is the global RLGL with the state of the device, and each function of
rlgl.h is an operator from it to it: what rlVertex3f, rlBegin and rlSetTexture
do to the vertex buffer and the list of draws (with the places skipped so that
quads start at a multiple of 4), the matrix stack with its two pushes
(projection, and modelview into `transform`), and rlDrawRenderBatch, which
appends what glDrawArrays and glDrawElements draw to `drawn`. A program draws
quads, lines, cubes and meshes, clears, enters and leaves modes and ends its
frame, in any order. A matrix is the word of its factors, so that a factor
missing, doubled or out of order shows. `sent` holds what was asked and is
not on the screen, with the state of that moment; what the device draws in the
same order is crossed off, what it draws otherwise stays in `screen`.

### Input (raylib/rcore.c, rcore_desktop_glfw.c, rgestures.h)

One action per callback of GLFW (keys and chars, buttons, cursor, wheel,
close), within the poll at the end of EndDrawing; the program's frame reads,
records an automation event list or plays one, takes keys from the queues,
hides the cursor. `user` is outside: what is really held and what was really
pressed since the last frame, against which the answers are compared. Gestures
are the machine of rgestures.h with its timeouts; the mouse is its one touch
point, as in the code. Time is in tenths of a second.

### Intervals, Facts, Ranges (kir/src/range/)

`Intervals` has the operators of interval.rs: what each operator of the
language does to ranges, joining, widening, settling after a check. `Facts` is
the state at one point: a range for each term and facts a - b <= c between
terms, closed under adding two of them; `Bound`, `Fact`, `Shift`, `Forget`,
`Equal`, `JoinStates` and `WidenStates` are those of state.rs and facts.rs.
`Ranges` interprets a function from the state in which nothing is known:
expressions with the forms a + c they have (eval.rs, arith.rs, bounds.rs),
conditions and both sides of them (refine.rs), statements, loops run to their
fixed point and then once more to decide their checks (loops.rs), and
assumptions, which are decided in two runs of their block (assume.rs).
`Proven` are the checks that a build leaves out, `Trusted` the assumptions that
a release build does not test.

### The algorithms (Algorithms and the modules under it)

Functions of their arguments alone. Raymath, Pixels and Images,
Shapes, Solids and Meshes, and Text have one
operator per C function, with the function's name. `asked` is a question with
its arguments: a step asks one, and the invariant of its kind says what the
answer has to be. The laws are in modules of their own (MathLaws, ImageLaws,
ShapeLaws, SolidLaws, TextLaws, RangeLaws), and Algorithms composes them.
Numbers of raylib are those a float holds exactly: integers, fractions with a
common denominator, and points of a circle that are whole (Quarter in Shapes,
CosAt in Solids). The rounding of floats is left out, the truncation and the
rounding that the code asks for are not. A drawn shape is the sequence of its
triangles or lines with the corners in the order in which they are sent.

RangeLaws gives the same programs their meaning in the language: `Exec` runs
one from every value of its locals and every length of its list, in a build
with checks and in one without, with the items of the list being anything of
their type. What the analysis says is compared with all of these runs.

## 4. The runs

Distinct states are those of a run that finds no error.

| Run | Instance | Distinct states | Shows |
| --- | --- | --- | --- |
| `parfor_loop` | 1 caller, 2 pool threads, up to two loops with 5 iterations together, chunks of 1, 2 or 5, at most 2 failing, iterations 0, 2, 3 grow | 494 722 | the inductive invariant, every safety property, the refinement of the plain loop, every loop returns; also after a loop that parked threads |
| `parfor_callers` | 2 callers on one pool, loops of 2 | - | a violation, see 7 |
| `collections` | 1 map, 4 keys that collide over the table's end, tables of 4 and 8; lists of up to 3 items (room for 5) with inner lists of up to 2, some changed by others meanwhile | 107 331 | finding, room in the table, the ordered map; removing loops leave whole lists |
| `hashmap_loops` | 2 maps, 2 colliding keys, up to 2 nested loops | 1 179 851 | loops, locks, copies |
| `window` | a real and a headless window on 2 threads, 2 objects | 359 732 | raylib's rules, no object lost, every dropped object goes |
| `replay` | programs of at most 3 steps and their ends | 1 103 006 | same program matches; a match means the same |
| `godot_host` | 2 files, 2 writes, 3 calls, 3 threads | 735 647 | last good version, constants, noticing, every call ends |
| `godot_module` | the same | - | a violation, see 7 |
| `lsp` | 2 files with 5 and 3 texts, 5 events, queue of 1 | 155 460 | screen, positions, lowering, hover, no analysis for ever |
| `raylib_draw` | buffer of 3 quads, 3 draws, one texture and the default, 4 shapes that wait, modes two deep | 76 422 | what was drawn is shown, as it was drawn and in order; no buffer overrun; modes restore |
| `raylib_input` | 2 keys (one that locks), 2 buttons, a trigger, 2 places, queue of 1, list of 5 events, 3 frames, 4 things the user does | 3 542 202 | answers follow the user; gestures; replays |
| `algorithms` | the inputs of MCAlgorithms | 75 608 | the algorithms and the range analysis, see below |

The bounds and why the interesting cases are inside them:

- `ParFor`: three participants are enough for a thread to take a chunk, fail
  or leave in between any two steps of two others. Two failures in different
  chunks arrive in both orders. `ChunksPerThread` is 1 instead of 8: with both
  pool threads a chunk is 1 iteration; when the system starts only one it is
  2, the last chunk is cut short, and a chunk in hand runs on after a failure
  elsewhere; with none it is the whole loop. Other sizes are an arithmetic
  matter of the proofs, which hold for every size. `MaxIterations` bounds the
  iterations of both loops together, so the second loop has few when the first
  had many: a loop of 1 takes the inline path, and a second loop runs after
  the first one parked threads.
- `HashMap`: `FirstCap` is 2 instead of 8 and `MaxCap` 4 instead of i32::MAX,
  so growing, compacting, and growing too far happen within a few adds. k1, k2
  and k3 share probe sequences across the end of the table. Two nested loops
  are needed for `return` to unlock more than one, over one map or two. The
  `hashmap_loops` run has keys and maps interchangeable (symmetry is sound: k1
  and k2 have the same hash, and no property of this run is a liveness one).
- `RemoveLoop`: of three items one can be kept before a removed one and one
  moved after it. Inner lists of two are left with one kept and one to come.
  Others that change the list have one item to insert: with two or three items
  of the list that passes every place where the loop stands.
- `Window`: two threads with one queue is what ids of another thread need.
  Two objects: one dropped and one kept, or two kinds.
- `Replay`: three steps hold a write that leaves a line open, what comes
  between, and the write that ends it; a native called in another order; a
  frame that is asked for after the last.
- `GodotHost`: two writes make a change and its repair, three calls the
  attempts around them. Three threads let two fail.
- `Lsp`: five events hold open, edit, save, edit, close with requests in
  between; with one message waiting, edits still arrive before the analysis of
  the last. The system stops when the editor does nothing more, so this run
  does not check deadlock.
- `Rlgl`: a buffer of 12 vertices (32 768 in the code) is full after three
  quads, so lines, triangles and quads meet its end at every remainder; three
  draws (256) are used up by one texture and two modes. Two modes deep is each
  mode in each other one that the code allows.
- `Input`: a queue of one key (16) is full at the second; a list of 5 events
  (16 384) fills in the middle of a frame. Four things the user does are a
  press and its release twice, in one poll or in three frames: double taps,
  holds and drags need no more. The run ends when the frames are played, so it
  does not check deadlock.
- `algorithms`: for raylib, each set has the cases that the code tells apart
  (each pixel format, each side of an image, each remainder of pieces, each
  direction of a ray's slabs, the first and last codepoint of each length,
  ...), and every combination is asked. For the range analysis the operators
  are asked about all pairs of ranges of two types of 3 bits, -4..3 and 0..7,
  which have every sign, zero inside and at an end, and overflow at both ends;
  and about 800 programs in both builds, each a loop around a statement that
  changes what is known and one with a check that rests on it, in both orders,
  with an access behind the loop. `MaxItems` is 3 and `SettleRounds` 3 (2^31-1
  and 8 in the code): rounds before and after widening settles still happen.

## 5. Fairness

- `ParFor`: weak fairness of each thread's steps: the system schedules every
  thread that can run and an iteration ends. None is assumed of a spurious
  wake-up, nor of a caller that would begin another loop. A mutex is held for
  one step only, so no strong fairness is needed.
- `Window`: weak fairness of each thread's frames: a program's loop asks for
  the next frame. Nothing is assumed about drawing, dropping or opening.
- `GodotHost`: weak fairness of the object's steps and of each thread's: what
  a program was asked for ends (a Kestrel function that loops for ever hangs
  the game, by design). None of the user.
- `Lsp`: weak fairness of the server's loop; none of the editor.
- `HashMap`, `RemoveLoop`, `Replay`, `Rlgl`, `Input` and the algorithms have
  no liveness property: none is promised of a program, a user or a function that returns.

## 6. The proofs

Each theorem holds for every value of the constants that the ASSUMEs of its
module allow, which are as weak as the code justifies; TLC evaluates them in
each run.

| Theorem (module) | Establishes |
| --- | --- |
| `TypeInvariant` (ParForProofs) | `Spec => []TypeInv` |
| `NobodyOutlives`, `NoSharedMemory`, `Participants_Counted` (ParForProofs) | nobody works on a job that is over; growths are apart; `state.0` counts the untaken tickets and the threads at work |
| `HelpersCounted` (ParForProofs) | one caller: each ticket has a pool thread that waits for it |
| `IterationsOnce` (ParForProofs) | no iteration is run twice |
| `LowestFailure`, `EarlierIterations` (ParForProofs) | the outcome and the effects of a plain `for` |
| `Invariant` (ParForProofs) | `Spec => []IInv` |
| `RefinesPlainFor` (ParForProofs) | every step is a step of the plain loop, or invisible |
| `TablesAlwaysSound` (HashMapProofs) | every live entry is found by its key and nothing else is; probes stop; counts are right |
| `LocksAlwaysMatch` (HashMapProofs) | a map is locked as often as loops run over it |
| `NothingMoves`, `LoopsAlwaysHold` (HashMapProofs) | nothing moves under a loop; a loop comes to its keys in order, each once |
| `ImplementsOrdered` (HashMapProofs) | the maps implement `OrderedMap` |
| `RemovingStaysWhole` (HashMapProofs) | a list that removes its items in a loop is whole however the loop is left, no legal program fails at an index of it, and nobody reaches freed memory |
| `RaylibUsed`, `ObjectsKept` (WindowProofs) | raylib's rules are kept; no object on the GPU is lost |
| `HostAlwaysHolds` (GodotHostProofs) | the last good version runs, on constants that live; no written file goes unnoticed |
| `NeverRetriedInVain` (GodotHostProofs) | a version that failed is tried again only after a file was written |
| `AlwaysDrawnAsSent` (RlglProofs) | the device draws what was asked, in order and with the state of that moment |
| `BufferAlwaysHeld` (RlglProofs) | nothing is written behind the vertex buffer or the list of draws |
| `ModesAlwaysReturn` (RlglProofs) | modes leave matrices, stack and the device's state as they were |
| `LspShowsWhatHolds` (AnalysisProofs) | at rest the screen shows what the texts have, nothing saved and clean waits to be lowered; findings stay on their lines and hover answers from the last text with tables |
| `InputFollows` (InputProofs) | the program is told of keys, buttons, mouse and gamepad what the user did, in every frame |
| `GesturesHaveAButton` (InputProofs) | no tap, hold or drag without a button that is down |
| `RecordingsReplay` (InputProofs) | a recording, played, tells the program frame by frame what it was told, up to where the list was full |
| `SameProgramsMatch` (ReplayProofs) | the same program's replay is given what was recorded and matches, with its frames and lines, whatever the machine and the window do |
| `ReplaysAreToldApart` (ReplayProofs) | a replay that matches did the same; any other stops at the first result or line that differs |
| `RangesHoldResults` (AnalysisProofs) | the range of an arithmetic operation holds each result, checked or wrapped; a division left unchecked cannot fail |
| `WideningEnds` (AnalysisProofs) | widening only grows a range, and moves each end once at most |

**ParFor**, for all callers, pool threads, counts, chunk sizes, growths and
bounds: finite sets of callers and workers that do not meet, at least one
thread, iteration counts that are natural numbers, a chunk divisor of at least
1, and a value that is no thread for an unlocked mutex.
The properties are not inductive: that the winner is the lowest
failing iteration depends on what every thread has still to run. `IInv`
(`ParForInv`) adds:

1. `Lifecycle` and `ParticipantsCounted`: which round each job is in, and that
   until the loop returns `state.0` is the number of tickets in the channel
   plus the threads at work. So a caller that sees 0 (or, failing, 1) is
   alone. The step that takes a ticket moves one from the first number to the
   second; `Finish` takes one from both sides. The lemmas about counting the
   places of a sequence and the threads at work are in ParForProofs.
2. `GrowthInv`: a thread inside the allocator holds the lock, and what it read
   is still the free place. So what was given out is below it.
3. `ChunksTaken`: chunks in hand are below `next`, inside the count, and apart
   from each other, from what has run and from the chunk of the recorded
   failure. Apart is stated with the chunk size, whatever it is.
4. `ChunksCovered`: an iteration handed out has run, is still to run in
   someone's chunk, or is not below the recorded failure; nothing that ran
   fails. `NothingLeft`: a thread stops only after a failure or when all has
   been handed out. With 1, when the loop is over no one has a chunk in hand;
   so all below the recorded failure ran, and none of it fails: it is the
   least. Without a failure all ran.
5. `ContentsKept`: what ran left its allocations in an arena handed over or in
   that of a thread at work; so when the loop is over without a failure, the
   caller's arena has all of them.

`LInv` (types, 1) is inductive alone; each later part is
inductive with those before it. Each step lemma has one step per action and
below it one per conjunct that the action can disturb. `RefinesPlainFor` then
needs only the invariant in the states where a loop ends.

TLC checks `IInv` and each of these properties in `parfor_loop`.

`HelpersCounted` has two hypotheses: one caller, since with two the property is
false (section 7), and no more pool threads than a usize counts. It rests on
`LInv`: while the caller is outside of a loop, every earlier job is over or
untouched, so the channel is empty and each thread in the pool waits. Then
`Pool.live` is exactly the number of threads in the pool (less the one that is
started and not counted yet), and what `reserve` grants is at most that.
`HelpersInv` says so; a thread that fails leaves the pool and is taken off the
count in a state where the caller cannot be reserving.

**HashMap**, for any maps, keys, values and bounds, with any hash: all keys may
collide. Three invariants, one after the other.

1. `Inv` (HashMapProofs). `MapSound` says of one map: its table is right for its
   entries (`TableFor`: a slot with a number names a live entry, no two slots
   the same; a probe for a live entry's key comes to it before an empty slot;
   the slots taken are at most the entries used), no two live entries have one
   key, the count is right, and the table has twice as many slots as entries
   fit, a power of two. Half of the slots are then empty, which is why
   `Probe` ends, and why it ends where `Find` says. Each operation is a lemma about
   one map: what `Added`, `Dropped` (whose slot becomes Removed, so that probes
   go on past it), `Rebuilt` (the table after each entry is again right for
   the entries so far) and `CopyInto` return is again sound.
   `LocksBetween` says of loops that a map's locks are between the
   loops that still hold it and all loops over it. (A map that is replaced
   under its loop starts unlocked; when the loop ends, it puts back the count
   that it saved.)
2. `LoopsInOrder`. The keys that were there when a loop began
   have places among the entries of the map, in the same order (`Follows`), and
   all live entries have such a place, since none is added. Those before the
   loop's place were seen or are dead. The key property of a step is `HeldStays`: the
   entries of a map that a loop holds stay where they were and no dead one
   comes to life again. It follows from the locks of 1: to add to a locked map fails, so
   nothing is compacted or reallocated.
3. `ImplementsOrdered` needs 1 only. What `Pairs` makes of the entries is
   followed through the three changes there are: an entry appended, one marked
   dead (`DropOf`: one pair is left out), one given another value (`SameBut`).
   `MakeRoom` changes no pair. That `m[k] = v` changes the right pair and not a
   second one is `TableSound`.

`Kept`, `Tables` and others are recursive functions over Nat. The library's
rule for induction cannot be used here, so the module shows once that every
set of naturals has a least element, and with it that such a function exists
and obeys its equation (`LeastExists`, `UpTo`, `RecursionExists`); each use
takes the least number where a claim fails.

**RemoveLoop**, for lists of any room and any set of programs. `RemovingIsWhole`
says something of lists that no loop runs over; `RemovingInv` (HashMapProofs)
says what holds while one does. It has two parts, because others may do
anything to the list of a program that is `shared`:

1. `Sound`, of every program. `Apart`: a list holds only items of its own
   (`Owned`: no two lists have one in common), each in one slot, and a list that
   is reached holds none that was freed. Each operation shuffles the items of
   one list or takes some out (`Shuffled`), whatever counts it is given, so
   compacting with counts that others made stale still shows nobody a freed
   item; and an item is dropped in the step that takes it out of its slot.
2. `Keeps`, of a program that nobody disturbs. `Packed`: the list of a loop has
   the items it is to hold in their order, those kept at the front, then zeros,
   and from `next` on those not reached; in a pass whose item was removed the
   zeros reach past it. The list of an inner loop is found through the slot of
   an item that was not removed, and is another one than the outer loop's; so
   either loop may be packed further without disturbing the other. When
   a loop is left in a pass, `KeepStep` makes it `Packed` past the item, and
   `Compact` then closes the gap: the list `Rests`. For `return` the lemmas
   about one loop are used twice. Every index of such a loop is inside its list
   (`KeepsFound`), so no check of one fails.

TLC checks `RemovingInv` with seven programs, on lists of up to three items,
with a room of 5.

**Window**, for any threads (one with a real window at most), objects and
frames. `ProgramInv` is about the threads: an object is in the registry of the
thread that made it or among those it is about to unload, a handle is held or
queued and not both, and the steps of a frame come in turn. It is inductive
without raylib. `RaylibInv` says what raylib then is (`Follows`): it is drawing
exactly when the thread is in its program's part of an open window's frame, its depth is 1
exactly in a 3D pass, its batch holds live objects only, and what is
on the GPU is what the registry has and what is about to go. With it no call
is a misuse, and a window that closed has left nothing.

**GodotHost**, for any files, texts, writes, calls and threads. Between two
steps the object keeps one version, in `loaded` or, while another one
compiles, in `old` (`Current`). `VersionKept` says that it is the last good
one, `AttemptHolds` what the attempt under way has read, `WorkersHold` that a
thread has a job only while the object waits for it, and the job of the right
version, `OwnerStays` that constants are on the worker's thread or on one that
is parked and so never ends, and `TimesGrow`, `RestoredHolds` and `NotRaced` order the times: no noted time is
later than the disk's, a version put back knows the files as they were when
the attempt failed, and when nothing was written during a compilation, what it
read is what is there. Each step of the object and of a thread has its lemma.

**Rlgl**, for a buffer of any number of quads, a list of at least two draws, any
textures, any bound on what waits unseen and any depth of modes. A step of the
model sends one or two primitives, but the lemmas about the functions of rlgl.h
are for any number of them. What holds between two calls of the program is
`IInv`:

1. `Rest`, about the batch. Its draws lie one after the other in the buffer,
   each at a multiple of 4, where the quads' indices expect it; what is written
   is theirs; the last one holds whole primitives only; and fewer draws than the
   list has room for are in use, since rlBegin opens up to one more before it
   looks (`IfManyDraws`). Inside a call it is `Good`, and between rlBegin and
   the last vertex of a primitive `Filled`, which says how far the primitive
   has come and that the rest of it fits.
2. `Batched(gl) = sent`: what waits in the batch would, with the state as it is
   now, be drawn as it was asked for. Every function that changes a matrix or a
   setting while something waits has to draw it first; those that add to it
   may change no setting, close a draw or skip places without changing what the
   earlier draws are. `Total`, what was drawn and what waits, in that order, is
   what the lemmas follow: a call adds its primitives to it and changes nothing
   else, whether the buffer was drawn out in the middle of it or not. From that
   `MatchedIs` says that all that the device drew is crossed off.
3. `Context` and `Nested`, about the modes: each matrix, the stack and each
   setting of the device is a function of the set of modes that are entered
   (their order does not matter, because `May` lets a 2D or 3D mode be entered
   inside a texture target, never the other way round).

The text `STRING` and its members are outside of what the provers reason about,
so the type of `gl` (`GLType`) lists the names it uses. `DrawnUpTo` and
`vertexOffset` are recursive functions, for which the module has the same
lemmas as HashMapProofs. TLC checks each part of `IInv` but the type on the
instance of `raylib_draw`.

**Lsp**, for any texts, files on the disk, settings, and messages in any order and
number. `EditorIsShownWhatHolds` says something of the state at rest only, so
`IInv` says what holds while messages wait:

1. `InTurn`: the messages that wait lead, one after the other, from the
   documents that the server has open to those that the editor has. So an open
   comes for a document that is not open, and a change or a close for one that
   is: what the handlers rely on and do not check.
2. `Fresh`: while no message waits that will mark the documents, what was
   checked of the unmarked ones is what checking finds in the texts as they
   are now, and those still owed a lowering are not clean. The
   condition is needed because the editor saves to the disk before the server
   hears of it.
3. `Shown`: for each file the screen shows everything that was found
   (`Merged`), or a marked document's program says something of it. Lowered
   findings move with an edit before anything is published; they move in files of
   programs that are marked, and `FilesFound` publishes those at the next flush. A
   file left out of `FilesFound` has the same findings after the flush as before.
4. `FindingsFollow` needs that `LineShift` finds a kept line again
   (`LineMoves`): common prefix and suffix do not overlap in either text.
5. `Owed` and `Answers`: who is owed a lowering is marked for it, and a closed
   document left nothing to answer from.

`ServerInv` is the part that each handler keeps by itself, with `UpToDate` if
it marks nothing; `Together` adds what the editor did. TLC checks `IInv` on the instance of
`lsp`, and with a longer queue.

**Input**, for any finite sets of keys and buttons, any places, queues and
lists of any size (a list has room for one event), and any number of frames and
events. `IInv` (InputProofs) has two parts beside the types:

1. `Following`: while the window is used, the current state of keys, buttons,
   touch, mouse and wheel is what the user holds and where the mouse is
   (`Held`), whether or not a queue had room; the state before is what the
   program was told last (`Before`); the queue is what is left of the first
   keys pressed since the poll (`Queued`); and the wish to close is handed on
   from the poll to the frame (`Closing`). `GesturesNeedAButton` is inductive
   with it.
2. `Recording`: all that the program is told of a frame is a function of what
   was held then and in the frame before (`Told`, `AnswersAre`), so it is
   enough that a frame's events lead from the one to the other.
   `NotedUntilFull` says that they do: of each frame the list has exactly the
   keys and buttons that are down or came up and where the mouse went
   (`Noted`), unless it is full by then. `Reached` follows the state through
   the events that are played, one after the other: no two events of one frame
   contradict each other, so their order does not matter. The condition in
   `Replayed` is carried backwards: a frame whose events are whole has whole
   frames before it.

What EndDrawing writes down is a fold over the keys and buttons, in an order
of which nothing is known (`SetToSeq`); `FlattenIs` says that nothing else is in it and
nothing is missing. TLC checks `IInv` on the instance of `raylib_input` and
with longer lists.

**Replay**, for any natives, results, messages and bytes, any writes, and
programs of any length. A native has not the name of the frame's entry, and
what is printed is made of bytes. `Inv` (ReplayProofs) says how the file and the replay's
places in it follow from what the runs did:

1. `RecordedAs`, of a recording: the native log is that of the run's results
   (`LogOf`), the output log has the complete lines of its text, `pending` the
   rest (`Printing`), and the window and the frames are functions of the run
   too (`WindowOf`, `FramesOf`). Frames start only while the window is open
   (`WellStarted`). `WrittenAs` is the same of the file when its run has ended.
2. `RepeatedAs`, of a replay: `at` and `next` are as far into the logs as its
   results and lines are, and these come before the recorded ones.
3. If the program is the same, what it did comes before what was recorded.

What is compared has to decide what was done, which is why the functions are shown
to be one-to-one. `SplitTells`: equal lines and an equal rest are of equal texts,
however they were written (`SplitTwo`: in two pieces is as in one). `LogTells`:
a log's entry names the operation. `EndsAgree`: the ending entries, with `End` for
all behind the last, agree in just one case, since a partial line, a failure and the end
are of three kinds. `FramesTell` is the reason that the number of frames is enough for a
window that was closed by its user, asked to close or ran out: once a frame was
refused no other starts, so the frames that start are the first ones.
`WholeReads` says that what was written is read. The folds of the operators are
recursive functions, for which the module has the lemmas of HashMapProofs again.
TLC checks `Inv` on the instance of `replay`.

**Ranges**, for types of every width (`IntTypes`: unsigned
ones, and signed ones with one negative value more) and any two ranges inside
one: each operator moves one way in each operand, so its least and greatest
results are at the ends that the code looks at. For a product the direction
depends on the sign of the other operand, which is why all four corners are
needed; for a quotient the divisor's range is first split at 0, and truncating
is shown to keep the order of dividends and, for one sign, of divisors. A
remainder is smaller than the divisor and takes the dividend's sign. Then
`SettleHolds` carries a range of exact results over a check or a wrap. What is
proved, `ArithmeticHolds`, is the part of the invariant `RangesHold` about
arithmetic; TLC checks it with the rest in `algorithms`.

Only model-checked: liveness (`EveryLoopReturns`, the fairness part of
`ImplementsPlainFor`, dropped objects that go, calls that end; the prover has no
rule for ENABLED); `HelpersCountedOn` with fewer hypotheses; shifts and bit
operations on ranges and what the analysis makes of a whole program
(`RangesHold`, whose operators recurse); and the laws of raylib's algorithms,
which are recursive or arithmetic of the inputs given.

## 7. What the models found

- **Two callers on one pool** (`parfor_callers`; runtime/src/par.rs:118).
  `reserve` returns "how many helpers a job can count on" (l.107), but it
  counts threads that are alive, not free. When a loop of one caller fails,
  its pool threads park for good while tickets of the other caller's loop are
  in the channel; the other caller waits for participants that never come. A
  program has one caller; the runtime's own tests have several in a process.
- **A module that only a failed edit uses** (`godot_module`;
  godot/src/lib.rs:202). The version put back has its own list of files: when
  the new module is repaired, nothing is recompiled until a file of the old
  version is written again.

Smaller observations, seen while modelling; no run is about them. The models
do what the code does, and the properties exclude these cases by name.

- *Kestrel.* par.rs l.13 says that after a failure no new chunk is taken; a
  thread that read the flag just before takes one more, which is harmless. The
  driver notes the times of files after it read them (driver/src/lib.rs:159),
  so a write while it compiles is missed until the next one. A load that fails
  has set `path` before the file compiles (godot/src/lib.rs:67): the old
  program runs on and its next reload compiles the other file. `Doc.lower` is
  documented to be set when "it, or a file it uses, was opened or saved"
  (docs.rs:26), but opening a library marks its users for checking only
  (server.rs:151).
- *Drawing.* ClearBackground alone leaves shapes that wait to be drawn after
  it (Kestrel draws them before). rlSetTexture at the limit of draws loses the
  mode. rlPushMatrix on a full stack only logs. In 3D the transform stays
  required until the next 2D pop. DrawPlane keeps the texture that was set.
- *Input.* A key or button pressed and released between two frames is neither
  pressed nor released for the program, and of several turns of the wheel the
  last one counts (`MouseScrollCallback` assigns). A gamepad plugged in with a
  button held does not press it. A recording has the wheel only where it
  changed and no touch at the origin; wheel and gestures may play differently.
- *Mathematics.* MatrixDecompose reads the scale of a rotated matrix from the
  wrong places. GetRayCollisionSphere reports spheres behind the ray, with a
  negative distance. A ray in the plane of a box's face never hits it.
- *Images.* ColorAlphaBlend overflows a byte at low alphas. GetImageColor and
  LoadImageColors expand 5 bits by 8, other functions exactly. GetPixelColor
  does not shift the blue of R5G5B5A1. SetPixelColor ignores float formats.
  ImageMipmaps leaves levels of zeros. ImageDrawLine omits its end; the same
  with vectors rounds negative coordinates towards zero. ImageDrawRectangleRec
  of width 0 draws a pixel. GenImageGradientLinear at 180 and 270 degrees is
  not the reverse of 0 and 90.
- *Shapes and solids.* A half circle of radius 1 with automatic segments draws
  nothing. DrawPolyLinesEx converts its rotation to radians twice.
  DrawRectangleRoundedLinesEx with the largest roundness draws two sides with
  their backs to the viewer. DrawSphereWires draws a ring past the pole.
- *Splines.* Half of the thickness is divided by the length of each step
  without asking whether it has one (rshapes.c:247, 1830, 1897, 2006, 2052,
  2098, 2144): where two points of a curve in a row are one, as with four equal
  control points or a line from a point to itself, the corners are NaN and
  nothing of that step is drawn. In DrawSplineBasis and DrawSplineCatmullRom
  the next segment starts from the same dx, dy and size (l.1815, 1877), so it
  lacks its first corners: a gap where the segments should meet. `CurvesJoin`
  says that these are the only gaps. DrawLineEx asks first. (With floats, a
  step that should have no length may be left with a little by rounding: then
  its corners lie in any direction instead.)
- *Text.* A glyph whose advance is 0 moves the pen by its width when it is drawn
  (rtext.c:1236, 1307) and by its width and its offset when it is measured
  (l.1370, 1426): MeasureTextEx and MeasureTextCodepoints are off by the sum of
  these offsets, as for the combining marks of a TTF font, and a text that
  comes out narrower than nothing is measured as its spaces alone. `TextIsLaidOut` says that
  there is no other difference. TextInsert copies what follows the insertion
  from `text[i]` instead of `text[i - insertLen]`; TextRemoveSpaces ends by
  `text[j]` and so reads past the end of a text with spaces (rtext.c:1981,
  1727). GetFileExtension takes a dot of a directory. GetDirectoryPath of "b.c"
  is "./". MeasureTextEx of an empty last line is negative by the spacing.
  GetCodepoint steps over the end of a text that is cut off within a sequence.
  A font's picture made for few narrow glyphs is lower than they are and cuts
  them; without space around the glyphs, its white corner (l.962) can cover
  the last ones.

## 8. What is not modelled, and why

- The bytes of Kestrel's own values: of keys, items, strings and messages. No
  property here is about them.
- The memory model below atomics and mutexes: each access is one step in one
  order. The code's orderings (Relaxed for the chunk counter, Release and
  Acquire for the flag) are not weaker than what is used: all data passes
  through the mutexes and the channel.
- Panics inside the runtime (the `Done` guard), and running out of memory.
- Lists: growing and the bytes of items; of loops that remove, the rules by
  which the checker lets a body keep views of items. Arenas, and what scopes
  drop other than the loops in them: not yet, see the plan.
- Range analysis: its limit on work and giving up, and the limit on the
  constants of facts (both only forget); casts, shifts and bit operations
  inside programs (the operators are modelled); vectors and nested places; what
  calls and operands write; value blocks, `par for` and the regions of a
  `prove`; its reports.
- In raylib: rounding of floats and angles other than those above; half floats
  and compressed formats; bicubic resizing, noise and Voronoi generators;
  loaders of images, models, animations and fonts, and the rasterising of
  glyphs; objects on the GPU, shaders, stereo rendering, batches of a
  program's own; the window's modes on the desktop; two-finger gestures;
  gamepad axes; fonts whose glyphs move the pen back (a negative advance); the
  skyline packing of a font's picture; checksums; the list of dropped files;
  sound, which Kestrel does not build. Decoders and GPU calls are other projects' interfaces; the
  rest is arithmetic that integers cannot stand for.
- Parser, checker, inliner and other passes, code generation: pure functions
  of a syntax tree, for which a model would have to hold the language.
- Sorting, strings, math, files, processes, time, the natives of the window's
  input, text and images (raylib's side of them is modelled), the bridge to
  Godot, hovers and definitions, the command line: sequential code without
  state between calls, or input and output.
- Cranelift is another project's code and not in the tree.

`PROJECT.json` lists each of these parts with its sources and reason.

## 9. Plan

In order of importance.

1. **Arena** (arena.rs, blocks.rs, scopes.rs): the stack of pushed arenas of
   each thread, the free range, adopted arenas and recycled blocks. Properties:
   no two live allocations overlap; what is allocated goes to the arena in
   scope; an arena is not freed while it is pushed.
2. The rest of the range analysis: casts and bit operations inside programs,
   calls and what they write, `prove`.
3. raylib: the modes of the window (full screen, borderless and back), and the
   objects of a texture target as values that programs unload.

Runs of small modules will be joined and properties that a stronger one
implies dropped as modules are added, so that the whole stays checkable in
minutes.

## 10. How to run

In this directory, `tlc -workers 2 -config ParFor_loop.cfg ParForInv` checks a
run (the other pairs are in `PROJECT.json`), and `tlapm HashMapProofs.tla` the
proofs of a module (ParForProofs, HashMapProofs,
WindowProofs, GodotHostProofs, RlglProofs, InputProofs, ReplayProofs, AnalysisProofs). The runs take at most
three minutes each, the proofs some minutes.
