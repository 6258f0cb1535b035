----------------------------- MODULE GodotHost -----------------------------
(***************************************************************************)
(* The Godot add-on (godot/src/lib.rs and worker.rs, with what the driver  *)
(* does for hot reload, driver/src/lib.rs): one `Kestrel` object that      *)
(* loads programs of one or two files, reloads them when they change, and  *)
(* runs their functions on a thread of its own, while a user edits the     *)
(* files at any moment.  A step of the object is what happens between two reads  *)
(* of the disk or two messages.                                            *)
(*                                                                         *)
(* A thread whose program fails reports it and parks for good; the next    *)
(* call starts another.  What a program computes, the values passed and    *)
(* its output are not modelled; a write gives a file a new time, and files *)
(* do not vanish.                                                          *)
(***************************************************************************)
EXTENDS Integers

CONSTANTS
    Entries,      \* the files that GDScript loads
    MainTexts,    \* what the file that may use the other may hold
    ModuleTexts,  \* what the other may hold: [uses, error, consts]
    MaxEdits,     \* bound: how often the user writes a file
    MaxCalls,     \* bound: calls of GDScript
    Threads       \* the worker threads the system is able to start

Files == {"main", "module"}

None    == "none"
Nothing == <<>>

ASSUME EntriesAssumption == Entries \subseteq Files
ASSUME TextsAssumption ==
    /\ MainTexts \cup ModuleTexts \subseteq
         [uses : BOOLEAN, error : BOOLEAN, consts : {"none", "good", "bad"}]
    /\ \A t \in ModuleTexts : ~t.uses
ASSUME BoundsAssumption == MaxEdits \in Nat /\ MaxCalls \in Nat
ASSUME ThreadsAssumption == None \notin Threads

VARIABLES
    disk,    \* each file: its text and when it was written
    edits, calls,
    op,      \* what GDScript called: load, run, refresh
    step,    \* where the object is in it
    path,    \* Kestrel.path: the entry file of the last load
    read,    \* what this compilation read of the files
    made,    \* the program compiled, whose constants are not built yet
    loaded,  \* Kestrel.loaded
    old,     \* the program reload_if_changed took out of it
    worker,  \* Kestrel.worker
    thread,  \* each worker thread
    job,     \* what each thread was sent and did not answer
    reply,   \* what each thread answered and was not received
    good,    \* history: what the last compilation that succeeded read
    tried,   \* history: each file as it was when a compilation last read it
    restored, \* history: the times of the files when the old version was put back
    raced    \* history: a file was written during a compilation

object  == <<op, step, path, read, made, loaded, old, worker, calls>>
workers == <<thread, job, reply>>
history == <<good, tried, restored, raced>>
vars    == <<disk, edits, object, workers, history>>

Never        == [f \in Files |-> -1]
Times(files) == [f \in files |-> disk[f].time]
ReadTimes    == [f \in DOMAIN read |-> read[f].time]
Tried        == [f \in Files |-> IF f \in DOMAIN read THEN read[f].time ELSE tried[f]]

Init ==
    /\ \E m \in MainTexts, o \in ModuleTexts :
         disk = [f \in Files |-> [text |-> IF f = "main" THEN m ELSE o, time |-> 0]]
    /\ edits = 0 /\ calls = 0
    /\ op = "load" /\ step = "idle" /\ path = None
    /\ read = <<>> /\ made = Nothing /\ loaded = Nothing /\ old = Nothing
    /\ worker = None
    /\ thread = [w \in Threads |-> "unborn"]
    /\ job = [w \in Threads |-> Nothing]
    /\ reply = [w \in Threads |-> Nothing]
    /\ good = Nothing /\ tried = Never /\ restored = Never /\ raced = FALSE

\* From the first file read to the end of the compilation.
Compiling == {"module", "check", "init", "initialising", "restore"}

\* The user writes a file, whatever the object is doing.
Edit(f, text) ==
    /\ edits < MaxEdits
    /\ edits' = edits + 1
    /\ disk' = [disk EXCEPT ![f] = [text |-> text, time |-> edits + 1]]
    /\ raced' = (raced \/ step \in Compiling)
    /\ UNCHANGED <<object, workers, good, tried, restored>>
-----------------------------------------------------------------------------
(* Reloading and compiling. *)

Start(o) ==
    /\ step = "idle" /\ calls < MaxCalls
    /\ calls' = calls + 1
    /\ op' = o
    /\ UNCHANGED <<disk, edits, read, made, loaded, old, worker, workers, history>>

\* The path is kept, whether the program compiles or not.
Load(f) == Start("load") /\ step' = "entry" /\ path' = f

Begin(o) == Start(o) /\ step' = "look" /\ UNCHANGED path

AfterReload == IF op = "run" THEN "call" ELSE "idle"

\* The first of a program's files is the one it was loaded from.
Entry(program) == IF "main" \in DOMAIN program.noted THEN "main" ELSE "module"

EntryChanged == \* seeded fault
    loaded # Nothing /\ disk[Entry(loaded)].time # loaded.noted[Entry(loaded)]

\* A source file of the loaded program has another time than was noted.
Changed == loaded # Nothing /\ \E f \in DOMAIN loaded.noted : disk[f].time # loaded.noted[f]

Look ==
    /\ step = "look"
    /\ IF Changed
       THEN step' = "entry" /\ old' = loaded /\ loaded' = Nothing
       ELSE step' = AfterReload /\ UNCHANGED <<old, loaded>>
    /\ UNCHANGED <<disk, edits, calls, op, path, read, made, worker, workers, history>>

ReadEntry ==
    /\ step = "entry"
    /\ read' = [f \in {path} |-> disk[f]]
    /\ step' = IF disk[path].text.uses THEN "module" ELSE "check"
    /\ UNCHANGED <<disk, edits, calls, op, path, made, loaded, old, worker, workers, history>>

ReadModule ==
    /\ step = "module"
    /\ read' = [f \in Files |-> IF f = path THEN read[f] ELSE disk[f]]
    /\ step' = "check"
    /\ UNCHANGED <<disk, edits, calls, op, path, made, loaded, old, worker, workers, history>>

\* The compilation failed: load keeps what is loaded, a reload puts it back.
Failed ==
    /\ step' = IF op = "load" THEN "idle" ELSE "restore"
    /\ tried' = Tried
    /\ UNCHANGED <<loaded, good, restored>>

Loaded(program) ==
    /\ loaded' = program
    /\ step' = IF op = "load" THEN "idle" ELSE AfterReload
    /\ tried' = Tried /\ good' = ReadTimes /\ restored' = Never

\* The program is checked and compiled, and then the times of its files are
\* noted.  `owner` is the thread whose arena holds its constants.
Check ==
    /\ step = "check"
    /\ LET program == [read |-> ReadTimes, noted |-> Times(DOMAIN read), owner |-> None] IN
       IF \E f \in DOMAIN read : read[f].text.error
       THEN Failed /\ UNCHANGED made
       ELSE IF read[path].text.consts = "none"
       THEN Loaded(program) /\ UNCHANGED made
       ELSE /\ made' = program
            /\ step' = "init"
            /\ UNCHANGED <<loaded, tried, restored, good>>
    /\ UNCHANGED <<disk, edits, calls, op, path, read, old, worker, workers, raced>>

\* The old version runs on; what is on disk now was tried.
Lost == Nothing \* seeded fault
TimesKept == old \* seeded fault
Restored == [old EXCEPT !.noted = Times(DOMAIN old.noted)]

Restore ==
    /\ step = "restore"
    /\ loaded' = Restored
    /\ restored' = Times(Files)
    /\ step' = AfterReload
    /\ UNCHANGED <<disk, edits, calls, op, path, read, made, old, worker, workers, good, tried, raced>>
-----------------------------------------------------------------------------
(* Calls, each on the worker's thread.  The object waits for the reply.    *)

\* The worker there is or, when there is none, one that starts now.
Workers == IF worker # None THEN {worker} ELSE {w \in Threads : thread[w] = "unborn"}

Send(w, work) ==
    /\ worker' = w
    /\ thread' = [thread EXCEPT ![w] = IF @ = "unborn" THEN "waiting" ELSE @]
    /\ job' = [job EXCEPT ![w] = work]
    /\ UNCHANGED reply

\* build_constants, up to the reply.
SendInit(w) ==
    /\ step = "init" /\ w \in Workers
    /\ Send(w, [kind |-> "init", program |-> made])
    /\ step' = "initialising"
    /\ UNCHANGED <<disk, edits, calls, op, path, read, made, loaded, old, history>>

\* What a thread that failed leaves behind: the object no longer knows it.
WorkerKept(ok) == worker \* seeded fault
WorkerAfter(ok) == IF ok THEN worker ELSE None

Received(w) ==
    /\ reply' = [reply EXCEPT ![w] = Nothing]
    /\ worker' = WorkerAfter(reply[w].ok)
    /\ UNCHANGED <<thread, job>>

Initialised(w) ==
    /\ step = "initialising" /\ w = worker /\ reply[w] # Nothing
    /\ Received(w)
    /\ IF reply[w].ok THEN Loaded([made EXCEPT !.owner = w]) ELSE Failed
    /\ UNCHANGED <<disk, edits, calls, op, path, read, made, old, raced>>

Call(w) ==
    /\ step = "call" /\ w \in Workers
    /\ loaded # Nothing
    /\ Send(w, [kind |-> "call", program |-> loaded])
    /\ step' = "calling"
    /\ UNCHANGED <<disk, edits, calls, op, path, read, made, loaded, old, history>>

\* An error is printed: nothing is loaded or no thread starts (or there is no
\* such function, or the arguments do not fit).
Refuse ==
    /\ step = "call"
    /\ step' = "idle"
    /\ UNCHANGED <<disk, edits, calls, op, path, read, made, loaded, old, worker, workers, history>>

\* The same of build_constants: a constant failed to build.
CannotInit ==
    /\ step = "init" /\ worker = None
    /\ Failed
    /\ UNCHANGED <<disk, edits, calls, op, path, read, made, old, worker, workers, raced>>

Returned(w) ==
    /\ step = "calling" /\ w = worker /\ reply[w] # Nothing
    /\ Received(w)
    /\ step' = "idle"
    /\ UNCHANGED <<disk, edits, calls, op, path, read, made, loaded, old, history>>

\* GDScript lets the object go and makes another.
Drop ==
    /\ step = "idle"
    /\ loaded' = Nothing /\ worker' = None
    /\ path' = None
    /\ good' = Nothing /\ tried' = Never /\ restored' = Never /\ raced' = FALSE
    /\ UNCHANGED <<disk, edits, calls, op, step, read, made, old, workers>>
-----------------------------------------------------------------------------
(* The worker threads. *)

Take(w) ==
    /\ thread[w] = "waiting" /\ job[w] # Nothing
    /\ thread' = [thread EXCEPT ![w] = "running"]
    /\ UNCHANGED <<disk, edits, object, job, reply, history>>

\* A runtime failure ends in the hook, which reports it and never returns:
\* the thread's arenas stay.
Ends(ok) == IF ok THEN "waiting" ELSE "exited" \* seeded fault
Goes(ok) == IF ok THEN "waiting" ELSE "parked"

Answer(w, ok) ==
    /\ thread[w] = "running"
    /\ job[w].kind = "init" => ok = (read[path].text.consts = "good")
    /\ thread' = [thread EXCEPT ![w] = Goes(ok)]
    /\ reply' = [reply EXCEPT ![w] = [ok |-> ok]]
    /\ job' = [job EXCEPT ![w] = Nothing]
    /\ UNCHANGED <<disk, edits, object, history>>

\* The object is gone, and with it the sender of the thread's jobs.
Exit(w) ==
    /\ thread[w] = "waiting" /\ job[w] = Nothing /\ w # worker
    /\ thread' = [thread EXCEPT ![w] = "exited"]
    /\ UNCHANGED <<disk, edits, object, job, reply, history>>
-----------------------------------------------------------------------------
Object ==
    \/ Look \/ ReadEntry \/ ReadModule \/ Check \/ Restore \/ Refuse \/ CannotInit
    \/ \E w \in Threads : SendInit(w) \/ Initialised(w) \/ Call(w) \/ Returned(w)

Thread(w) == Take(w) \/ (\E ok \in BOOLEAN : Answer(w, ok)) \/ Exit(w)

User ==
    \/ \E f \in Entries : Load(f)
    \/ \E o \in {"run", "refresh"} : Begin(o)
    \/ \E text \in MainTexts : Edit("main", text)
    \/ \E text \in ModuleTexts : Edit("module", text)
    \/ Drop

Next == Object \/ User \/ \E w \in Threads : Thread(w)

Spec == Init /\ [][Next]_vars

\* The threads run, and what a program was asked for ends.
FairSpec == Spec /\ WF_vars(Object) /\ \A w \in Threads : WF_vars(Thread(w))
-----------------------------------------------------------------------------
Steps == {"idle", "look", "entry", "module", "check", "restore", "init",
          "initialising", "call", "calling"}

Versions == [Files -> Nat] \cup [{"main"} -> Nat] \cup [{"module"} -> Nat]
Programs == [read : Versions, noted : Versions, owner : Threads \cup {None}]

\* Every variable has its type; between calls the worker kept waits for work.
TypeOK ==
    /\ edits \in 0..MaxEdits /\ calls \in 0..MaxCalls
    /\ op \in {"load", "run", "refresh"} /\ step \in Steps
    /\ path \in Files \cup {None} /\ (loaded # Nothing => path # None)
    /\ DOMAIN read \subseteq Files
    /\ {made, loaded, old} \subseteq Programs \cup {Nothing}
    /\ worker \in Threads \cup {None}
    /\ step \notin {"initialising", "calling"} /\ worker # None => thread[worker] = "waiting"
    /\ \A w \in Threads :
         /\ thread[w] \in {"unborn", "waiting", "running", "parked", "exited"}
         /\ job[w] # Nothing => job[w].kind \in {"init", "call"} /\ job[w].program \in Programs
         /\ reply[w] # Nothing => reply[w].ok \in BOOLEAN

\* "If an edit has errors, they're printed and the old version keeps running"
\* (godot/README.md l.36): once a version compiled, every call runs the last
\* one that did, whatever failed since and wherever.
LastGoodVersionRuns ==
    /\ step \in {"idle", "call", "calling"} =>
         IF good = Nothing THEN loaded = Nothing ELSE loaded # Nothing /\ loaded.read = good
    /\ \A w \in Threads :
         thread[w] = "running" /\ job[w].kind = "call" => job[w].program.read = good

\* A function runs only while the thread whose arena holds the program's
\* constants has not exited, although it may have failed long ago.
ConstantsLive ==
    \A w \in Threads :
        thread[w] = "running" /\ job[w].program.owner # None =>
            thread[job[w].program.owner] # "exited"

\* lib.rs l.204: a version that failed is not tried again until a file of the
\* program was written after the attempt.
NotRetriedInVain ==
    [][step = "look" /\ step' = "entry" =>
         \E f \in Files : disk[f].time > restored[f]]_vars

Quiet == step = "idle" /\ ~raced /\ loaded # Nothing /\ ~Changed

\* A file of the running program that was written since an attempt to compile
\* it is noticed; only a write while the compiler is at work can be missed.
WritesNoticed ==
    Quiet =>
        \A f \in DOMAIN loaded.noted \cap DOMAIN read : tried[f] = disk[f].time

\* lib.rs l.10: "recompiled when they change on disk", of every file the last
\* attempt read, a module that only the attempted version uses included.
NewFilesReloaded ==
    Quiet => \A f \in DOMAIN read : tried[f] = disk[f].time

\* What a game runs between and during its calls: the last version that
\* compiled, with constants that are there, and no change on disk unnoticed.
HostHolds == TypeOK /\ LastGoodVersionRuns /\ ConstantsLive /\ WritesNoticed

\* Every load, run and refresh comes to its end, after failures too.
EveryCallEnds == (step # "idle") ~> (step = "idle")

\* A call is not spent on what failed already, and it ends.
CallsMoveOn == NotRetriedInVain /\ EveryCallEnds
=============================================================================
