-------------------------- MODULE GodotHostProofs --------------------------
(***************************************************************************)
(* Theorems about GodotHost, for any files, texts, edits, calls and        *)
(* threads.  Between any two steps the object keeps one version, in        *)
(* `loaded` or, while it reloads, in `old`; the invariant says what that   *)
(* version is, which thread its constants are on, and what times of the    *)
(* files it knows.                                                         *)
(***************************************************************************)
EXTENDS GodotHost, TLAPS

FileVersions == [text : MainTexts \cup ModuleTexts, time : Nat]
ThreadStates == {"unborn", "waiting", "running", "parked", "exited"}
Jobs         == [kind : {"init", "call"}, program : Programs]

HostType ==
    /\ disk \in [Files -> FileVersions]
    /\ edits \in 0..MaxEdits /\ calls \in 0..MaxCalls
    /\ op \in {"load", "run", "refresh"} /\ step \in Steps
    /\ path \in Files \cup {None}
    /\ DOMAIN read \subseteq Files /\ \A f \in DOMAIN read : read[f] \in FileVersions
    /\ made \in Programs \cup {Nothing}
    /\ loaded \in Programs \cup {Nothing} /\ old \in Programs \cup {Nothing}
    /\ worker \in Threads \cup {None}
    /\ thread \in [Threads -> ThreadStates]
    /\ job \in [Threads -> Jobs \cup {Nothing}]
    /\ reply \in [Threads -> [ok : BOOLEAN] \cup {Nothing}]
    /\ tried \in [Files -> Int] /\ restored \in [Files -> Int]
    /\ raced \in BOOLEAN

\* The steps of a compilation, those that use what it read, and those that
\* wait for a thread.
Attempting == {"entry", "module", "check", "init", "initialising", "restore"}
Reading    == {"module", "check", "init", "initialising"}
Building   == {"init", "initialising"}
Waiting    == {"initialising", "calling"}

\* The version that the next call runs unless another one compiles.
Current == IF step \in Attempting /\ op # "load" THEN old ELSE loaded

\* What the object keeps of its program, whatever step it is in.
VersionKept ==
    /\ step \in {"look", "restore"} => op # "load"
    /\ step \in Attempting => path # None
    /\ step \in Attempting /\ op # "load" => loaded = Nothing /\ old # Nothing
    /\ Current # Nothing => path # None
    /\ IF good = Nothing THEN Current = Nothing ELSE Current # Nothing /\ Current.read = good

\* What the attempt under way has read and made.
AttemptHolds ==
    /\ step \in Reading => path \in DOMAIN read /\ DOMAIN read \in {{path}, Files}
    /\ step \in Building =>
         made # Nothing /\ made.read = ReadTimes /\ DOMAIN made.noted = DOMAIN read /\ made.owner = None

\* No noted time is later than the disk's.
TimesGrow ==
    /\ \A f \in Files : disk[f].time <= edits /\ tried[f] <= disk[f].time /\ restored[f] <= disk[f].time
    /\ \A f \in DOMAIN read : read[f].time <= disk[f].time
    /\ step \in Building => \A f \in DOMAIN made.noted : made.noted[f] <= disk[f].time
    /\ Current # Nothing => \A f \in DOMAIN Current.noted : Current.noted[f] <= disk[f].time

\* A version put back knows the files as they were then.
RestoredHolds ==
    restored # Never /\ Current # Nothing =>
        \A f \in DOMAIN Current.noted : Current.noted[f] = restored[f]

\* When no file is written during a compilation, what it read is what is on
\* disk, and no noted time is later than that of the attempt.
NotRaced ==
    ~raced =>
      /\ step \in Compiling => \A f \in DOMAIN read : read[f].time = disk[f].time
      /\ step \in Building => \A f \in DOMAIN made.noted : made.noted[f] = disk[f].time
      /\ step = "restore" => \A f \in DOMAIN read : tried[f] = disk[f].time
      /\ Current # Nothing =>
           \A f \in DOMAIN Current.noted \cap DOMAIN read :
              Current.noted[f] <= IF step \in Reading THEN read[f].time ELSE tried[f]

\* Only the worker has a job or an answer, and only while the object waits; a
\* thread that has answered waits for more, or has failed and is parked.
WorkersHold ==
    /\ \A w \in Threads :
         /\ thread[w] = "running" => job[w] # Nothing
         /\ job[w] # Nothing =>
              /\ w = worker /\ step \in Waiting
              /\ reply[w] = Nothing /\ thread[w] \in {"waiting", "running"}
              /\ job[w].program = IF step = "initialising" THEN made ELSE loaded
              /\ job[w].kind = "call" => step = "calling"
         /\ reply[w] # Nothing =>
              /\ w = worker /\ step \in Waiting
              /\ thread[w] = IF reply[w].ok THEN "waiting" ELSE "parked"
    /\ worker # None => thread[worker] \in {"waiting", "running", "parked"}
    /\ worker # None /\ step \notin Waiting => thread[worker] = "waiting"

\* The constants are on the worker's thread, or on one that is parked.
OwnerStays ==
    Current # Nothing /\ Current.owner # None =>
        Current.owner = worker \/ thread[Current.owner] = "parked"

Inv ==
    /\ HostType /\ VersionKept /\ AttemptHolds /\ TimesGrow /\ RestoredHolds /\ NotRaced
    /\ WorkersHold /\ OwnerStays
-----------------------------------------------------------------------------
(* What files, programs and attempts are. *)

Domains == {{"main"}, {"module"}, Files}

LEMMA VersionMade ==
    ASSUME NEW v, DOMAIN v \in Domains, v \in [DOMAIN v -> Nat]
    PROVE  v \in Versions
BY DEF Domains, Versions

LEMMA ProgramFacts ==
    ASSUME NEW p \in Programs
    PROVE  /\ p # Nothing /\ p.read \in Versions /\ p.noted \in Versions
           /\ p.owner \in Threads \cup {None}
           /\ DOMAIN p.noted \in Domains /\ DOMAIN p.noted \subseteq Files
           /\ \A f \in DOMAIN p.noted : p.noted[f] \in Nat
<1>1. p.noted \in Versions /\ p.read \in Versions /\ p.owner \in Threads \cup {None}
  BY DEF Programs
<1>2. DOMAIN p.noted \in Domains /\ DOMAIN p.noted \subseteq Files
  BY <1>1 DEF Versions, Domains, Files
<1>3. \A f \in DOMAIN p.noted : p.noted[f] \in Nat
  BY <1>1 DEF Versions
<1>4. p # Nothing
  BY DEF Programs, Nothing
<1> QED
  BY <1>1, <1>2, <1>3, <1>4

LEMMA FileFacts ==
    ASSUME HostType
    PROVE  /\ edits \in Nat /\ \A f \in Files : disk[f].time \in Nat /\ tried[f] \in Int /\ restored[f] \in Int
           /\ \A f \in DOMAIN read : f \in Files /\ read[f].time \in Nat
BY BoundsAssumption DEF HostType, FileVersions

LEMMA AttemptFacts ==
    ASSUME HostType, VersionKept, AttemptHolds, step \in Reading
    PROVE  /\ DOMAIN read \in Domains /\ ReadTimes \in Versions /\ Times(DOMAIN read) \in Versions
           /\ DOMAIN Times(DOMAIN read) = DOMAIN read
           /\ \A f \in DOMAIN read : Times(DOMAIN read)[f] = disk[f].time
<1>1. DOMAIN read \in Domains
  BY DEF HostType, VersionKept, AttemptHolds, Reading, Attempting, Domains, Files
<1>2. ReadTimes \in [DOMAIN read -> Nat] /\ Times(DOMAIN read) \in [DOMAIN read -> Nat]
  BY FileFacts DEF ReadTimes, Times
<1>3. ReadTimes \in Versions /\ Times(DOMAIN read) \in Versions
  BY <1>1, <1>2, VersionMade
<1> QED
  BY <1>1, <1>3 DEF Times

\* What an attempt leaves when it fails: all but the threads.
LEMMA FailedKeeps ==
    ASSUME HostType, VersionKept, AttemptHolds, TimesGrow, RestoredHolds, NotRaced,
           step \in {"check", "init", "initialising"}, Failed,
           UNCHANGED <<disk, edits, calls, op, path, read, made, old, raced>>
    PROVE  /\ step' \in Steps /\ tried' \in [Files -> Int]
           /\ VersionKept' /\ AttemptHolds' /\ TimesGrow' /\ RestoredHolds' /\ NotRaced'
           /\ Current' = Current
<1> USE FileFacts DEF Failed
<1>1. step' \in Steps /\ step' \in {"idle", "restore"} /\ (step' = "restore" <=> op # "load")
  BY DEF Steps
<1>2. Current' = Current
  BY <1>1 DEF Current, Attempting
<1>3. /\ tried' \in [Files -> Int]
      /\ \A f \in DOMAIN read : tried'[f] = read[f].time
      /\ \A f \in Files \ DOMAIN read : tried'[f] = tried[f]
  BY DEF Tried
<1>4. VersionKept'
  BY <1>1, <1>2 DEF VersionKept, Attempting, Current
<1>5. AttemptHolds'
  BY <1>1 DEF AttemptHolds, Reading, Building
<1>6. TimesGrow'
  <2>1. \A f \in Files : tried'[f] <= disk[f].time
    BY <1>3 DEF TimesGrow
  <2> QED
    BY <1>1, <1>2, <2>1 DEF TimesGrow, Building
<1>7. RestoredHolds'
  BY <1>2 DEF RestoredHolds
<1>8. NotRaced'
  BY <1>1, <1>2, <1>3 DEF NotRaced, Compiling, Building, Reading
<1> QED
  BY <1>1, <1>2, <1>3, <1>4, <1>5, <1>6, <1>7, <1>8

\* What an attempt leaves when it made a program: all but the threads.
LEMMA LoadedKeeps ==
    ASSUME HostType, VersionKept, AttemptHolds, TimesGrow, RestoredHolds, NotRaced,
           step \in {"check", "initialising"},
           NEW program \in Programs, Loaded(program),
           program.read = ReadTimes, DOMAIN program.noted = DOMAIN read,
           \A f \in DOMAIN read : program.noted[f] <= disk[f].time,
           ~raced => \A f \in DOMAIN read : program.noted[f] = disk[f].time,
           UNCHANGED <<disk, edits, calls, op, path, read, made, old, raced>>
    PROVE  /\ step' \in Steps /\ tried' \in [Files -> Int] /\ restored' \in [Files -> Int]
           /\ VersionKept' /\ AttemptHolds' /\ TimesGrow' /\ RestoredHolds' /\ NotRaced'
           /\ Current' = program
<1> USE FileFacts, ProgramFacts DEF Loaded
<1>1. step' \in Steps /\ step' \in {"idle", "call"}
  BY DEF Steps, AfterReload
<1>2. Current' = program
  BY <1>1 DEF Current, Attempting
<1>3. /\ tried' \in [Files -> Int]
      /\ \A f \in DOMAIN read : tried'[f] = read[f].time
      /\ \A f \in Files \ DOMAIN read : tried'[f] = tried[f]
  BY DEF Tried
<1>4. restored' \in [Files -> Int] /\ \A f \in Files : restored'[f] = -1
  BY DEF Never
<1>5. VersionKept'
  <2>1. path # None /\ program # Nothing
    BY DEF VersionKept, Attempting
  <2>2. good' = program.read /\ good' # Nothing
    <3>1. good' = ReadTimes /\ ReadTimes \in Versions
      BY AttemptFacts DEF Reading
    <3>2. DOMAIN ReadTimes # {}
      BY AttemptFacts DEF Reading, ReadTimes, Domains, Files
    <3> QED
      BY <3>1, <3>2 DEF Nothing
  <2> QED
    BY <1>1, <1>2, <2>1, <2>2 DEF VersionKept, Attempting
<1>6. AttemptHolds'
  BY <1>1 DEF AttemptHolds, Reading, Building
<1>7. TimesGrow'
  <2>1. \A f \in Files : tried'[f] <= disk[f].time /\ restored'[f] <= disk[f].time
    BY <1>3, <1>4 DEF TimesGrow
  <2> QED
    BY <1>1, <1>2, <2>1 DEF TimesGrow, Building
<1>8. RestoredHolds'
  BY DEF RestoredHolds
<1>9. NotRaced'
  <2>1. ~raced => \A f \in DOMAIN read : tried'[f] = disk[f].time
    BY <1>3 DEF NotRaced, Compiling
  <2> QED
    BY <1>1, <1>2, <2>1 DEF NotRaced, Compiling, Building, Reading
<1> QED
  BY <1>1, <1>2, <1>3, <1>4, <1>5, <1>6, <1>7, <1>8, <1>9
-----------------------------------------------------------------------------
(* What each step keeps of the invariant. *)

LEMMA EditKeeps ==
    ASSUME Inv, NEW f \in Files, NEW text \in MainTexts \cup ModuleTexts, Edit(f, text)
    PROVE  Inv'
<1> USE DEF Inv, Edit
<1>1. HostType'
  BY BoundsAssumption, EntriesAssumption, TextsAssumption DEF object, workers, history, HostType, Steps, ThreadStates, Jobs, Files, FileVersions, AfterReload
<1>2. VersionKept'
  BY DEF object, workers, history, HostType, VersionKept, Current, Attempting, AfterReload
<1>3. AttemptHolds'
  BY DEF object, workers, history, HostType, AttemptHolds, Reading, Building, ReadTimes, AfterReload
<1>4. TimesGrow'
  <2>1. \A g \in Files : disk[g].time <= disk'[g].time /\ disk'[g].time <= edits' /\ disk'[g].time \in Nat
    BY FileFacts DEF HostType, FileVersions, TimesGrow
  <2>2. \A g \in Files : tried[g] <= disk'[g].time /\ restored[g] <= disk'[g].time
    BY <2>1, FileFacts DEF TimesGrow
  <2>3. \A g \in DOMAIN read : read[g].time <= disk'[g].time
    BY <2>1, FileFacts DEF TimesGrow
  <2>4. step \in Building => \A g \in DOMAIN made.noted : made.noted[g] <= disk'[g].time
    <3> SUFFICES ASSUME step \in Building, NEW g \in DOMAIN made.noted  PROVE made.noted[g] <= disk'[g].time
      OBVIOUS
    <3>1. made \in Programs
      BY DEF HostType, AttemptHolds
    <3> QED
      BY <2>1, <3>1, ProgramFacts, FileFacts DEF TimesGrow
  <2>5. Current # Nothing => \A g \in DOMAIN Current.noted : Current.noted[g] <= disk'[g].time
    <3> SUFFICES ASSUME Current # Nothing, NEW g \in DOMAIN Current.noted  PROVE Current.noted[g] <= disk'[g].time
      OBVIOUS
    <3>1. Current \in Programs
      BY DEF HostType, Current
    <3> QED
      BY <2>1, <3>1, ProgramFacts, FileFacts DEF TimesGrow
  <2> QED
    BY <2>1, <2>2, <2>3, <2>4, <2>5 DEF object, history, TimesGrow, Current
<1>5. RestoredHolds'
  BY DEF object, workers, history, HostType, RestoredHolds, Current, Attempting, AfterReload
<1>6. NotRaced'
  BY DEF object, workers, history, HostType, FileVersions, Files, NotRaced, TimesGrow, Current, Attempting, Building, Reading, Compiling, AfterReload
<1>7. WorkersHold'
  BY DEF object, workers, history, HostType, WorkersHold, Waiting, AfterReload
<1>8. OwnerStays'
  BY DEF object, workers, history, HostType, OwnerStays, WorkersHold, Current, Attempting, AfterReload
<1> QED
  BY <1>1, <1>2, <1>3, <1>4, <1>5, <1>6, <1>7, <1>8

LEMMA LoadKeeps ==
    ASSUME Inv, NEW f \in Files, Load(f)
    PROVE  Inv'
<1> USE DEF Inv, Load, Start
<1>1. HostType'
  BY BoundsAssumption, EntriesAssumption, TextsAssumption DEF object, workers, history, HostType, Steps, ThreadStates, Jobs, Files, FileVersions, AfterReload
<1>2. VersionKept'
  BY EntriesAssumption DEF VersionKept, Current, Attempting, Files, None, object, history
<1>3. AttemptHolds'
  BY DEF object, workers, history, HostType, AttemptHolds, Reading, Building, ReadTimes, AfterReload
<1>4. TimesGrow'
  BY <1>1, BoundsAssumption DEF object, workers, history, HostType, FileVersions, Never, Files, TimesGrow, Current, Attempting, Building, AfterReload
<1>5. RestoredHolds'
  BY DEF object, workers, history, HostType, RestoredHolds, Current, Attempting, AfterReload
<1>6. NotRaced'
  BY DEF object, workers, history, HostType, FileVersions, Files, NotRaced, TimesGrow, Current, Attempting, Building, Reading, Compiling, AfterReload
<1>7. WorkersHold'
  BY DEF object, workers, history, HostType, WorkersHold, Waiting, AfterReload
<1>8. OwnerStays'
  BY DEF object, workers, history, HostType, OwnerStays, WorkersHold, Current, Attempting, AfterReload
<1> QED
  BY <1>1, <1>2, <1>3, <1>4, <1>5, <1>6, <1>7, <1>8

LEMMA BeginKeeps ==
    ASSUME Inv, NEW o \in {"run", "refresh"}, Begin(o)
    PROVE  Inv'
<1> USE DEF Inv, Begin, Start
<1>1. HostType'
  BY BoundsAssumption, EntriesAssumption, TextsAssumption DEF object, workers, history, HostType, Steps, ThreadStates, Jobs, Files, FileVersions, AfterReload
<1>2. VersionKept'
  BY DEF object, workers, history, HostType, VersionKept, Current, Attempting, AfterReload
<1>3. AttemptHolds'
  BY DEF object, workers, history, HostType, AttemptHolds, Reading, Building, ReadTimes, AfterReload
<1>4. TimesGrow'
  BY <1>1, BoundsAssumption DEF object, workers, history, HostType, FileVersions, Never, Files, TimesGrow, Current, Attempting, Building, AfterReload
<1>5. RestoredHolds'
  BY DEF object, workers, history, HostType, RestoredHolds, Current, Attempting, AfterReload
<1>6. NotRaced'
  BY DEF object, workers, history, HostType, FileVersions, Files, NotRaced, TimesGrow, Current, Attempting, Building, Reading, Compiling, AfterReload
<1>7. WorkersHold'
  BY DEF object, workers, history, HostType, WorkersHold, Waiting, AfterReload
<1>8. OwnerStays'
  BY DEF object, workers, history, HostType, OwnerStays, WorkersHold, Current, Attempting, AfterReload
<1> QED
  BY <1>1, <1>2, <1>3, <1>4, <1>5, <1>6, <1>7, <1>8

LEMMA LookKeeps ==
    ASSUME Inv, Look
    PROVE  Inv'
<1> USE DEF Inv, Look, Changed
<1>1. HostType'
  BY BoundsAssumption, EntriesAssumption, TextsAssumption DEF object, workers, history, HostType, Steps, ThreadStates, Jobs, Files, FileVersions, AfterReload
<1>2. VersionKept'
  BY DEF object, workers, history, HostType, VersionKept, Current, Attempting, AfterReload
<1>3. AttemptHolds'
  BY DEF object, workers, history, HostType, AttemptHolds, Reading, Building, ReadTimes, AfterReload
<1>4. TimesGrow'
  BY <1>1, BoundsAssumption DEF object, workers, history, HostType, FileVersions, Never, Files, TimesGrow, Current, Attempting, Building, AfterReload
<1>5. RestoredHolds'
  BY DEF object, workers, history, HostType, RestoredHolds, Current, Attempting, AfterReload
<1>6. NotRaced'
  BY DEF object, workers, history, HostType, FileVersions, Files, NotRaced, TimesGrow, Current, Attempting, Building, Reading, Compiling, AfterReload
<1>7. WorkersHold'
  BY DEF object, workers, history, HostType, WorkersHold, Waiting, AfterReload
<1>8. OwnerStays'
  BY DEF object, workers, history, HostType, OwnerStays, WorkersHold, Current, Attempting, AfterReload
<1> QED
  BY <1>1, <1>2, <1>3, <1>4, <1>5, <1>6, <1>7, <1>8

LEMMA ReadEntryKeeps ==
    ASSUME Inv, ReadEntry
    PROVE  Inv'
<1> USE DEF Inv, ReadEntry, VersionKept, Attempting
<1>1. HostType'
  BY BoundsAssumption, EntriesAssumption, TextsAssumption DEF object, workers, history, HostType, Steps, ThreadStates, Jobs, Files, FileVersions, AfterReload
<1>2. VersionKept'
  BY DEF object, workers, history, HostType, VersionKept, Current, Attempting, AfterReload
<1>3. AttemptHolds'
  BY DEF object, workers, history, HostType, AttemptHolds, Reading, Building, ReadTimes, AfterReload
<1>4. TimesGrow'
  BY <1>1, BoundsAssumption DEF object, workers, history, HostType, FileVersions, Never, Files, TimesGrow, Current, Attempting, Building, AfterReload
<1>5. RestoredHolds'
  BY DEF object, workers, history, HostType, RestoredHolds, Current, Attempting, AfterReload
<1>6. NotRaced'
  BY DEF object, workers, history, HostType, FileVersions, Files, NotRaced, TimesGrow, Current, Attempting, Building, Reading, Compiling, AfterReload
<1>7. WorkersHold'
  BY DEF object, workers, history, HostType, WorkersHold, Waiting, AfterReload
<1>8. OwnerStays'
  BY DEF object, workers, history, HostType, OwnerStays, WorkersHold, Current, Attempting, AfterReload
<1> QED
  BY <1>1, <1>2, <1>3, <1>4, <1>5, <1>6, <1>7, <1>8

LEMMA ReadModuleKeeps ==
    ASSUME Inv, ReadModule
    PROVE  Inv'
<1> USE DEF Inv, ReadModule, AttemptHolds, VersionKept, Attempting, Reading
<1>1. HostType'
  BY BoundsAssumption, EntriesAssumption, TextsAssumption DEF object, workers, history, HostType, Steps, ThreadStates, Jobs, Files, FileVersions, AfterReload
<1>2. VersionKept'
  BY DEF object, workers, history, HostType, VersionKept, Current, Attempting, AfterReload
<1>3. AttemptHolds'
  BY DEF object, workers, history, HostType, AttemptHolds, Reading, Building, ReadTimes, AfterReload
<1>4. TimesGrow'
  BY <1>1, BoundsAssumption DEF object, workers, history, HostType, FileVersions, Never, Files, TimesGrow, Current, Attempting, Building, AfterReload
<1>5. RestoredHolds'
  BY DEF object, workers, history, HostType, RestoredHolds, Current, Attempting, AfterReload
<1>6. NotRaced'
  BY DEF object, workers, history, HostType, FileVersions, Files, NotRaced, TimesGrow, Current, Attempting, Building, Reading, Compiling, AfterReload
<1>7. WorkersHold'
  BY DEF object, workers, history, HostType, WorkersHold, Waiting, AfterReload
<1>8. OwnerStays'
  BY DEF object, workers, history, HostType, OwnerStays, WorkersHold, Current, Attempting, AfterReload
<1> QED
  BY <1>1, <1>2, <1>3, <1>4, <1>5, <1>6, <1>7, <1>8

LEMMA CheckKeeps ==
    ASSUME Inv, Check
    PROVE  Inv'
<1> USE DEF Inv, Check
<1> DEFINE p == [read |-> ReadTimes, noted |-> Times(DOMAIN read), owner |-> None]
<1>1. /\ step = "check" /\ step \in Reading
      /\ UNCHANGED <<disk, edits, calls, op, path, read, old, worker, workers, raced>>
  BY DEF Reading
<1>2. /\ p \in Programs /\ p.read = ReadTimes /\ p.owner = None
      /\ DOMAIN p.noted = DOMAIN read /\ \A f \in DOMAIN read : p.noted[f] = disk[f].time
  BY <1>1, AttemptFacts DEF Programs
<1> HIDE DEF p
<1>3. CASE Failed /\ UNCHANGED made
  <2>1. /\ step' \in Steps /\ tried' \in [Files -> Int] /\ Current' = Current
        /\ VersionKept' /\ AttemptHolds' /\ TimesGrow' /\ RestoredHolds' /\ NotRaced'
    BY <1>1, <1>3, FailedKeeps
  <2>2. HostType'
    BY <1>1, <1>3, <2>1 DEF HostType, Failed, workers
  <2>3. step' \in {"idle", "restore"}
    BY <1>3 DEF Failed
  <2>4. WorkersHold' /\ OwnerStays'
    BY <1>1, <2>1, <2>3 DEF WorkersHold, OwnerStays, Waiting, workers
  <2> QED
    BY <2>1, <2>2, <2>4
<1>4. CASE Loaded(p) /\ UNCHANGED made
  <2>1. \A f \in DOMAIN read : p.noted[f] <= disk[f].time
    BY <1>2, FileFacts
  <2>2. /\ step' \in Steps /\ tried' \in [Files -> Int] /\ restored' \in [Files -> Int] /\ Current' = p
        /\ VersionKept' /\ AttemptHolds' /\ TimesGrow' /\ RestoredHolds' /\ NotRaced'
    BY <1>1, <1>2, <1>4, <2>1, LoadedKeeps
  <2>3. HostType'
    BY <1>1, <1>2, <1>4, <2>2 DEF HostType, Loaded, workers
  <2>4. step' \in {"idle", "call"}
    BY <1>4 DEF Loaded, AfterReload
  <2>5. WorkersHold' /\ OwnerStays'
    BY <1>1, <1>2, <2>2, <2>4 DEF WorkersHold, OwnerStays, Waiting, workers
  <2> QED
    BY <2>2, <2>3, <2>5
<1>5. CASE made' = p /\ step' = "init" /\ UNCHANGED <<loaded, tried, restored, good>>
  <2>1. HostType'
    BY <1>1, <1>2, <1>5 DEF HostType, workers, Steps
  <2>2. Current' = Current
    BY <1>1, <1>5 DEF Current, Attempting
  <2>3. VersionKept'
    BY <1>1, <1>5, <2>2 DEF VersionKept, Attempting
  <2>4. AttemptHolds'
    <3>1. ReadTimes' = ReadTimes
      BY <1>1 DEF ReadTimes
    <3>2. p # Nothing
      BY <1>2, ProgramFacts
    <3> QED
      BY <1>1, <1>2, <1>5, <3>1, <3>2 DEF AttemptHolds, Reading, Building
  <2>5. TimesGrow'
    BY <1>1, <1>2, <1>5, <2>2, FileFacts DEF TimesGrow, Building
  <2>6. RestoredHolds'
    BY <1>5, <2>2 DEF RestoredHolds
  <2>7. NotRaced'
    BY <1>1, <1>2, <1>5, <2>2 DEF NotRaced, Compiling, Building, Reading
  <2>8. WorkersHold' /\ OwnerStays'
    BY <1>1, <1>5, <2>2 DEF WorkersHold, OwnerStays, Waiting, workers
  <2> QED
    BY <2>1, <2>3, <2>4, <2>5, <2>6, <2>7, <2>8
<1> QED
  BY <1>3, <1>4, <1>5 DEF Check, p

LEMMA RestoreKeeps ==
    ASSUME Inv, Restore
    PROVE  Inv'
<1> USE DEF Inv, Restore
<1> DEFINE p == [old EXCEPT !.noted = Times(DOMAIN old.noted)]
<1>1. /\ step = "restore" /\ op # "load" /\ Current = old
      /\ UNCHANGED <<disk, edits, calls, op, path, read, made, old, worker, workers, good, tried, raced>>
  BY DEF VersionKept, Current, Attempting
<1>2. old \in Programs /\ old # Nothing
  BY <1>1 DEF HostType, VersionKept, Attempting
<1>3. /\ p \in Programs /\ p.read = old.read /\ p.owner = old.owner /\ DOMAIN p.noted = DOMAIN old.noted
      /\ \A f \in DOMAIN p.noted : f \in Files /\ p.noted[f] = disk[f].time
  <2>1. DOMAIN old.noted \in Domains /\ DOMAIN old.noted \subseteq Files
    BY <1>2, ProgramFacts
  <2>2. Times(DOMAIN old.noted) \in [DOMAIN old.noted -> Nat]
    BY <2>1, FileFacts DEF Times
  <2>3. Times(DOMAIN old.noted) \in Versions
    BY <2>1, <2>2, VersionMade
  <2> QED
    BY <1>2, <2>1, <2>3 DEF Programs, Times
<1>4. loaded' = p
  BY DEF Restored
<1> HIDE DEF p
<1>5. step' \in {"idle", "call"} /\ step' \in Steps
  BY DEF AfterReload, Steps
<1>6. Current' = p /\ p # Nothing
  BY <1>3, <1>4, <1>5, ProgramFacts DEF Current, Attempting
<1>7. restored' \in [Files -> Int] /\ \A f \in Files : restored'[f] = disk[f].time
  BY FileFacts DEF Times
<1>8. HostType'
  BY <1>1, <1>3, <1>4, <1>5, <1>7 DEF HostType, workers
<1>9. VersionKept'
  BY <1>1, <1>2, <1>3, <1>5, <1>6 DEF VersionKept, Attempting
<1>10. AttemptHolds'
  BY <1>5 DEF AttemptHolds, Reading, Building
<1>11. TimesGrow'
  BY <1>1, <1>3, <1>5, <1>6, <1>7, FileFacts DEF TimesGrow, Building
<1>12. RestoredHolds'
  BY <1>3, <1>6, <1>7 DEF RestoredHolds
<1>13. NotRaced'
  BY <1>1, <1>3, <1>5, <1>6, FileFacts DEF NotRaced, Compiling, Building, Reading
<1>14. WorkersHold' /\ OwnerStays'
  BY <1>1, <1>2, <1>3, <1>5, <1>6 DEF WorkersHold, OwnerStays, Waiting, workers
<1> QED
  BY <1>8, <1>9, <1>10, <1>11, <1>12, <1>13, <1>14

LEMMA RefuseKeeps ==
    ASSUME Inv, Refuse
    PROVE  Inv'
<1> USE DEF Inv, Refuse
<1>1. HostType'
  BY BoundsAssumption, EntriesAssumption, TextsAssumption DEF object, workers, history, HostType, Steps, ThreadStates, Jobs, Files, FileVersions, AfterReload
<1>2. VersionKept'
  BY DEF object, workers, history, HostType, VersionKept, Current, Attempting, AfterReload
<1>3. AttemptHolds'
  BY DEF object, workers, history, HostType, AttemptHolds, Reading, Building, ReadTimes, AfterReload
<1>4. TimesGrow'
  BY <1>1, BoundsAssumption DEF object, workers, history, HostType, FileVersions, Never, Files, TimesGrow, Current, Attempting, Building, AfterReload
<1>5. RestoredHolds'
  BY DEF object, workers, history, HostType, RestoredHolds, Current, Attempting, AfterReload
<1>6. NotRaced'
  BY DEF object, workers, history, HostType, FileVersions, Files, NotRaced, TimesGrow, Current, Attempting, Building, Reading, Compiling, AfterReload
<1>7. WorkersHold'
  BY DEF object, workers, history, HostType, WorkersHold, Waiting, AfterReload
<1>8. OwnerStays'
  BY DEF object, workers, history, HostType, OwnerStays, WorkersHold, Current, Attempting, AfterReload
<1> QED
  BY <1>1, <1>2, <1>3, <1>4, <1>5, <1>6, <1>7, <1>8

LEMMA CannotInitKeeps ==
    ASSUME Inv, CannotInit
    PROVE  Inv'
<1> USE DEF Inv, CannotInit, Failed
<1>1. HostType'
  <2>1. step' \in Steps /\ tried' \in [Files -> Int]
    BY FailedKeeps
  <2> QED
    BY <2>1 DEF workers, HostType
<1>2. VersionKept'
  BY FailedKeeps
<1>3. AttemptHolds'
  BY FailedKeeps
<1>4. TimesGrow'
  BY FailedKeeps
<1>5. RestoredHolds'
  BY FailedKeeps
<1>6. NotRaced'
  BY FailedKeeps
<1>7. WorkersHold'
  BY DEF object, workers, history, HostType, WorkersHold, Waiting, AfterReload
<1>8. OwnerStays'
  BY FailedKeeps DEF workers, OwnerStays
<1> QED
  BY <1>1, <1>2, <1>3, <1>4, <1>5, <1>6, <1>7, <1>8

LEMMA SendInitKeeps ==
    ASSUME Inv, NEW w \in Threads, SendInit(w)
    PROVE  Inv'
<1> USE DEF Inv, SendInit, Send, Workers
<1>1. HostType'
  <2>1. made \in Programs /\ [kind |-> "init", program |-> made] \in Jobs
    BY DEF HostType, AttemptHolds, Building, Jobs
  <2> QED
    BY <2>1 DEF history, HostType, Steps, ThreadStates
<1>2. VersionKept'
  BY DEF object, workers, history, HostType, VersionKept, Current, Attempting, AfterReload
<1>3. AttemptHolds'
  BY DEF object, workers, history, HostType, AttemptHolds, Reading, Building, ReadTimes, AfterReload
<1>4. TimesGrow'
  BY <1>1, BoundsAssumption DEF object, workers, history, HostType, FileVersions, Never, Files, TimesGrow, Current, Attempting, Building, AfterReload
<1>5. RestoredHolds'
  BY DEF object, workers, history, HostType, RestoredHolds, Current, Attempting, AfterReload
<1>6. NotRaced'
  BY DEF object, workers, history, HostType, FileVersions, Files, NotRaced, TimesGrow, Current, Attempting, Building, Reading, Compiling, AfterReload
<1>7. WorkersHold'
  BY DEF object, workers, history, HostType, WorkersHold, Waiting, AfterReload
<1>8. OwnerStays'
  BY DEF object, workers, history, HostType, OwnerStays, WorkersHold, Current, Attempting, AfterReload
<1> QED
  BY <1>1, <1>2, <1>3, <1>4, <1>5, <1>6, <1>7, <1>8

LEMMA InitialisedKeeps ==
    ASSUME Inv, NEW w \in Threads, Initialised(w)
    PROVE  Inv'
<1> USE DEF Inv, Initialised
<1>1. /\ step = "initialising" /\ step \in Reading /\ step \in Building /\ step \in Waiting
      /\ w = worker /\ reply[w] # Nothing
      /\ UNCHANGED <<disk, edits, calls, op, path, read, made, old, raced, thread, job>>
  BY DEF Received, Reading, Building, Waiting
<1>2. job[w] = Nothing /\ thread[w] = (IF reply[w].ok THEN "waiting" ELSE "parked") /\ w # None
  BY <1>1, ThreadsAssumption DEF WorkersHold
<1>3. \A v \in Threads \ {w} : job[v] = Nothing /\ reply[v] = Nothing /\ thread[v] # "running"
  BY <1>1 DEF WorkersHold
<1>4. reply' = [reply EXCEPT ![w] = Nothing] /\ worker' = IF reply[w].ok THEN w ELSE None
  BY <1>1 DEF Received, WorkerAfter
<1>5. made \in Programs /\ made.read = ReadTimes /\ DOMAIN made.noted = DOMAIN read
  BY <1>1 DEF HostType, AttemptHolds
<1>6. step' \notin Waiting
  BY DEF Failed, Loaded, AfterReload, Waiting
<1>7. WorkersHold'
  BY <1>1, <1>2, <1>3, <1>4, <1>6 DEF WorkersHold, HostType
<1>8. CASE ~reply[w].ok
  <2>1. Failed
    BY <1>8
  <2>2. /\ step' \in Steps /\ tried' \in [Files -> Int] /\ Current' = Current
        /\ VersionKept' /\ AttemptHolds' /\ TimesGrow' /\ RestoredHolds' /\ NotRaced'
    BY <1>1, <2>1, FailedKeeps
  <2>3. HostType'
    BY <1>1, <1>4, <2>1, <2>2 DEF HostType, Failed
  <2>4. OwnerStays'
    BY <1>1, <1>2, <1>8, <2>2 DEF OwnerStays
  <2> QED
    BY <1>7, <2>2, <2>3, <2>4
<1>9. CASE reply[w].ok
  <2> DEFINE p == [made EXCEPT !.owner = w]
  <2>1. Loaded(p)
    BY <1>9
  <2>2. p \in Programs /\ p.read = made.read /\ p.noted = made.noted /\ p.owner = w
    BY <1>5 DEF Programs
  <2> HIDE DEF p
  <2>3. /\ \A f \in DOMAIN read : p.noted[f] <= disk[f].time
        /\ ~raced => \A f \in DOMAIN read : p.noted[f] = disk[f].time
    BY <1>1, <1>5, <2>2 DEF TimesGrow, NotRaced
  <2>4. /\ step' \in Steps /\ tried' \in [Files -> Int] /\ restored' \in [Files -> Int] /\ Current' = p
        /\ VersionKept' /\ AttemptHolds' /\ TimesGrow' /\ RestoredHolds' /\ NotRaced'
    BY <1>1, <1>5, <2>1, <2>2, <2>3, LoadedKeeps
  <2>5. HostType'
    BY <1>1, <1>4, <2>1, <2>2, <2>4 DEF HostType, Loaded
  <2>6. OwnerStays'
    BY <1>4, <1>9, <2>2, <2>4 DEF OwnerStays
  <2> QED
    BY <1>7, <2>4, <2>5, <2>6
<1> QED
  BY <1>8, <1>9

LEMMA CallKeeps ==
    ASSUME Inv, NEW w \in Threads, Call(w)
    PROVE  Inv'
<1> USE DEF Inv, Call, Send, Workers
<1>1. HostType'
  BY BoundsAssumption, EntriesAssumption, TextsAssumption DEF object, workers, history, HostType, Steps, ThreadStates, Jobs, Files, FileVersions, AfterReload
<1>2. VersionKept'
  BY DEF object, workers, history, HostType, VersionKept, Current, Attempting, AfterReload
<1>3. AttemptHolds'
  BY DEF object, workers, history, HostType, AttemptHolds, Reading, Building, ReadTimes, AfterReload
<1>4. TimesGrow'
  BY <1>1, BoundsAssumption DEF object, workers, history, HostType, FileVersions, Never, Files, TimesGrow, Current, Attempting, Building, AfterReload
<1>5. RestoredHolds'
  BY DEF object, workers, history, HostType, RestoredHolds, Current, Attempting, AfterReload
<1>6. NotRaced'
  BY DEF object, workers, history, HostType, FileVersions, Files, NotRaced, TimesGrow, Current, Attempting, Building, Reading, Compiling, AfterReload
<1>7. WorkersHold'
  BY DEF object, workers, history, HostType, WorkersHold, Waiting, AfterReload
<1>8. OwnerStays'
  BY DEF object, workers, history, HostType, OwnerStays, WorkersHold, Current, Attempting, AfterReload
<1> QED
  BY <1>1, <1>2, <1>3, <1>4, <1>5, <1>6, <1>7, <1>8

LEMMA ReturnedKeeps ==
    ASSUME Inv, NEW w \in Threads, Returned(w)
    PROVE  Inv'
<1> USE DEF Inv, Returned, Received, WorkerAfter
<1>1. HostType'
  BY BoundsAssumption, EntriesAssumption, TextsAssumption DEF object, workers, history, HostType, Steps, ThreadStates, Jobs, Files, FileVersions, AfterReload
<1>2. VersionKept'
  BY DEF object, workers, history, HostType, VersionKept, Current, Attempting, AfterReload
<1>3. AttemptHolds'
  BY DEF object, workers, history, HostType, AttemptHolds, Reading, Building, ReadTimes, AfterReload
<1>4. TimesGrow'
  BY <1>1, BoundsAssumption DEF object, workers, history, HostType, FileVersions, Never, Files, TimesGrow, Current, Attempting, Building, AfterReload
<1>5. RestoredHolds'
  BY DEF object, workers, history, HostType, RestoredHolds, Current, Attempting, AfterReload
<1>6. NotRaced'
  BY DEF object, workers, history, HostType, FileVersions, Files, NotRaced, TimesGrow, Current, Attempting, Building, Reading, Compiling, AfterReload
<1>7. WorkersHold'
  BY DEF object, workers, history, HostType, WorkersHold, Waiting, AfterReload
<1>8. OwnerStays'
  BY DEF object, workers, history, HostType, OwnerStays, WorkersHold, Current, Attempting, AfterReload
<1> QED
  BY <1>1, <1>2, <1>3, <1>4, <1>5, <1>6, <1>7, <1>8

LEMMA DropKeeps ==
    ASSUME Inv, Drop
    PROVE  Inv'
<1> USE DEF Inv, Drop
<1>1. HostType'
  <2>1. Never \in [Files -> Int]
    BY DEF Never
  <2> QED
    BY <2>1 DEF workers, HostType
<1>2. VersionKept'
  BY DEF object, workers, history, HostType, VersionKept, Current, Attempting, AfterReload
<1>3. AttemptHolds'
  BY DEF object, workers, history, HostType, AttemptHolds, Reading, Building, ReadTimes, AfterReload
<1>4. TimesGrow'
  BY <1>1, BoundsAssumption DEF object, workers, history, HostType, FileVersions, Never, Files, TimesGrow, Current, Attempting, Building, AfterReload
<1>5. RestoredHolds'
  BY DEF object, workers, history, HostType, RestoredHolds, Current, Attempting, AfterReload
<1>6. NotRaced'
  BY DEF object, workers, history, HostType, FileVersions, Files, NotRaced, TimesGrow, Current, Attempting, Building, Reading, Compiling, AfterReload
<1>7. WorkersHold'
  BY DEF object, workers, history, HostType, WorkersHold, Waiting, AfterReload
<1>8. OwnerStays'
  BY DEF object, workers, history, HostType, OwnerStays, WorkersHold, Current, Attempting, AfterReload
<1> QED
  BY <1>1, <1>2, <1>3, <1>4, <1>5, <1>6, <1>7, <1>8

LEMMA TakeKeeps ==
    ASSUME Inv, NEW w \in Threads, Take(w)
    PROVE  Inv'
<1> USE DEF Inv, Take
<1>1. HostType'
  BY BoundsAssumption, EntriesAssumption, TextsAssumption DEF object, workers, history, HostType, Steps, ThreadStates, Jobs, Files, FileVersions, AfterReload
<1>2. VersionKept'
  BY DEF object, workers, history, HostType, VersionKept, Current, Attempting, AfterReload
<1>3. AttemptHolds'
  BY DEF object, workers, history, HostType, AttemptHolds, Reading, Building, ReadTimes, AfterReload
<1>4. TimesGrow'
  BY <1>1, BoundsAssumption DEF object, workers, history, HostType, FileVersions, Never, Files, TimesGrow, Current, Attempting, Building, AfterReload
<1>5. RestoredHolds'
  BY DEF object, workers, history, HostType, RestoredHolds, Current, Attempting, AfterReload
<1>6. NotRaced'
  BY DEF object, workers, history, HostType, FileVersions, Files, NotRaced, TimesGrow, Current, Attempting, Building, Reading, Compiling, AfterReload
<1>7. WorkersHold'
  BY DEF object, workers, history, HostType, WorkersHold, Waiting, AfterReload
<1>8. OwnerStays'
  BY DEF object, workers, history, HostType, OwnerStays, WorkersHold, Current, Attempting, AfterReload
<1> QED
  BY <1>1, <1>2, <1>3, <1>4, <1>5, <1>6, <1>7, <1>8

LEMMA AnswerKeeps ==
    ASSUME Inv, NEW w \in Threads, NEW ok \in BOOLEAN, Answer(w, ok)
    PROVE  Inv'
<1> USE DEF Inv, Answer, Goes
<1>1. HostType'
  BY BoundsAssumption, EntriesAssumption, TextsAssumption DEF object, workers, history, HostType, Steps, ThreadStates, Jobs, Files, FileVersions, AfterReload
<1>2. VersionKept'
  BY DEF object, workers, history, HostType, VersionKept, Current, Attempting, AfterReload
<1>3. AttemptHolds'
  BY DEF object, workers, history, HostType, AttemptHolds, Reading, Building, ReadTimes, AfterReload
<1>4. TimesGrow'
  BY <1>1, BoundsAssumption DEF object, workers, history, HostType, FileVersions, Never, Files, TimesGrow, Current, Attempting, Building, AfterReload
<1>5. RestoredHolds'
  BY DEF object, workers, history, HostType, RestoredHolds, Current, Attempting, AfterReload
<1>6. NotRaced'
  BY DEF object, workers, history, HostType, FileVersions, Files, NotRaced, TimesGrow, Current, Attempting, Building, Reading, Compiling, AfterReload
<1>7. WorkersHold'
  BY DEF object, workers, history, HostType, WorkersHold, Waiting, AfterReload
<1>8. OwnerStays'
  BY DEF object, workers, history, HostType, OwnerStays, WorkersHold, Current, Attempting, AfterReload
<1> QED
  BY <1>1, <1>2, <1>3, <1>4, <1>5, <1>6, <1>7, <1>8

LEMMA ExitKeeps ==
    ASSUME Inv, NEW w \in Threads, Exit(w)
    PROVE  Inv'
<1> USE DEF Inv, Exit
<1>1. HostType'
  BY BoundsAssumption, EntriesAssumption, TextsAssumption DEF object, workers, history, HostType, Steps, ThreadStates, Jobs, Files, FileVersions, AfterReload
<1>2. VersionKept'
  BY DEF object, workers, history, HostType, VersionKept, Current, Attempting, AfterReload
<1>3. AttemptHolds'
  BY DEF object, workers, history, HostType, AttemptHolds, Reading, Building, ReadTimes, AfterReload
<1>4. TimesGrow'
  BY <1>1, BoundsAssumption DEF object, workers, history, HostType, FileVersions, Never, Files, TimesGrow, Current, Attempting, Building, AfterReload
<1>5. RestoredHolds'
  BY DEF object, workers, history, HostType, RestoredHolds, Current, Attempting, AfterReload
<1>6. NotRaced'
  BY DEF object, workers, history, HostType, FileVersions, Files, NotRaced, TimesGrow, Current, Attempting, Building, Reading, Compiling, AfterReload
<1>7. WorkersHold'
  BY DEF object, workers, history, HostType, WorkersHold, Waiting, AfterReload
<1>8. OwnerStays'
  BY DEF object, workers, history, HostType, OwnerStays, WorkersHold, Current, Attempting, AfterReload
<1> QED
  BY <1>1, <1>2, <1>3, <1>4, <1>5, <1>6, <1>7, <1>8
-----------------------------------------------------------------------------
LEMMA InvInit == Init => Inv
<1> SUFFICES ASSUME Init  PROVE Inv
  OBVIOUS
<1> USE DEF Init
<1>1. HostType
  <2>1. Never \in [Files -> Int]
    BY DEF Never
  <2>2. disk \in [Files -> FileVersions]
    BY DEF FileVersions, Files
  <2>3. DOMAIN read = {}
    OBVIOUS
  <2>4. thread \in [Threads -> ThreadStates] /\ edits \in 0..MaxEdits /\ calls \in 0..MaxCalls
    BY BoundsAssumption DEF ThreadStates
  <2>5. job \in [Threads -> Jobs \cup {Nothing}] /\ reply \in [Threads -> [ok : BOOLEAN] \cup {Nothing}]
    OBVIOUS
  <2> QED
    BY <2>1, <2>2, <2>3, <2>4, <2>5 DEF HostType, Steps
<1>2. VersionKept /\ RestoredHolds /\ OwnerStays
  BY DEF VersionKept, RestoredHolds, OwnerStays, Current, Attempting
<1>3. TimesGrow
  BY DEF TimesGrow, Current, Attempting, Building, Never
<1>4. NotRaced
  BY DEF NotRaced, Current, Attempting, Building, Compiling
<1>5. AttemptHolds /\ WorkersHold
  BY DEF AttemptHolds, WorkersHold, Reading, Building, Waiting
<1> QED
  BY <1>1, <1>2, <1>3, <1>4, <1>5 DEF Inv

LEMMA InvStep == Inv /\ [Next]_vars => Inv'
<1> SUFFICES ASSUME Inv, [Next]_vars  PROVE Inv'
  OBVIOUS
<1>1. CASE Object
  BY <1>1, LookKeeps, ReadEntryKeeps, ReadModuleKeeps, CheckKeeps, RestoreKeeps, RefuseKeeps,
     CannotInitKeeps, SendInitKeeps, InitialisedKeeps, CallKeeps, ReturnedKeeps DEF Object
<1>2. CASE User
  <2>1. ASSUME NEW f \in Entries, Load(f)  PROVE Inv'
    BY <2>1, EntriesAssumption, LoadKeeps
  <2>2. ASSUME NEW text \in MainTexts \cup ModuleTexts, Edit("main", text) \/ Edit("module", text)
        PROVE  Inv'
    BY <2>2, EditKeeps DEF Files
  <2> QED
    BY <1>2, <2>1, <2>2, BeginKeeps, DropKeeps DEF User
<1>3. ASSUME NEW w \in Threads, Thread(w)  PROVE Inv'
  BY <1>3, TakeKeeps, AnswerKeeps, ExitKeeps DEF Thread
<1>4. CASE UNCHANGED vars
  <2>1. ReadTimes' = ReadTimes /\ Current' = Current
    BY <1>4 DEF vars, object, ReadTimes, Current
  <2> USE <1>4, <2>1 DEF vars, object, workers, history, Inv
  <2>2. HostType' /\ VersionKept' /\ AttemptHolds'
    BY DEF HostType, VersionKept, AttemptHolds
  <2>3. TimesGrow' /\ RestoredHolds' /\ NotRaced'
    BY DEF TimesGrow, RestoredHolds, NotRaced
  <2>4. WorkersHold' /\ OwnerStays'
    BY DEF WorkersHold, OwnerStays
  <2> QED
    BY <2>2, <2>3, <2>4
<1> QED
  BY <1>1, <1>2, <1>3, <1>4 DEF Next

THEOREM InvAlways == Spec => []Inv
BY InvInit, InvStep, PTL DEF Spec

\* What a game runs (godot/src/lib.rs, worker.rs) is the last version that
\* compiled, on constants that are there, and no written file goes unnoticed.
THEOREM HostAlwaysHolds == Spec => []HostHolds
<1>1. Inv => HostHolds
  <2> SUFFICES ASSUME Inv  PROVE HostHolds
    OBVIOUS
  <2> USE DEF Inv
  <2>1. TypeOK
    <3>1. loaded # Nothing => path # None
      BY DEF VersionKept, Current
    <3>2. step \notin {"initialising", "calling"} /\ worker # None => thread[worker] = "waiting"
      BY DEF WorkersHold, Waiting
    <3>3. \A w \in Threads :
            /\ thread[w] \in ThreadStates
            /\ job[w] # Nothing => job[w].kind \in {"init", "call"} /\ job[w].program \in Programs
            /\ reply[w] # Nothing => reply[w].ok \in BOOLEAN
      BY DEF HostType, Jobs
    <3> QED
      BY <3>1, <3>2, <3>3 DEF TypeOK, HostType, ThreadStates
  <2>2. \A w \in Threads : thread[w] = "running" =>
          /\ job[w] \in Jobs /\ job[w].program \in Programs
          /\ job[w].kind = "call" => step = "calling"
          /\ step = "calling" => job[w].program = loaded /\ Current = loaded
          /\ step # "calling" => job[w].program = made /\ step \in Building
    BY DEF WorkersHold, HostType, Jobs, Waiting, Current, Attempting, Building
  <2>3. LastGoodVersionRuns
    <3>1. step \in {"idle", "call", "calling"} => Current = loaded
      BY DEF Current, Attempting
    <3>2. ASSUME NEW w \in Threads, thread[w] = "running", job[w].kind = "call"
          PROVE  job[w].program.read = good
      <4>1. job[w].program = Current /\ Current # Nothing
        BY <2>2, <3>2, ProgramFacts
      <4> QED
        BY <4>1 DEF VersionKept
    <3> QED
      BY <3>1, <3>2 DEF LastGoodVersionRuns, VersionKept
  <2>4. ConstantsLive
    <3> SUFFICES ASSUME NEW w \in Threads, thread[w] = "running", job[w].program.owner # None
                 PROVE  thread[job[w].program.owner] # "exited"
      BY DEF ConstantsLive
    <3>1. step = "calling"
      BY <2>2 DEF AttemptHolds
    <3>2. job[w].program = Current /\ Current # Nothing
      BY <2>2, <3>1, ProgramFacts
    <3> QED
      BY <3>2 DEF OwnerStays, WorkersHold
  <2>5. WritesNoticed
    <3> SUFFICES ASSUME Quiet, NEW f \in DOMAIN loaded.noted \cap DOMAIN read
                 PROVE  tried[f] = disk[f].time
      BY DEF WritesNoticed
    <3>1. Current = loaded /\ loaded \in Programs /\ step \notin Reading /\ ~raced /\ f \in Files
      BY DEF Quiet, Current, Attempting, Reading, HostType
    <3>2. disk[f].time = loaded.noted[f]
      BY DEF Quiet, Changed
    <3>3. loaded.noted[f] <= tried[f] /\ tried[f] <= disk[f].time
      BY <3>1, ProgramFacts DEF NotRaced, TimesGrow
    <3> QED
      BY <3>1, <3>2, <3>3, FileFacts
  <2> QED
    BY <2>1, <2>3, <2>4, <2>5 DEF HostHolds
<1> QED
  BY <1>1, InvAlways, PTL

\* A version that failed is not tried again until a file was written after the
\* attempt (godot/src/lib.rs l.204).
THEOREM NeverRetriedInVain == Spec => NotRetriedInVain
<1> DEFINE A == step = "look" /\ step' = "entry" => \E f \in Files : disk[f].time > restored[f]
<1>1. ASSUME Inv, [Next]_vars  PROVE A
  <2> SUFFICES ASSUME step = "look", step' = "entry"  PROVE \E f \in Files : disk[f].time > restored[f]
    OBVIOUS
  <2> USE <1>1 DEF Inv
  <2>1. Changed
    BY DEF Next, Object, User, Thread, Look, ReadEntry, ReadModule, Check, Restore, Refuse, CannotInit,
           SendInit, Initialised, Call, Returned, Load, Begin, Start, Edit, Drop, Take, Answer, Exit,
           vars, object, workers, AfterReload
  <2>2. PICK f \in DOMAIN loaded.noted : disk[f].time # loaded.noted[f]
    BY <2>1 DEF Changed
  <2>3. Current = loaded /\ loaded \in Programs /\ loaded # Nothing /\ f \in Files
    BY <2>1, <2>2, ProgramFacts DEF Changed, Current, Attempting, HostType
  <2>4. CASE restored = Never
    BY <2>3, <2>4, FileFacts DEF Never
  <2>5. CASE restored # Never
    <3>1. loaded.noted[f] = restored[f] /\ loaded.noted[f] <= disk[f].time
      BY <2>2, <2>3, <2>5 DEF RestoredHolds, TimesGrow
    <3> QED
      BY <2>2, <2>3, <3>1, FileFacts
  <2> QED
    BY <2>4, <2>5
<1> QED
  BY <1>1, InvAlways, PTL DEF Spec, NotRetriedInVain
=============================================================================
