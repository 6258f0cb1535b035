-------------------------------- MODULE Lsp --------------------------------
(***************************************************************************)
(* The language server (lsp/src: server.rs, work.rs, docs.rs, shift.rs,    *)
(* diagnostics.rs).  An editor opens, changes, saves and closes two files, *)
(* a program and the library it uses, and its messages queue.  Edits only  *)
(* mark documents; they are analysed when no message waits, or before a    *)
(* request.  Lowering (contracts and cost lens) runs after an open or a    *)
(* save, and what it found follows the edits in between line by line.      *)
(*                                                                         *)
(* A text is its lines, and of a line only what the compiler finds in it:  *)
(*   "call"    needs the library's "def"                                   *)
(*   "error"   does not check      "garble"  does not parse                *)
(*   "boom"    checking panics     "trap"    lowering panics               *)
(*   "assume"  lowering warns      "cost"    the cost lens has an item     *)
(* Settings other than how the lens shows, URLs and messages are left out. *)
(***************************************************************************)
EXTENDS Integers, FiniteSets, SequencesExt

CONSTANTS
    AppTexts,   \* what the program may hold
    LibTexts,   \* what the library may hold
    Shows,      \* how the cost lens may show: "off", "hints", "diagnostics"
    Disks,      \* what the files may hold at first
    MaxEvents,  \* bound: what the editor does
    MaxQueue    \* bound: messages that wait at once

Kinds == {"plain", "call", "def", "error", "garble", "boom", "trap", "assume", "cost"}
Files == {"app", "lib"}
Texts(f) == IF f = "app" THEN AppTexts ELSE LibTexts

ASSUME TextsAssumption ==
    /\ AppTexts \cup LibTexts \subseteq Seq(Kinds) \ {<<>>}
    /\ \A text \in LibTexts : "call" \notin Range(text)
    /\ \A d \in Disks : DOMAIN d = Files /\ \A f \in Files : d[f] \in Texts(f)
ASSUME ShowsAssumption == Shows \subseteq {"off", "hints", "diagnostics"}
ASSUME BoundsAssumption == MaxEvents \in Nat /\ MaxQueue \in Nat

VARIABLES
    disk,     \* the files
    view,     \* the editor's text of each file it has open
    screen,   \* the diagnostics it shows for each file
    events,
    queue,    \* messages sent and not received
    docs,     \* Server.docs: each open document
    checked,  \* Server.checked: what each document's program found, by file
    lowered,  \* Server.lowered: the same of lowering
    show,     \* Server.config
    owed,     \* history: documents to lower since an open, a save or a setting
    parsed    \* history: each document's last text that had tables

editor  == <<disk, view, events>>
server  == <<docs, checked, lowered, show, screen>>
history == <<owed, parsed>>
vars    == <<editor, queue, server, history>>

Nothing == <<>>
Open == {f \in Files : docs[f] # Nothing}

Init ==
    /\ disk \in Disks
    /\ view = [f \in Files |-> Nothing]
    /\ screen = [f \in Files |-> {}]
    /\ events = 0 /\ queue = <<>>
    /\ docs = [f \in Files |-> Nothing]
    /\ checked = <<>> /\ lowered = <<>>
    /\ show \in Shows
    /\ owed = {} /\ parsed = [f \in Files |-> Nothing]
-----------------------------------------------------------------------------
(* The editor. *)

Tell(message) ==
    /\ events < MaxEvents /\ Len(queue) < MaxQueue
    /\ events' = events + 1
    /\ queue' = Append(queue, message)
    /\ UNCHANGED <<server, history>>

\* The text need not be the file's: editors restore what was not saved.
OpenFile(f, text) ==
    /\ view[f] = Nothing
    /\ view' = [view EXCEPT ![f] = text]
    /\ Tell([kind |-> "open", file |-> f, text |-> text])
    /\ UNCHANGED disk

ChangeText(f, text) ==
    /\ view[f] \notin {Nothing, text}
    /\ view' = [view EXCEPT ![f] = text]
    /\ Tell([kind |-> "change", file |-> f, text |-> text])
    /\ UNCHANGED disk

SaveFile(f) ==
    /\ view[f] # Nothing
    /\ disk' = [disk EXCEPT ![f] = view[f]]
    /\ Tell([kind |-> "save"])
    /\ UNCHANGED view

CloseFile(f) ==
    /\ view[f] # Nothing
    /\ view' = [view EXCEPT ![f] = Nothing]
    /\ Tell([kind |-> "close", file |-> f])
    /\ UNCHANGED disk

ChangeSettings(s) == Tell([kind |-> "configure", show |-> s]) /\ UNCHANGED <<disk, view>>

Ask == Tell([kind |-> "request"]) /\ UNCHANGED <<disk, view>>

Editor ==
    \/ \E f \in Files : SaveFile(f) \/ CloseFile(f)
    \/ \E f \in Files : \E text \in Texts(f) : OpenFile(f, text) \/ ChangeText(f, text)
    \/ \E s \in Shows : ChangeSettings(s)
    \/ Ask
-----------------------------------------------------------------------------
(* The compiler, on the text of the open documents and the other files.    *)

Text(f) == IF docs[f] # Nothing THEN docs[f].text ELSE disk[f]

Program(f)  == IF "call" \in Range(Text(f)) THEN {f, "lib"} ELSE {f}
ProgramHas(f, what) == \E g \in Program(f) : what \in Range(Text(g))

\* The lines of file g that hold one of these.
Lines(g, kinds) ==
    {[line |-> i, what |-> Text(g)[i]] : i \in {j \in DOMAIN Text(g) : Text(g)[j] \in kinds}}

Lowers(f) == ~ProgramHas(f, "trap")

\* What checking the program of f says of file g; nothing is checked until
\* all of it parses.
Errors(f, g) ==
    IF ProgramHas(f, "garble") THEN Lines(g, {"garble"})
    ELSE Lines(g, {"error"} \cup IF ProgramHas(f, "def") THEN {} ELSE {"call"})

Tables(f)  == ~ProgramHas(f, "garble")
Crashes(f) == Tables(f) /\ ProgramHas(f, "boom")
Clean(f)   == \A g \in Program(f) : Errors(f, g) = {}

\* What was said of each file, by file.
Found(f, said) == [g \in {h \in Program(f) : said[h] # {}} |-> said[g]]

\* An internal compiler error, at the top of the document.
Ice(f) == [g \in {f} |-> {[line |-> 1, what |-> "ice"]}]

CheckFound(f) == IF Crashes(f) THEN Ice(f) ELSE Found(f, [g \in Files |-> Errors(f, g)])

Lens(f) == IF show # "off" /\ Lowers(f) THEN Lines(f, {"cost"}) ELSE {}

LowerFound(f) ==
    LET said == [g \in Files |->
            Lines(g, {"assume"}) \cup IF show = "diagnostics" /\ g = f THEN Lens(f) ELSE {}]
    IN  IF Lowers(f) THEN Found(f, said) ELSE Ice(f)
-----------------------------------------------------------------------------
(* flush: the documents marked are analysed and the files they are about   *)
(* shown.                                                                  *)

Dirty    == {f \in Open : docs[f].dirty}
ToCheck  == {f \in Dirty : ~Crashes(f)}
ToLower  == {f \in ToCheck : docs[f].lower /\ Clean(f)}
\* What lowering found no longer holds.
ToForget == {f \in Dirty : Crashes(f) \/ ~Clean(f)}

\* The analysis to fall back to once `old` is replaced by one without tables.
LatestKept(doc) == \* seeded fault
    doc.analysis
LastGood(doc) ==
    IF doc.analysis # Nothing /\ doc.analysis.tables THEN doc.analysis ELSE doc.good

StillOwed(f) == FALSE \* seeded fault
LowerLater(f) == docs[f].lower /\ ~Clean(f)

LensAfter(f) ==
    IF f \in ToForget THEN {} ELSE IF f \in ToLower THEN Lens(f) ELSE docs[f].lens

Checked(f) ==
    [docs[f] EXCEPT
        !.dirty    = FALSE,
        !.lower    = LowerLater(f),
        !.analysis = [text |-> docs[f].text, tables |-> Tables(f)],
        !.good     = IF Tables(f) THEN Nothing ELSE LastGood(docs[f]),
        !.lens     = LensAfter(f)]

CrashedAgain(f) == \* seeded fault
    [docs[f] EXCEPT !.lower = FALSE, !.analysis = Nothing, !.good = LastGood(docs[f]), !.lens = {}]
Crashed(f) ==
    [docs[f] EXCEPT
        !.dirty = FALSE, !.lower = FALSE, !.analysis = Nothing,
        !.good  = LastGood(docs[f]), !.lens = {}]

Flushed == [f \in Files |->
    IF f \in ToCheck THEN Checked(f) ELSE IF f \in Dirty THEN Crashed(f) ELSE docs[f]]
FlushedChecked == [f \in DOMAIN checked \cup Dirty |->
    IF f \in Dirty THEN CheckFound(f) ELSE checked[f]]
FlushedLowered == [f \in (DOMAIN lowered \ ToForget) \cup ToLower |->
    IF f \in ToLower THEN LowerFound(f) ELSE lowered[f]]

FilesOf(found, f) == IF f \in DOMAIN found THEN DOMAIN found[f] ELSE {}

\* Everything that the open documents' programs found in file g.
Merged(c, l, g) ==
    UNION ({c[f][g] : f \in {e \in DOMAIN c : g \in DOMAIN c[e]}}
             \cup {l[f][g] : f \in {e \in DOMAIN l : g \in DOMAIN l[e]}})

Publish(files) == screen' = [g \in Files |->
    IF g \in files THEN Merged(checked', lowered', g) ELSE screen[g]]

FilesFoundNow == \* seeded fault
    Dirty \cup UNION {FilesOf(checked', f) \cup FilesOf(lowered', f) : f \in Dirty}
\* The files that had findings and those that have some now.
FilesFound ==
    Dirty \cup UNION {FilesOf(checked, f) \cup FilesOf(lowered, f)
                        \cup FilesOf(checked', f) \cup FilesOf(lowered', f) : f \in Dirty}

Flush ==
    /\ docs' = Flushed
    /\ checked' = FlushedChecked
    /\ lowered' = FlushedLowered
    /\ Publish(FilesFound)
    /\ owed' = owed \ (ToLower \cup (Dirty \ ToCheck))
    /\ parsed' = [f \in Files |->
         IF f \in ToCheck /\ Tables(f) THEN docs[f].text ELSE parsed[f]]
    /\ UNCHANGED show
-----------------------------------------------------------------------------
(* LineShift: where a line of the old text is in the new one, if anywhere. *)

SamePrefix(a, b) ==
    Max({n \in 0..Min({Len(a), Len(b)}) : \A i \in 1..n : a[i] = b[i]})
SameSuffix(a, b) ==
    LET max == Min({Len(a), Len(b)}) - SamePrefix(a, b)
    IN  Min({max, SamePrefix(Reverse(a), Reverse(b))})

Kept(a, b, i) == i <= SamePrefix(a, b) \/ i > Len(a) - SameSuffix(a, b)

NotMoved(a, b, i) == i \* seeded fault
MovedLine(a, b, i) == IF i <= SamePrefix(a, b) THEN i ELSE i + Len(b) - Len(a)

Moved(a, b, findings) ==
    {[d EXCEPT !.line = MovedLine(a, b, d.line)] : d \in {e \in findings : Kept(a, b, e.line)}}
-----------------------------------------------------------------------------
(* The handlers of the editor's notifications. *)

\* touch_all: every open document is analysed again, with `lower` lowered too.
Touched(documents, lower) == [f \in Files |->
    IF documents[f] = Nothing THEN Nothing
    ELSE [documents[f] EXCEPT !.dirty = TRUE, !.lower = @ \/ lower]]

Opened(f, text) ==
    /\ docs' = Touched([docs EXCEPT ![f] =
                  [text |-> text, dirty |-> TRUE, lower |-> TRUE,
                   analysis |-> Nothing, good |-> Nothing, lens |-> {}]], FALSE)
    /\ owed' = owed \cup {f}
    /\ UNCHANGED <<checked, lowered, show, screen, parsed>>

Changed(f, text) ==
    LET Follow(found) == Moved(docs[f].text, text, found) IN
    /\ docs' = Touched([docs EXCEPT ![f].text = text, ![f].lens = Follow(@)], FALSE)
    /\ lowered' = [e \in DOMAIN lowered |-> [g \in DOMAIN lowered[e] |->
                      IF g = f THEN Follow(lowered[e][g]) ELSE lowered[e][g]]]
    /\ UNCHANGED <<checked, show, screen, history>>

Saved ==
    /\ docs' = Touched(docs, TRUE)
    /\ owed' = Open
    /\ UNCHANGED <<checked, lowered, show, screen, parsed>>

FindingsStay(found, f) == found \* seeded fault
Without(found, f) == [e \in DOMAIN found \ {f} |-> found[e]]

Closed(f) ==
    /\ docs' = Touched([docs EXCEPT ![f] = Nothing], FALSE)
    /\ checked' = Without(checked, f) /\ lowered' = Without(lowered, f)
    /\ Publish({f} \cup FilesOf(checked, f) \cup FilesOf(lowered, f))
    /\ owed' = owed \ {f}
    /\ parsed' = [parsed EXCEPT ![f] = Nothing]
    /\ UNCHANGED show

Configured(s) ==
    /\ show' = s
    /\ docs' = Touched(docs, TRUE)
    /\ owed' = Open
    /\ UNCHANGED <<checked, lowered, screen, parsed>>

\* A request is answered from the latest text.
Answered == Flush

Handle(m) ==
    \/ m.kind = "open" /\ Opened(m.file, m.text)
    \/ m.kind = "change" /\ Changed(m.file, m.text)
    \/ m.kind = "save" /\ Saved
    \/ m.kind = "close" /\ Closed(m.file)
    \/ m.kind = "configure" /\ Configured(m.show)
    \/ m.kind = "request" /\ Answered

Receive ==
    /\ queue # <<>>
    /\ queue' = Tail(queue)
    /\ Handle(Head(queue))
    /\ UNCHANGED editor

\* No message waits.
Rest ==
    /\ queue = <<>> /\ Dirty # {}
    /\ Flush
    /\ UNCHANGED <<editor, queue>>
-----------------------------------------------------------------------------
Next == Editor \/ Receive \/ Rest

Spec == Init /\ [][Next]_vars

\* The server's loop runs on; nothing is asked of the editor.
FairSpec == Spec /\ WF_vars(Receive \/ Rest)
-----------------------------------------------------------------------------
Findings == [line : Nat \ {0}, what : Kinds \cup {"ice"}]
Analyses == [text : AppTexts \cup LibTexts, tables : BOOLEAN]

\* Every variable has its type; findings are kept of open documents only, and
\* of each one that is not to be analysed again.
TypeOK ==
    /\ events \in 0..MaxEvents /\ Len(queue) <= MaxQueue
    /\ show \in Shows
    /\ \A f \in Files :
         /\ disk[f] \in Texts(f) /\ view[f] \in Texts(f) \cup {Nothing}
         /\ parsed[f] \in Texts(f) \cup {Nothing}
         /\ screen[f] \subseteq Findings
    /\ owed \subseteq Open
    /\ \A f \in Open :
         /\ docs[f].text \in Texts(f) /\ docs[f].lens \subseteq Findings
         /\ {docs[f].analysis, docs[f].good} \subseteq Analyses \cup {Nothing}
    /\ Open \ Dirty \subseteq DOMAIN checked
    /\ DOMAIN checked \cup DOMAIN lowered \subseteq Open

AtRest == queue = <<>> /\ Dirty = {}

\* When the server rests, the editor shows of each file what the programs of
\* the open documents have in it as they are now, no less and no more, and
\* what lowering found.
ScreenUpToDate ==
    AtRest =>
        /\ \A f \in Open : checked[f] = CheckFound(f)
        /\ \A g \in Files : screen[g] = Merged(checked, lowered, g)

\* shift.rs l.1: what lowering found of a document itself stays on its line
\* through every edit.
FindingsFollow ==
    \A f \in Open :
        /\ \A d \in docs[f].lens : d.line <= Len(docs[f].text) /\ docs[f].text[d.line] = d.what
        /\ f \in DOMAIN lowered /\ f \in DOMAIN lowered[f] =>
             \A d \in lowered[f][f] :
                 d.what # "ice" =>
                     d.line <= Len(docs[f].text) /\ docs[f].text[d.line] = d.what

\* work.rs l.34: a document opened or saved with errors is lowered once they
\* are fixed, however many edits, failures and requests come in between.
SavedIsLowered ==
    AtRest => \A f \in owed : ~Clean(f) /\ docs[f].lower

\* docs.rs l.18: hover and definition have the last analysis with tables to
\* answer from, through texts that do not parse and checks that panic.
HoverAnswers ==
    \A f \in Open \ Dirty :
        LET used == LastGood(docs[f])
        IN  IF parsed[f] = Nothing THEN used = Nothing
            ELSE used # Nothing /\ used.tables /\ used.text = parsed[f]

\* A document marked is analysed, and one whose check panics not for ever.
MarkedIsAnalysed == (Dirty # {}) ~> (Dirty = {})

\* What the editor is shown and told is of the texts as they are: at rest on
\* the screen, through every edit on its line, and in every answer.
EditorIsShownWhatHolds ==
    TypeOK /\ ScreenUpToDate /\ FindingsFollow /\ SavedIsLowered /\ HoverAnswers
=============================================================================
