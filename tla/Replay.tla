------------------------------- MODULE Replay -------------------------------
(***************************************************************************)
(* `kestrel run --record` and `kestrel replay` (runtime/src/replay/,       *)
(* replay_file.rs, cli/src/replay_cmd.rs, and the window of a replay in    *)
(* window/src/state.rs): a first run is recorded, its file is read back,   *)
(* and a second run is replayed against it.                                *)
(*                                                                         *)
(* A program calls natives, prints, asks for frames and ends, in any way.  *)
(* What the second run does is either free (another program, another       *)
(* compiler) or what a deterministic program does: as long as it is given  *)
(* the results of the first run, it does what the first run did.           *)
(* Bytes are members of a small set; a result is its native's and a value. *)
(***************************************************************************)
EXTENDS Integers, Sequences, SequencesExt, FiniteSets

CONSTANTS
    Natives,   \* natives with a result, other than window.frame
    Values,    \* their results
    Bytes,     \* what is printed
    Chunks,    \* what one write prints
    Messages,  \* of runtime failures
    DrawLine,  \* the line a headless window prints for a drawing call
    NL,        \* the line break
    MaxOps     \* bound: what a program does before it ends

ASSUME OpsAssumption == MaxOps \in Nat
ASSUME NativesAssumption == "window.frame" \notin Natives
ASSUME PrintAssumption == Chunks \subseteq Seq(Bytes) /\ DrawLine \in Seq(Bytes)

VARIABLES
    run,     \* record, replay or done
    same,    \* the second run is the same program's
    shown,   \* the recording prints headless lines (its window mode)
    script,  \* history: what the first run did, with the results it was given
    replayed,  \* history: the same of the second run
    file,    \* Recorder.file, and what the replay reads
    pending, \* Keep.pending or Check.pending
    frames,  \* Recorder.frames or Player.frames
    at,      \* Cursor.at
    next,    \* Check.next
    window,  \* open, asked to close, closed
    report

vars == <<run, same, shown, script, replayed, file, pending, frames, at, next,
          window, report>>
history == <<script, replayed>>

FrameId  == "window.frame"
NoReport == [verdict |-> "none"]
Differs  == [verdict |-> "differs"]
-----------------------------------------------------------------------------
(* The output log. *)

Line(text)    == [kind |-> "line", text |-> text]
Partial(text) == [kind |-> "partial", text |-> text]
Failure(m)    == [kind |-> "failure", text |-> <<m>>]
End           == [kind |-> "end", text |-> <<>>]

\* The lines that `bytes` completes, and what is left after the last break.
SplitOnce(left, bytes) == \* seeded fault
    FoldLeft(LAMBDA s, b : IF b = NL /\ s.lines = <<>>
                           THEN [lines |-> <<s.rest>>, rest |-> <<>>]
                           ELSE [s EXCEPT !.rest = Append(@, b)],
             [lines |-> <<>>, rest |-> left], bytes)

Split(left, bytes) ==
    LET after[n \in 0..Len(bytes)] ==
          IF n = 0 THEN [lines |-> <<>>, rest |-> left]
          ELSE LET s == after[n - 1]
               IN  IF bytes[n] = NL THEN [lines |-> Append(s.lines, s.rest), rest |-> <<>>]
                   ELSE [lines |-> s.lines, rest |-> Append(s.rest, bytes[n])]
    IN  after[Len(bytes)]

Entries(lines) == [i \in DOMAIN lines |-> Line(lines[i])]

\* The entries that end the log.
EndingEntries(left, ending) ==
    (IF left = <<>> THEN <<>> ELSE <<Partial(left)>>) \o ending

EntryAt(i) == IF i \in DOMAIN file.output THEN file.output[i] ELSE End

\* The recorded entries from the next one on are `got`.
Agrees(got) == \A i \in DOMAIN got : EntryAt(next + i - 1) = got[i]

\* What from_bytes takes as an output log.
Readable(output) ==
    \A i \in DOMAIN output :
        /\ output[i].kind = "partial" => i + 1 >= Len(output)
        /\ output[i].kind = "failure" => i = Len(output)
        /\ output[i].kind = "partial" /\ i + 1 = Len(output) =>
              output[i + 1].kind = "failure"
-----------------------------------------------------------------------------
Init ==
    /\ run = "record"
    /\ same \in BOOLEAN /\ shown \in BOOLEAN
    /\ script = <<>> /\ replayed = <<>>
    /\ file = [natives |-> <<>>, output |-> <<>>, frames |-> 0]
    /\ pending = <<>> /\ frames = 0 /\ at = 1 /\ next = 1
    /\ window = "open"
    /\ report = NoReport

Recording == run = "record"
Replaying == run = "replay"

Done == Len(replayed)

\* The operation is one that the run may do now.
Does(op) ==
    IF Recording THEN Len(script) < MaxOps
    ELSE IF Replaying /\ same /\ replayed = SubSeq(script, 1, Done)
         THEN Done < Len(script) /\ script[Done + 1].op = op
         ELSE Replaying /\ Done < MaxOps

Noted(op, result) ==
    LET e == [op |-> op, result |-> result] IN
    /\ script'   = IF Recording THEN Append(script, e) ELSE script
    /\ replayed' = IF Replaying THEN Append(replayed, e) ELSE replayed

\* A difference ends the replay at once.
Stop ==
    /\ run' = "done"
    /\ report' = Differs
    /\ UNCHANGED <<same, shown, history, file, pending, frames, at, next, window>>
-----------------------------------------------------------------------------
(* Natives with results. *)

Logged(id, result) == [file EXCEPT !.natives = Append(@, [id |-> id, result |-> result])]

\* Cursor::next: the next logged result is this native's.
NextAnyway(id) == at \in DOMAIN file.natives \* seeded fault
NextIs(id) == at \in DOMAIN file.natives /\ file.natives[at].id = id

Native(id) ==
    /\ Does(<<"native", id>>)
    /\ \E v \in Values :  \* what the machine gives now
         IF Recording THEN
            /\ file' = Logged(id, v)
            /\ Noted(<<"native", id>>, v)
            /\ UNCHANGED <<run, same, shown, pending, frames, at, next, window, report>>
         ELSE IF NextIs(id) THEN
            /\ at' = at + 1
            /\ Noted(<<"native", id>>, file.natives[at].result)
            /\ UNCHANGED <<run, same, shown, file, pending, frames, next, window, report>>
         ELSE Stop

\* A window starts another frame: a recorded one until its user closes it or
\* its frames run out, a replayed one as often as the recording did.
StartsOnItsOwn(now) == IF window # "open" THEN {FALSE} ELSE {now} \* seeded fault
Starts(now) ==
    IF window # "open" THEN {FALSE}
    ELSE IF Recording THEN {now} ELSE {frames < file.frames}

Frame ==
    /\ Does(<<"frame">>)
    /\ \E now \in BOOLEAN : \E started \in Starts(now) :
         IF Replaying /\ ~(NextIs(FrameId) /\ file.natives[at].result = started) THEN Stop
         ELSE /\ window' = IF started THEN window ELSE "closed"
              /\ frames' = IF started THEN frames + 1 ELSE frames
              /\ file' = IF Recording THEN Logged(FrameId, started) ELSE file
              /\ at' = IF Replaying THEN at + 1 ELSE at
              /\ Noted(<<"frame">>, started)
              /\ UNCHANGED <<run, same, shown, pending, next, report>>
-----------------------------------------------------------------------------
(* Output. *)

\* replay::print_bytes.
Printed(bytes) ==
    LET s == Split(pending, bytes) IN
    /\ pending' = s.rest
    /\ file' = IF Recording THEN [file EXCEPT !.output = @ \o Entries(s.lines)] ELSE file
    /\ next' = IF Replaying THEN next + Len(s.lines) ELSE next

\* The lines that these bytes complete are not the recorded ones.
Differing(bytes) == Replaying /\ ~Agrees(Entries(Split(pending, bytes).lines))

PrintCall(chunk) ==
    /\ Does(<<"print", chunk>>)
    /\ IF Differing(chunk) THEN Stop
       ELSE /\ Printed(chunk)
            /\ Noted(<<"print", chunk>>, "none")
            /\ UNCHANGED <<run, same, shown, frames, at, window, report>>

\* A call that draws: headless, it prints its line, and in a replay only if
\* the recording did.
Draw ==
    /\ Does(<<"draw">>)
    /\ window # "closed"
    /\ IF shown /\ Differing(DrawLine) THEN Stop
       ELSE /\ IF shown THEN Printed(DrawLine) ELSE UNCHANGED <<pending, file, next>>
            /\ Noted(<<"draw">>, "none")
            /\ UNCHANGED <<run, same, shown, frames, at, window, report>>

\* window.close asks; the next frame closes.
CloseWindow ==
    /\ Does(<<"close">>)
    /\ window' = IF window = "open" THEN "asked" ELSE window
    /\ Noted(<<"close">>, "none")
    /\ UNCHANGED <<run, same, shown, file, pending, frames, at, next, report>>
-----------------------------------------------------------------------------
(* The end of a run: `main` returned, or a runtime failure. *)

Endings == {<<>>} \cup {<<Failure(m)>> : m \in Messages}

\* Nothing of the native log is left over.
UsedUpAnyway == TRUE \* seeded fault
UsedUp == at = Len(file.natives) + 1

\* A replay that got as far as its end.
Matched(ending) ==
    /\ Agrees(EndingEntries(pending, ending) \o <<End>>)
    /\ UsedUp

\* finish for a recording.
FinishRecording(ending) ==
    /\ Recording
    /\ file' = [file EXCEPT !.output = @ \o EndingEntries(pending, ending),
                            !.frames = frames]
    /\ script' = Append(script, [op |-> <<"end", ending>>, result |-> "none"])
    /\ run' = "written"
    /\ UNCHANGED <<same, shown, replayed, pending, frames, at, next, window, report>>

\* The file is read again and a second run starts.
StartReplay ==
    /\ run = "written"
    /\ IF Readable(file.output)
       THEN run' = "replay" /\ report' = NoReport
       ELSE run' = "done" /\ report' = [verdict |-> "unreadable"]
    /\ pending' = <<>> /\ frames' = 0 /\ at' = 1 /\ next' = 1
    /\ window' = "open"
    /\ UNCHANGED <<same, shown, history, file>>

\* finish for a replay.
FinishReplay(ending) ==
    /\ Replaying
    /\ same /\ replayed = SubSeq(script, 1, Done) =>
          Done < Len(script) /\ script[Done + 1].op = <<"end", ending>>
    /\ replayed' = Append(replayed, [op |-> <<"end", ending>>, result |-> "none"])
    /\ run' = "done"
    /\ report' = IF Matched(ending)
                 THEN [verdict |-> "matches", frames |-> frames,
                       lines |-> next - 1 + (IF pending = <<>> THEN 0 ELSE 1)]
                 ELSE Differs
    /\ UNCHANGED <<same, shown, script, file, pending, frames, at, next, window>>

Over == run = "done" /\ UNCHANGED vars

Next ==
    \/ \E id \in Natives : Native(id)
    \/ \E chunk \in Chunks : PrintCall(chunk)
    \/ \E ending \in Endings : FinishRecording(ending) \/ FinishReplay(ending)
    \/ Frame \/ Draw \/ CloseWindow \/ StartReplay \/ Over

Spec == Init /\ [][Next]_vars
-----------------------------------------------------------------------------
(* What a run did that a recording is of. *)

IsResult(e) == e.op[1] \in {"native", "frame"}
Results(ops) ==
    LET upto[n \in 0..Len(ops)] ==
          IF n = 0 THEN <<>>
          ELSE IF IsResult(ops[n]) THEN Append(upto[n - 1], ops[n]) ELSE upto[n - 1]
    IN  upto[Len(ops)]

\* All it printed, however it was cut into writes.
Text(e, headless) == CASE e.op[1] = "print"            -> e.op[2]
                       [] e.op[1] = "draw" /\ headless -> DrawLine
                       [] OTHER                        -> <<>>
Output(ops, headless) ==
    LET upto[n \in 0..Len(ops)] ==
          IF n = 0 THEN <<>> ELSE upto[n - 1] \o Text(ops[n], headless)
    IN  upto[Len(ops)]

Ending(ops) == IF ops = <<>> \/ Last(ops).op[1] # "end" THEN <<"none">> ELSE Last(ops).op

CompleteLines(ops) == Split(<<>>, Output(ops, shown)).lines

\* Every variable has its type.
TypeOK ==
    /\ run \in {"record", "written", "replay", "done"}
    /\ same \in BOOLEAN /\ shown \in BOOLEAN
    /\ \A i \in DOMAIN file.natives : file.natives[i].id \in Natives \cup {FrameId}
    /\ \A i \in DOMAIN pending : pending[i] # NL
    /\ frames \in 0..MaxOps
    /\ at \in 1..(Len(file.natives) + 1) /\ next \in 1..(Len(file.output) + 1)
    /\ window \in {"open", "asked", "closed"}
    /\ report.verdict \in {"none", "matches", "differs", "unreadable"}

\* A deterministic program is replayed to its end: it is given, call by call,
\* the results that were recorded, and the replay matches, with as many frames
\* and lines.  Machine, window and headless lines may all be different.
SameProgramMatches ==
    same =>
        /\ IsPrefix(replayed, script)
        /\ run = "done" =>
             report = [verdict |-> "matches", frames |-> file.frames,
                       lines |-> Cardinality({i \in DOMAIN file.output : file.output[i].kind # "failure"})]

\* A replay that matches is one that called the same natives in order with the
\* same results, printed the same bytes, and ended the same way.
MatchMeansSame ==
    report.verdict = "matches" =>
        /\ Results(replayed) = Results(script)
        /\ Output(replayed, shown) = Output(script, shown)
        /\ Ending(replayed) = Ending(script)

\* A replay has stopped by the time it has called a native, or completed a
\* line, that the recording does not have there.
StopsAtTheDifference ==
    Replaying =>
        /\ IsPrefix(Results(replayed), Results(script))
        /\ IsPrefix(CompleteLines(replayed), CompleteLines(script))

\* A replay tells its recording from everything else: what matched was the
\* same, and what is not the same stops where it first differs.
ReplaysTellApart == TypeOK /\ MatchMeansSame /\ StopsAtTheDifference
=============================================================================
