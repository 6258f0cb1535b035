----------------------------- MODULE ParForInv -----------------------------
(***************************************************************************)
(* The inductive invariant behind the safety properties of ParFor.         *)
(***************************************************************************)
EXTENDS ParFor

\* A job whose tickets are not sent yet.
Fresh(j) ==
    /\ next[j] = 0 /\ ~failed[j] /\ failure[j] = NoFailure /\ ran[j] = {}
    /\ parts[j] = 0 /\ arenas[j] = {} /\ kept[j] = {} /\ result[j] = Pending

\* Where each job is in its caller's rounds, and what is left of a job that
\* is over: no ticket and no thread.
Lifecycle ==
    \A j \in Jobs :
        LET c == j[1] IN
        /\ j[2] > round[c] => Fresh(j)
        /\ j[2] < round[c] => result[j] # Pending
        /\ j = JobOf(c) =>
            /\ result[j] # Pending <=> pc[c] = "idle"
            /\ pc[c] \in {"reserve", "started", "send"} => Fresh(j)
            /\ pc[c] \in AtWorkStates => mine[c] = j
        /\ result[j] # Pending => TicketsOf(j) = {} /\ WorkingOn(j) = {}

\* The part of the invariant about who works on which job: it is inductive
\* on its own.
LInv == TypeInv /\ Lifecycle /\ ParticipantsCounted

\* Only the thread that holds the lock of a job is growing in its arena, and
\* what it read of the free place is still so.
GrowthInv ==
    /\ \A t \in Procs :
         pc[t] = "growing" => growth[mine[t]] = t /\ seen[t] = top[mine[t]]
    /\ \A j \in Jobs : \A p \in given[j] :
         p[2] < top[j] /\ \A q \in given[j] : p[2] = q[2] => p = q

Running(t) == pc[t] \in {"body", "growing"}

\* Chunks of one size that begin at s1 and s2 do not overlap.
Apart(s1, s2, size) == s1 + size <= s2 \/ s2 + size <= s1

\* A thread is inside a chunk that was handed out, nothing of what remains of
\* it has run, and it is not the chunk of the failure recorded.  The iteration
\* that grows a collection is not one that fails.
InChunk(t) ==
    LET j == mine[t] IN
    /\ start[t] <= at[t] /\ at[t] < ChunkEnd(t)
    /\ start[t] + Chunk(j) <= next[j]
    /\ \A i \in ran[j] : i \notin Remaining(t)
    /\ failed[j] => Apart(start[t], failure[j].start, Chunk(j))
    /\ pc[t] = "growing" => at[t] \notin bad[j]

\* Two threads of a job are in different chunks.
NoOverlap(t, u) ==
    mine[t] = mine[u] => Apart(start[t], start[u], Chunk(mine[t]))

ChunksTaken ==
    \A t \in Procs :
        Running(t) =>
            InChunk(t) /\ \A u \in Procs \ {t} : Running(u) => NoOverlap(t, u)

\* The failure recorded is of an iteration that fails, in its chunk.
FailureRecorded(j) ==
    LET f == failure[j] IN
    IF failed[j]
    THEN /\ f.index \in bad[j]
         /\ f.start <= f.index /\ f.index < f.start + Chunk(j)
         /\ f.start + Chunk(j) <= next[j]
    ELSE f = NoFailure

\* An iteration handed out has run, is about to run in some thread's chunk,
\* or is not below the failure recorded.
Covered(i, j) ==
    \/ i \in ran[j]
    \/ \E t \in WorkingOn(j) : i \in Remaining(t)
    \/ failed[j] /\ failure[j].index <= i

ChunksCovered ==
    \A j \in Jobs :
        result[j] = Pending =>
            /\ bad[j] \subseteq 0..(count[j] - 1)
            /\ \A i \in ran[j] : i < next[j] /\ i < count[j] /\ i \notin bad[j]
            /\ \A i \in 0..(count[j] - 1) : i < next[j] => Covered(i, j)
            /\ FailureRecorded(j)

\* A participant stops only when an iteration failed or none is left.
NothingLeft ==
    /\ \A t \in Procs :
         /\ pc[t] = "leave" =>
              failed[mine[t]] \/ next[mine[t]] >= count[mine[t]]
         /\ pc[t] \in {"uncount", "report"} => failed[mine[t]]
    /\ \A c \in Callers :
         /\ pc[c] \in {"wait", "asleep"} =>
              failed[JobOf(c)] \/ next[JobOf(c)] >= count[JobOf(c)]
         /\ pc[c] \in {"waitLast", "asleepLast"} => failed[JobOf(c)]

\* What the iterations that ran allocated is in an arena handed over or in
\* that of a thread at work, unless an iteration failed.
ContentsKept ==
    /\ \A j \in Jobs :
         result[j] = Pending =>
             /\ UNION arenas[j] \subseteq ran[j]
             /\ \A t \in WorkingOn(j) : made[t] \subseteq ran[j]
             /\ ~failed[j] => \A i \in ran[j] :
                  i \in UNION arenas[j] \/ \E t \in WorkingOn(j) : i \in made[t]
    /\ \A t \in Procs : mine[t] = NoJob => made[t] = {}

\* What a loop that is over has done and returned.
LoopsOver == LowestFailureWins /\ EarlierIterationsRan /\ AllocationsKept

\* The invariant that every step keeps.  Lifecycle and ParticipantsCounted
\* say that nobody is left when state.0 is 0 (or 1, the failing caller);
\* ChunksCovered then says that an iteration below the failure recorded has
\* run, so it did not fail, and NothingLeft that without a failure all ran.
IInv ==
    /\ LInv /\ GrowthInv
    /\ ChunksTaken /\ ChunksCovered /\ NothingLeft /\ ContentsKept
    /\ LoopsOver
=============================================================================
