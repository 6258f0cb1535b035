------------------------------- MODULE ParFor -------------------------------
(***************************************************************************)
(* `par for` of the Kestrel runtime (runtime/src/par.rs): a loop of count  *)
(* iterations is cut into chunks that the calling thread and some pool     *)
(* threads take from an atomic counter.  One action is one atomic access   *)
(* to what the threads share (the counter, the failed flag, a mutex held   *)
(* once, the ticket channel), so every interleaving of those accesses is a *)
(* behaviour.                                                              *)
(*                                                                         *)
(* A caller runs Rounds loops one after the other.  A loop that fails ends *)
(* the program; the caller's next round stands for what runs in the same   *)
(* process afterwards: the host's next worker thread in the Godot add-on,  *)
(* the next call in a test.  The pool is one static per process.           *)
(*                                                                         *)
(* What an iteration does is fixed by its index: some fail (chosen when    *)
(* the loop begins), some grow a collection in an arena the threads share  *)
(* (Grows), and each leaves something in the thread's arena.  A nested     *)
(* `par for` runs inline and is part of its iteration (l.194-200).         *)
(***************************************************************************)
EXTENDS Integers, Sequences, FiniteSets

CONSTANTS
    Callers,         \* program threads that run a `par for`
    Workers,         \* the pool threads the system is able to start
    Threads,         \* KESTREL_THREADS, or one per logical core
    Counts,          \* the iteration counts a loop may have
    ChunksPerThread, \* 8 in the code (l.208); smaller in the runs, so that a
                     \* short loop already has chunks of several iterations
    Grows,           \* iterations that grow a collection of a shared arena
    MaxUsize,        \* the largest usize: Pool.live wraps
    Rounds,          \* bound: loops each caller runs
    MaxIterations,   \* bound: iterations of two loops one after the other
    MaxBad           \* bound: failing iterations of one loop

ASSUME CallersAssumption == IsFiniteSet(Callers)
ASSUME WorkersAssumption == IsFiniteSet(Workers) /\ Callers \cap Workers = {}
ASSUME ThreadsAssumption == Threads \in Nat \ {0}
ASSUME CountsAssumption  == Counts \subseteq Nat
ASSUME ChunksAssumption  == ChunksPerThread \in Nat \ {0}
ASSUME GrowsAssumption   == Grows \subseteq Nat
ASSUME UsizeAssumption   == MaxUsize \in Nat \ {0}
ASSUME BoundsAssumption  == Rounds \in Nat /\ MaxIterations \in Nat /\ MaxBad \in Nat

VARIABLES
    pc,       \* what each thread does next
    round,    \* how many loops each caller has begun
    mine,     \* the job each thread works on (CURRENT)
    start,    \* the start of the chunk each thread is running
    at,       \* the iteration each thread is at
    made,     \* iterations whose allocations are in the thread's new arena
    seen,     \* the free place of the shared arena a growing thread read
    count,    \* Job.count
    bad,      \* the iterations of the job that fail
    helpers,  \* what reserve returned for the job
    next,     \* Job.next
    failed,   \* Job.failed
    failure,  \* Job.failure: chunk start and message (the failing iteration)
    growth,   \* who holds Job.growth
    parts,    \* Job.state.0: participants still working
    arenas,   \* Job.state.1: the contents of the arenas handed over
    top,      \* the next free place of the shared arena
    given,    \* <<iteration, place>> the shared arena handed out
    ran,      \* the iterations that ran to their end
    kept,     \* iterations whose allocations the caller's arena adopted
    result,   \* what run_job returned
    tickets,  \* Pool.tickets / Pool.receiver: the channel
    live,     \* Pool.live
    spawning  \* who holds Pool.spawning

thread == <<mine, start, at, made, seen>>
input  == <<count, bad, helpers>>
shared == <<next, failed, failure, growth, parts, arenas, top, given, ran>>
pool   == <<tickets, live, spawning>>
vars   == <<pc, round, thread, input, shared, kept, result, pool>>

Procs == Callers \cup Workers
Jobs  == Callers \X (1..Rounds)
NoJob == <<>>
None  == "none"

ASSUME NoneAssumption == None \notin Procs

NoFailure == [start |-> -1, index |-> -1]
Pending   == -2
Succeeded == -1

Least(a, b) == IF a <= b THEN a ELSE b

\* l.202: how many helpers a loop of n iterations asks for.
Wanted(n) == Least(Threads, n) - 1

\* l.208: the chunk size of a loop of n iterations on so many threads.
ChunkSize(n, threads) ==
    LET size == n \div (threads * ChunksPerThread)
    IN  IF size > 1 THEN size ELSE 1

Chunk(j) == ChunkSize(count[j], helpers[j] + 1)

ChunkEndInclusive(t) == Least(start[t] + Chunk(mine[t]) + 1, count[mine[t]]) \* seeded fault
ChunkEnd(t) == Least(start[t] + Chunk(mine[t]), count[mine[t]])

\* l.214: who takes part in the job; l.220: everyone is done; l.285: everyone
\* but a failing caller; l.74: when a participant that ends wakes the owner.
Participants(j) == helpers[j] + 1
AllButOneDone(j) == parts[j] <= 1 \* seeded fault
EveryoneDone(j) == parts[j] = 0
OthersDone(j) == parts[j] <= 1
WakesAtZero(left) == left = 0 \* seeded fault
WakesOwner(left) == left <= 1

JobOf(c) == <<c, round[c]>>

Init ==
    /\ pc = [t \in Procs |-> IF t \in Callers THEN "idle" ELSE "unborn"]
    /\ round = [c \in Callers |-> 0]
    /\ mine = [t \in Procs |-> NoJob]
    /\ start = [t \in Procs |-> 0]
    /\ at = [t \in Procs |-> 0]
    /\ made = [t \in Procs |-> {}]
    /\ seen = [t \in Procs |-> 0]
    /\ count = [j \in Jobs |-> 0]
    /\ bad = [j \in Jobs |-> {}]
    /\ helpers = [j \in Jobs |-> 0]
    /\ next = [j \in Jobs |-> 0]
    /\ failed = [j \in Jobs |-> FALSE]
    /\ failure = [j \in Jobs |-> NoFailure]
    /\ growth = [j \in Jobs |-> None]
    /\ parts = [j \in Jobs |-> 0]
    /\ arenas = [j \in Jobs |-> {}]
    /\ top = [j \in Jobs |-> 0]
    /\ given = [j \in Jobs |-> {}]
    /\ ran = [j \in Jobs |-> {}]
    /\ kept = [j \in Jobs |-> {}]
    /\ result = [j \in Jobs |-> Pending]
    /\ tickets = <<>>
    /\ live = 0
    /\ spawning = None
-----------------------------------------------------------------------------
(* The calling thread before the loop. *)

\* What a plain `for` over 0..n-1 returns when the iterations in B fail.
InOrder(n, B) == IF B = {} THEN Succeeded
                 ELSE CHOOSE i \in B : \A k \in B : i <= k

\* run_job with nothing to split (l.195): the body runs here, in order.
RunInline(c, n, B) ==
    /\ pc[c] = "idle" /\ round[c] < Rounds
    /\ n <= 1 \/ Threads <= 1
    /\ LET j == <<c, round[c] + 1>> IN
        /\ round' = [round EXCEPT ![c] = @ + 1]
        /\ count' = [count EXCEPT ![j] = n]
        /\ bad' = [bad EXCEPT ![j] = B]
        /\ result' = [result EXCEPT ![j] = InOrder(n, B)]
        /\ ran' = [ran EXCEPT ![j] = {i \in 0..(n - 1) : \A k \in B : i < k}]
        /\ kept' = [kept EXCEPT ![j] = ran'[j]]
    /\ UNCHANGED <<pc, thread, helpers, next, failed, failure, growth, parts,
                   arenas, top, given, pool>>

\* run_job up to the lock of `spawning` at the start of Pool::reserve.
Reserve(c, n, B) ==
    /\ pc[c] = "idle" /\ round[c] < Rounds
    /\ n > 1 /\ Threads > 1
    /\ spawning = None
    /\ LET j == <<c, round[c] + 1>> IN
        /\ round' = [round EXCEPT ![c] = @ + 1]
        /\ count' = [count EXCEPT ![j] = n]
        /\ bad' = [bad EXCEPT ![j] = B]
    /\ spawning' = c
    /\ pc' = [pc EXCEPT ![c] = "reserve"]
    /\ UNCHANGED <<thread, helpers, shared, kept, result, tickets, live>>

\* The loop of reserve: too few live threads, and one more starts.
StartThread(c) ==
    /\ pc[c] = "reserve"
    /\ live < Wanted(count[JobOf(c)])
    /\ \E w \in Workers :
        /\ pc[w] = "unborn"
        /\ pc' = [pc EXCEPT ![w] = "recv", ![c] = "started"]
    /\ UNCHANGED <<round, thread, input, shared, kept, result, pool>>

CountThread(c) ==
    /\ pc[c] = "started"
    /\ live' = IF live = MaxUsize THEN 0 ELSE live + 1
    /\ pc' = [pc EXCEPT ![c] = "reserve"]
    /\ UNCHANGED <<round, thread, input, shared, kept, result, tickets,
                   spawning>>

\* l.118: how many helpers the job can count on.
Granted(j) == Least(Wanted(count[j]), live)

\* reserve returns: enough threads are live, or the system starts no more.
Reserved(c) ==
    /\ pc[c] = "reserve"
    /\ LET j == JobOf(c) IN
         helpers' = [helpers EXCEPT ![j] = Granted(j)]
    /\ spawning' = None
    /\ pc' = [pc EXCEPT ![c] = "send"]
    /\ UNCHANGED <<round, thread, count, bad, shared, kept, result, tickets,
                   live>>

\* The Job is made, its tickets are sent, and the caller starts to
\* participate (the start of participate touches nothing shared).
Send(c) ==
    /\ pc[c] = "send"
    /\ LET j == JobOf(c) IN
        /\ parts' = [parts EXCEPT ![j] = Participants(j)]
        /\ tickets' = tickets \o [k \in 1..helpers[j] |-> j]
        /\ mine' = [mine EXCEPT ![c] = j]
    /\ pc' = [pc EXCEPT ![c] = "loop"]
    /\ UNCHANGED <<round, start, at, made, seen, input, next, failed, failure,
                   growth, arenas, top, given, ran, kept, result, live,
                   spawning>>
-----------------------------------------------------------------------------
(* serve and participate. *)

\* A pool thread takes a ticket and joins its job.
TakeTicket(w) ==
    /\ pc[w] = "recv"
    /\ tickets # <<>>
    /\ tickets' = Tail(tickets)
    /\ mine' = [mine EXCEPT ![w] = Head(tickets)]
    /\ pc' = [pc EXCEPT ![w] = "loop"]
    /\ UNCHANGED <<round, start, at, made, seen, input, shared, kept, result,
                   live, spawning>>

\* l.168: the loop goes on only while no iteration failed.
CheckFailed(t) ==
    /\ pc[t] = "loop"
    /\ pc' = [pc EXCEPT ![t] = IF failed[mine[t]] THEN "leave" ELSE "take"]
    /\ UNCHANGED <<round, thread, input, shared, kept, result, pool>>

\* l.169-172: fetch_add hands out the next chunk, or shows there is none.
TakeChunk(t) ==
    /\ pc[t] = "take"
    /\ LET j == mine[t] IN
        /\ next' = [next EXCEPT ![j] = @ + Chunk(j)]
        /\ IF next[j] >= count[j]
           THEN /\ pc' = [pc EXCEPT ![t] = "leave"]
                /\ UNCHANGED <<start, at>>
           ELSE /\ pc' = [pc EXCEPT ![t] = "body"]
                /\ start' = [start EXCEPT ![t] = next[j]]
                /\ at' = [at EXCEPT ![t] = next[j]]
    /\ UNCHANGED <<round, mine, made, seen, input, failed, failure, growth,
                   parts, arenas, top, given, ran, kept, result, pool>>

\* An iteration ends: the thread goes on to the next one of its chunk.
StopAtFailure(t) == \* seeded fault
    /\ ran' = [ran EXCEPT ![mine[t]] = @ \cup {at[t]}]
    /\ made' = [made EXCEPT ![t] = @ \cup {at[t]}]
    /\ at' = [at EXCEPT ![t] = @ + 1]
    /\ pc' = [pc EXCEPT ![t] =
                IF at[t] + 1 < ChunkEnd(t) /\ ~failed[mine[t]] THEN "body" ELSE "loop"]

EndIteration(t) ==
    /\ ran' = [ran EXCEPT ![mine[t]] = @ \cup {at[t]}]
    /\ made' = [made EXCEPT ![t] = @ \cup {at[t]}]
    /\ at' = [at EXCEPT ![t] = @ + 1]
    /\ pc' = [pc EXCEPT ![t] = IF at[t] + 1 < ChunkEnd(t) THEN "body" ELSE "loop"]

Iterate(t) ==
    /\ pc[t] = "body"
    /\ at[t] \notin bad[mine[t]] \cup Grows
    /\ EndIteration(t)
    /\ UNCHANGED <<round, mine, start, seen, input, next, failed, failure,
                   growth, parts, arenas, top, given, kept, result, pool>>

NeverLocked(j) == TRUE \* seeded fault
Unlocked(j) == growth[j] = None

\* shared_growth: the arena is not the thread's own, so the job's lock is
\* taken first; the bump allocator then reads its free place.
LockGrowth(t) ==
    /\ pc[t] = "body"
    /\ at[t] \in Grows \ bad[mine[t]]
    /\ Unlocked(mine[t])
    /\ growth' = [growth EXCEPT ![mine[t]] = t]
    /\ seen' = [seen EXCEPT ![t] = top[mine[t]]]
    /\ pc' = [pc EXCEPT ![t] = "growing"]
    /\ UNCHANGED <<round, mine, start, at, made, input, next, failed, failure,
                   parts, arenas, top, given, ran, kept, result, pool>>

\* The allocator moves its free place on, and the lock is dropped.
Grow(t) ==
    /\ pc[t] = "growing"
    /\ LET j == mine[t] IN
        /\ top' = [top EXCEPT ![j] = seen[t] + 1]
        /\ given' = [given EXCEPT ![j] = @ \cup {<<at[t], seen[t]>>}]
        /\ growth' = [growth EXCEPT ![j] = None]
    /\ seen' = [seen EXCEPT ![t] = 0]
    /\ EndIteration(t)
    /\ UNCHANGED <<round, mine, start, input, next, failed, failure, parts,
                   arenas, kept, result, pool>>
-----------------------------------------------------------------------------
(* Job::finish, and the ways a participant gets there. *)

\* state.0 goes down by one; at 1 or 0 the owner is woken if it sleeps on
\* this job's condition variable.  t itself goes on at `after`.
Finish(t, after, handed) ==
    LET j == mine[t] IN
    /\ parts' = [parts EXCEPT ![j] = @ - 1]
    /\ arenas' = [arenas EXCEPT ![j] = @ \cup handed]
    /\ pc' = [u \in Procs |->
                IF u = t THEN after
                ELSE IF u = j[1] /\ JobOf(u) = j /\ WakesOwner(parts'[j])
                     THEN CASE pc[u] = "asleep"     -> "wait"
                            [] pc[u] = "asleepLast" -> "waitLast"
                            [] OTHER                -> pc[u]
                ELSE pc[u]]
    /\ mine' = [mine EXCEPT ![t] = NoJob]
    /\ start' = [start EXCEPT ![t] = 0]
    /\ at' = [at EXCEPT ![t] = 0]
    /\ made' = [made EXCEPT ![t] = {}]

\* l.176-178: out of work.  The arena is handed over and Done is dropped.
Leave(t) ==
    /\ pc[t] = "leave"
    /\ Finish(t, IF t \in Callers THEN "wait" ELSE "recv", {made[t]})
    /\ UNCHANGED <<round, seen, input, next, failed, failure, growth, top,
                   given, ran, kept, result, pool>>

\* l.57: the failure of t's iteration replaces the one recorded.
FirstWins(t) == failure[mine[t]] = NoFailure \* seeded fault
LastWins(t) == TRUE \* seeded fault
Wins(t) ==
    LET f == failure[mine[t]] IN f = NoFailure \/ start[t] < f.start

\* Job::fail, under the lock of `failure`: the lowest chunk start wins.  The
\* flag is stored before the lock is dropped, so both change in one step.
RecordFailure(t) ==
    LET j == mine[t] IN
    /\ failure' = [failure EXCEPT ![j] =
                     IF Wins(t)
                     THEN [start |-> start[t], index |-> at[t]] ELSE @]
    /\ failed' = [failed EXCEPT ![j] = TRUE]

\* l.273-276: the caller waits for the others, a pool thread leaves the pool.
AlwaysUncount(t) == "uncount" \* seeded fault
AfterFailing(t) == IF t \in Callers THEN "waitLast" ELSE "uncount"

\* fail_in_job, up to the recorded failure: the iteration t is at fails.
FailIteration(t) ==
    /\ pc[t] = "body"
    /\ at[t] \in bad[mine[t]]
    /\ RecordFailure(t)
    /\ pc' = [pc EXCEPT ![t] = AfterFailing(t)]
    /\ UNCHANGED <<round, thread, input, next, growth, parts, arenas, top,
                   given, ran, kept, result, pool>>

\* l.276: a failing pool thread is no longer live (with two callers it may
\* fail before the one that started it has counted it, and live wraps) ...
ParkOnly(w) == \* seeded fault
    /\ pc[w] = "uncount"
    /\ pc' = [pc EXCEPT ![w] = "report"]
    /\ UNCHANGED <<round, thread, input, shared, kept, result, pool>>

Uncount(w) ==
    /\ pc[w] = "uncount"
    /\ live' = IF live = 0 THEN MaxUsize ELSE live - 1
    /\ pc' = [pc EXCEPT ![w] = "report"]
    /\ UNCHANGED <<round, thread, input, shared, kept, result, tickets,
                   spawning>>

\* l.277-281: ... then it reports itself done, without its arena, and parks.
Report(w) ==
    /\ pc[w] = "report"
    /\ Finish(w, "parked", {})
    /\ UNCHANGED <<round, seen, input, next, failed, failure, growth, top,
                   given, ran, kept, result, pool>>
-----------------------------------------------------------------------------
(* The calling thread at the end of the loop. *)

\* l.219-222 and l.284-287: the caller waits for everyone, or, when its own
\* iteration failed, for everyone else (it still counts in state.0).
Sleep(c) ==
    /\ \/ /\ pc[c] = "wait" /\ ~EveryoneDone(JobOf(c))
          /\ pc' = [pc EXCEPT ![c] = "asleep"]
       \/ /\ pc[c] = "waitLast" /\ ~OthersDone(JobOf(c))
          /\ pc' = [pc EXCEPT ![c] = "asleepLast"]
    /\ UNCHANGED <<round, thread, input, shared, kept, result, pool>>

\* A condition variable may wake a thread for no reason.
SpuriousWake(c) ==
    /\ \/ /\ pc[c] = "asleep"
          /\ pc' = [pc EXCEPT ![c] = "wait"]
       \/ /\ pc[c] = "asleepLast"
          /\ pc' = [pc EXCEPT ![c] = "waitLast"]
    /\ UNCHANGED <<round, thread, input, shared, kept, result, pool>>

\* l.223-236: everyone is done.  The winner is returned, or the arenas
\* handed over go to the caller's current arena.
Return(c) ==
    /\ pc[c] = "wait"
    /\ LET j == JobOf(c) IN
        /\ EveryoneDone(j)
        /\ arenas' = [arenas EXCEPT ![j] = {}]
        /\ IF failed[j]
           THEN /\ result' = [result EXCEPT ![j] = failure[j].index]
                /\ UNCHANGED kept
           ELSE /\ result' = [result EXCEPT ![j] = Succeeded]
                /\ kept' = [kept EXCEPT ![j] = UNION arenas[j]]
    /\ pc' = [pc EXCEPT ![c] = "idle"]
    /\ UNCHANGED <<round, thread, input, next, failed, failure, growth, parts,
                   top, given, ran, pool>>

\* l.288-289: the failing caller is the last participant.  It fails with
\* the winner and never comes back to its chunk.
ReturnFailing(c) ==
    /\ pc[c] = "waitLast"
    /\ LET j == JobOf(c) IN
        /\ OthersDone(j)
        /\ result' = [result EXCEPT ![j] = failure[j].index]
    /\ mine' = [mine EXCEPT ![c] = NoJob]
    /\ start' = [start EXCEPT ![c] = 0]
    /\ at' = [at EXCEPT ![c] = 0]
    /\ made' = [made EXCEPT ![c] = {}]
    /\ pc' = [pc EXCEPT ![c] = "idle"]
    /\ UNCHANGED <<round, seen, input, shared, kept, pool>>
-----------------------------------------------------------------------------
\* The iterations of a loop that may fail, at most MaxBad of them.
BadSets(n) == {B \in SUBSET (0..(n - 1)) : Cardinality(B) <= MaxBad}

\* The loop after this caller's last one is within the bound.
WithinBound(c, n) == n + (IF round[c] = 0 THEN 0 ELSE count[JobOf(c)]) <= MaxIterations

Begin(c) ==
    \E n \in Counts :
        /\ WithinBound(c, n)
        /\ \E B \in BadSets(n) : RunInline(c, n, B) \/ Reserve(c, n, B)

Participate(t) ==
    \/ CheckFailed(t) \/ TakeChunk(t) \/ Iterate(t) \/ LockGrowth(t)
    \/ Grow(t) \/ Leave(t) \/ FailIteration(t)

CallerStep(c) ==
    \/ StartThread(c) \/ CountThread(c) \/ Reserved(c) \/ Send(c)
    \/ Participate(c) \/ Sleep(c) \/ Return(c) \/ ReturnFailing(c)

WorkerStep(w) == TakeTicket(w) \/ Participate(w) \/ Uncount(w) \/ Report(w)

\* Every loop is over: the pool threads wait for work that never comes.
Over ==
    /\ \A c \in Callers :
         /\ pc[c] = "idle"
         /\ round[c] = Rounds \/ \A n \in Counts : ~WithinBound(c, n)
    /\ \A w \in Workers : pc[w] \in {"unborn", "recv", "parked"}
    /\ UNCHANGED vars

Next ==
    \/ \E c \in Callers : Begin(c) \/ CallerStep(c) \/ SpuriousWake(c)
    \/ \E w \in Workers : WorkerStep(w)
    \/ Over

\* The system runs every thread that can run, and an iteration ends.
Fairness == /\ \A c \in Callers : WF_vars(CallerStep(c))
            /\ \A w \in Workers : WF_vars(WorkerStep(w))

Spec     == Init /\ [][Next]_vars
FairSpec == Spec /\ Fairness
-----------------------------------------------------------------------------
(* Properties. *)

ParticipantStates == {"loop", "take", "body", "growing", "leave"}

CallerStates ==
    ParticipantStates \cup {"idle", "reserve", "started", "send", "wait",
                            "asleep", "waitLast", "asleepLast"}

WorkerStates ==
    ParticipantStates \cup {"unborn", "recv", "uncount", "report", "parked"}

PcOK ==
    /\ pc \in [Procs -> CallerStates \cup WorkerStates]
    /\ \A c \in Callers : pc[c] \in CallerStates
    /\ \A w \in Workers : pc[w] \in WorkerStates

ThreadOK ==
    /\ mine \in [Procs -> Jobs \cup {NoJob}]
    /\ start \in [Procs -> Nat]
    /\ at \in [Procs -> Nat]
    /\ made \in [Procs -> SUBSET Nat]
    /\ seen \in [Procs -> Nat]

InputOK ==
    /\ round \in [Callers -> 0..Rounds]
    /\ count \in [Jobs -> Nat]
    /\ bad \in [Jobs -> SUBSET Nat]
    /\ helpers \in [Jobs -> Nat]

ProgressOK ==
    /\ next \in [Jobs -> Nat]
    /\ failed \in [Jobs -> BOOLEAN]
    /\ failure \in [Jobs -> [start : Nat \cup {-1}, index : Nat \cup {-1}]]
    /\ ran \in [Jobs -> SUBSET Nat]

GrowthOK ==
    /\ growth \in [Jobs -> Procs \cup {None}]
    /\ top \in [Jobs -> Nat]
    /\ given \in [Jobs -> SUBSET (Nat \X Nat)]

EndOK ==
    /\ parts \in [Jobs -> Int]
    /\ arenas \in [Jobs -> SUBSET SUBSET Nat]
    /\ kept \in [Jobs -> SUBSET Nat]
    /\ result \in [Jobs -> Int]

PoolOK ==
    /\ tickets \in Seq(Jobs)
    /\ live \in 0..MaxUsize
    /\ spawning \in Callers \cup {None}

\* Every variable has its type; a caller is never in a state of a pool
\* thread (never parked, never taking tickets), nor the other way round.
TypeOK ==
    /\ PcOK /\ ThreadOK /\ InputOK /\ ProgressOK /\ GrowthOK /\ EndOK /\ PoolOK

AtWorkStates ==
    ParticipantStates \cup {"waitLast", "asleepLast", "uncount", "report"}

\* What the types rest on: a thread has a job exactly while it works on one,
\* a caller that is not idle has begun a loop, and reserve is only called for
\* a loop with something to split.
AtWork == \A t \in Procs : mine[t] # NoJob <=> pc[t] \in AtWorkStates

InLoop ==
    \A c \in Callers :
        /\ pc[c] # "idle" => round[c] > 0
        /\ pc[c] \in {"reserve", "started"} => Wanted(count[JobOf(c)]) > 0

TypeInv == TypeOK /\ AtWork /\ InLoop

Places(s, j) == {k \in 1..Len(s) : s[k] = j}
TicketsOf(j) == Places(tickets, j)
WorkingOn(j) == {t \in Procs : mine[t] = j}

\* The iterations a thread has still to run of the chunk it took.
Remaining(t) ==
    IF pc[t] \in {"body", "growing"} THEN at[t]..(ChunkEnd(t) - 1) ELSE {}

\* par.rs l.12: the same failure is reported at any thread count, the one a
\* plain `for` stops at; with no failing iteration the loop succeeds.
LowestFailureWins ==
    \A j \in Jobs : result[j] # Pending => result[j] = InOrder(count[j], bad[j])

\* No iteration is run twice: what a thread has taken no other thread has,
\* and none of it has run yet.
EachIterationOnce ==
    \A t \in Procs :
        mine[t] # NoJob =>
            /\ Remaining(t) \cap ran[mine[t]] = {}
            /\ \A u \in Procs \ {t} :
                 mine[u] = mine[t] => Remaining(t) \cap Remaining(u) = {}

\* l.14-16: whatever the interleaving, when the loop is over every iteration
\* a plain `for` would have completed has run to its end.
EarlierIterationsRan ==
    \A j \in Jobs :
        result[j] # Pending =>
            {i \in 0..(count[j] - 1) : \A k \in bad[j] : i < k} \subseteq ran[j]

\* l.35-37: the captured variables live until the loop returns, so no thread
\* works on a job whose caller has gone on (or that is not its owner's last).
NobodyOutlivesTheLoop ==
    \A t \in Procs :
        mine[t] # NoJob => /\ result[mine[t]] = Pending
                           /\ mine[t] = JobOf(mine[t][1])

\* l.3-5: after a loop that succeeded, what every iteration allocated lives
\* in the caller's arena.
AllocationsKept ==
    \A j \in Jobs : result[j] = Succeeded => kept[j] = 0..(count[j] - 1)

\* Until the loop returns, state.0 is the number of participants still
\* working: the tickets nobody took yet and the threads at work on the job.
ParticipantsCounted ==
    \A j \in Jobs :
        result[j] = Pending =>
            parts[j] = Cardinality(TicketsOf(j)) + Cardinality(WorkingOn(j))

\* l.106-107: a job can count on the helpers reserve returned.  Every ticket
\* still in the channel has a pool thread of its own that waits for it.
HelpersCountedOn ==
    Len(tickets) <= Cardinality({w \in Workers : pc[w] = "recv"})

\* l.46: two growths in the shared arena never get the same memory.
GrowthsApart ==
    \A j \in Jobs : \A p, q \in given[j] : p[2] = q[2] => p = q

\* Every `par for` that begins returns, or fails the program.
EveryLoopReturns ==
    \A c \in Callers : \A r \in 1..Rounds :
        (round[c] >= r) ~> (result[<<c, r>>] # Pending)

Plain == INSTANCE PlainFor

\* The pool implements the plain loop: every step begins a loop, ends one
\* with the plain loop's outcome, or is invisible.
ImplementsPlainFor == Plain!Spec
=============================================================================
