---------------------------- MODULE ParForProofs ----------------------------
(***************************************************************************)
(* Theorems about ParFor, for every value of its constants: its variables  *)
(* keep their types and nobody outlives a loop; each iteration handed out  *)
(* has run, is some thread's to run, or is above a failure, and none is    *)
(* run twice; the lowest failing iteration is reported, and the pool       *)
(* implements a plain `for`.                                               *)
(***************************************************************************)
EXTENDS ParForInv, WellFoundedInduction, FiniteSetTheorems, SequenceTheorems, TLAPS

\* A non-empty set of natural numbers has a least element.
LEMMA LeastExists ==
    ASSUME NEW S, S \subseteq Nat, S # {}
    PROVE  \E i \in S : \A k \in S : i <= k
<1> DEFINE R == OpToRel(<, Nat)
<1>1. IsWellFoundedOn(R, Nat)
  BY NatLessThanWellFounded
<1>2. PICK x \in S : \A y \in S : ~(<<y, x>> \in R)
  BY <1>1, WFMin, Zenon
<1>3. \A y \in S : ~(y < x)
  BY <1>2 DEF OpToRel
<1>4. QED
  BY <1>3

\* What a plain `for` returns is Succeeded, or the first failing iteration.
LEMMA InOrderType ==
    ASSUME NEW n \in Nat, NEW B, B \subseteq Nat
    PROVE  /\ InOrder(n, B) \in Int
           /\ B = {} => InOrder(n, B) = Succeeded
           /\ B # {} => /\ InOrder(n, B) \in B
                        /\ \A k \in B : InOrder(n, B) <= k
<1>1. CASE B = {}
  BY <1>1 DEF InOrder, Succeeded
<1>2. CASE B # {}
  <2>1. \E i \in B : \A k \in B : i <= k
    BY <1>2, LeastExists
  <2>2. InOrder(n, B) = CHOOSE i \in B : \A k \in B : i <= k
    BY <1>2 DEF InOrder
  <2>3. InOrder(n, B) \in B /\ \A k \in B : InOrder(n, B) <= k
    BY <2>1, <2>2
  <2>4. InOrder(n, B) \in Nat
    BY <2>3
  <2>5. InOrder(n, B) \in Int
    BY <2>4
  <2> QED
    BY <1>2, <2>3, <2>5, Zenon
<1> QED
  BY <1>1, <1>2
-----------------------------------------------------------------------------
(* Type correctness. *)

\* A non-empty tuple is not the empty one.
LEMMA JobsNotNoJob == \A j \in Jobs : j # NoJob
BY DEF Jobs, NoJob

\* The job of a caller's next loop is one of Jobs.
LEMMA NextJob ==
    ASSUME TypeOK, NEW c \in Callers, round[c] < Rounds
    PROVE  /\ <<c, round[c] + 1>> \in Jobs
           /\ round[c] + 1 \in 0..Rounds
BY BoundsAssumption DEF TypeOK, InputOK, Jobs

\* The job of a caller that is in a loop is one of Jobs.
LEMMA ThisJob ==
    ASSUME TypeInv, NEW c \in Callers, pc[c] # "idle"
    PROVE  JobOf(c) \in Jobs
BY BoundsAssumption DEF TypeInv, TypeOK, InLoop, InputOK, Jobs, JobOf

\* The job of a thread at work is one of Jobs.
LEMMA WorkersJob ==
    ASSUME TypeInv, NEW t \in Procs, pc[t] \in AtWorkStates
    PROVE  mine[t] \in Jobs
BY DEF TypeInv, TypeOK, AtWork, ThreadOK

\* A chunk has at least one iteration.
LEMMA ChunkSizeType ==
    ASSUME NEW n \in Nat, NEW threads \in Nat \ {0}
    PROVE  ChunkSize(n, threads) \in Nat \ {0}
<1> DEFINE d == threads * ChunksPerThread
           size == n \div d
<1>1. d \in Nat \ {0}
  BY ChunksAssumption
<1>2. size \in Int
  <2> HIDE DEF d
  <2> QED  BY <1>1
<1>3. ChunkSize(n, threads) = IF size > 1 THEN size ELSE 1
  BY DEF ChunkSize
<1> HIDE DEF size
<1> QED
  BY <1>2, <1>3

LEMMA ChunkType ==
    ASSUME TypeOK, NEW j \in Jobs
    PROVE  Chunk(j) \in Nat \ {0}
BY ChunkSizeType DEF Chunk, TypeOK, InputOK

\* Tickets of one job, sent after those in the channel.
LEMMA RepeatType ==
    ASSUME NEW s \in Seq(Jobs), NEW j \in Jobs, NEW n \in Nat
    PROVE  /\ [k \in 1..n |-> j] \in Seq(Jobs)
           /\ Len([k \in 1..n |-> j]) = n
           /\ s \o [k \in 1..n |-> j] \in Seq(Jobs)
<1>1. [k \in 1..n |-> j] \in Seq(Jobs) /\ Len([k \in 1..n |-> j]) = n
  OBVIOUS
<1> QED
  BY <1>1, ConcatProperties


LEMMA InitTypeInv == Init => TypeInv
BY WorkersAssumption, BoundsAssumption, UsizeAssumption
   DEF Init, TypeInv, TypeOK, PcOK, ThreadOK, InputOK, ProgressOK, GrowthOK,
       EndOK, PoolOK, AtWork, InLoop, Procs, Jobs, NoJob, None, NoFailure,
       Pending, CallerStates, WorkerStates, ParticipantStates, AtWorkStates
-----------------------------------------------------------------------------
(* Each action keeps TypeInv. *)

LEMMA ParticipateTypeInv ==
    ASSUME TypeInv, NEW t \in Procs, Participate(t)
    PROVE  TypeInv'
<1>1. CASE CheckFailed(t)
  <2>1. PcOK'
    BY <1>1, WorkersAssumption
       DEF CheckFailed, thread, input, shared, pool, TypeInv, TypeOK, PcOK,
           Procs,
           CallerStates, WorkerStates, ParticipantStates
  <2>2. ThreadOK' /\ InputOK' /\ ProgressOK' /\ GrowthOK' /\ EndOK' /\ PoolOK'
    BY <1>1
       DEF CheckFailed, thread, input, shared, pool, TypeInv, TypeOK,
           ThreadOK, InputOK, ProgressOK, GrowthOK, EndOK, PoolOK
  <2>3. AtWork'
    BY <1>1, JobsNotNoJob, WorkersAssumption
       DEF CheckFailed, thread, input, shared, pool, TypeInv, TypeOK, PcOK,
           ThreadOK, AtWork,
           Procs, AtWorkStates, CallerStates, WorkerStates, ParticipantStates
  <2>4. InLoop'
    BY <1>1, WorkersAssumption
       DEF CheckFailed, thread, input, shared, pool, TypeInv, TypeOK, PcOK,
           InLoop, JobOf, Procs,
           CallerStates, WorkerStates, ParticipantStates
  <2> QED
    BY <2>1, <2>2, <2>3, <2>4 DEF TypeInv, TypeOK
<1>2. CASE TakeChunk(t)
  <2>0. mine[t] \in Jobs /\ Chunk(mine[t]) \in Nat
    BY <1>2, WorkersJob, ChunkType DEF TypeInv, TakeChunk,
           AtWorkStates, ParticipantStates
  <2>1. PcOK'
    BY <1>2, <2>0, WorkersAssumption
       DEF TakeChunk, thread, input, shared, pool, TypeInv, TypeOK, PcOK, Procs,
           CallerStates, WorkerStates, ParticipantStates
  <2>2. ThreadOK'
    BY <1>2, <2>0
       DEF TakeChunk, thread, input, shared, pool, TypeInv, TypeOK, ThreadOK,
           ProgressOK,
           Procs
  <2>3. ProgressOK'
    BY <1>2, <2>0
       DEF TakeChunk, thread, input, shared, pool, TypeInv, TypeOK, ProgressOK,
           Procs
  <2>4. InputOK' /\ GrowthOK' /\ EndOK' /\ PoolOK'
    BY <1>2, <2>0
       DEF TakeChunk, thread, input, shared, pool, TypeInv, TypeOK,
           InputOK, GrowthOK, EndOK, PoolOK
  <2>5. AtWork'
    BY <1>2, <2>0, JobsNotNoJob, WorkersAssumption
       DEF TakeChunk, thread, input, shared, pool, TypeInv, TypeOK, PcOK,
           ThreadOK, AtWork,
           Procs, AtWorkStates, CallerStates, WorkerStates, ParticipantStates
  <2>6. InLoop'
    BY <1>2, <2>0, WorkersAssumption
       DEF TakeChunk, thread, input, shared, pool, TypeInv, TypeOK, PcOK,
           InLoop, JobOf, Procs,
           CallerStates, WorkerStates, ParticipantStates
  <2> QED
    BY <2>1, <2>2, <2>3, <2>4, <2>5, <2>6 DEF TypeInv, TypeOK
<1>3. CASE Iterate(t)
  <2>0. mine[t] \in Jobs
    BY <1>3, WorkersJob DEF TypeInv, Iterate,
           AtWorkStates, ParticipantStates
  <2>1. PcOK'
    BY <1>3, <2>0, WorkersAssumption
       DEF Iterate, EndIteration, thread, input, shared, pool, TypeInv, TypeOK,
           PcOK, Procs,
           CallerStates, WorkerStates, ParticipantStates
  <2>2. ThreadOK'
    BY <1>3, <2>0
       DEF Iterate, EndIteration, thread, input, shared, pool, TypeInv, TypeOK,
           ThreadOK,
           Procs
  <2>3. ProgressOK'
    BY <1>3, <2>0
       DEF Iterate, EndIteration, thread, input, shared, pool, TypeInv, TypeOK,
           ProgressOK, ThreadOK,
           Procs
  <2>4. InputOK' /\ GrowthOK' /\ EndOK' /\ PoolOK'
    BY <1>3, <2>0
       DEF Iterate, EndIteration, thread, input, shared, pool, TypeInv, TypeOK,
           InputOK, GrowthOK, EndOK, PoolOK
  <2>5. AtWork'
    BY <1>3, <2>0, JobsNotNoJob, WorkersAssumption
       DEF Iterate, EndIteration, thread, input, shared, pool, TypeInv, TypeOK,
           PcOK, ThreadOK, AtWork,
           Procs, AtWorkStates, CallerStates, WorkerStates, ParticipantStates
  <2>6. InLoop'
    BY <1>3, <2>0, WorkersAssumption
       DEF Iterate, EndIteration, thread, input, shared, pool, TypeInv, TypeOK,
           PcOK, InLoop, JobOf, Procs,
           CallerStates, WorkerStates, ParticipantStates
  <2> QED
    BY <2>1, <2>2, <2>3, <2>4, <2>5, <2>6 DEF TypeInv, TypeOK
<1>4. CASE LockGrowth(t)
  <2>0. mine[t] \in Jobs
    BY <1>4, WorkersJob DEF TypeInv, LockGrowth,
           AtWorkStates, ParticipantStates
  <2>1. PcOK'
    BY <1>4, <2>0, WorkersAssumption
       DEF LockGrowth, thread, input, shared, pool, TypeInv, TypeOK, PcOK,
           Procs,
           CallerStates, WorkerStates, ParticipantStates
  <2>2. ThreadOK'
    BY <1>4, <2>0
       DEF LockGrowth, thread, input, shared, pool, TypeInv, TypeOK, ThreadOK,
           GrowthOK,
           Procs
  <2>3. GrowthOK'
    BY <1>4, <2>0
       DEF LockGrowth, thread, input, shared, pool, TypeInv, TypeOK, GrowthOK,
           Procs
  <2>4. InputOK' /\ ProgressOK' /\ EndOK' /\ PoolOK'
    BY <1>4, <2>0
       DEF LockGrowth, thread, input, shared, pool, TypeInv, TypeOK,
           InputOK, ProgressOK, EndOK, PoolOK
  <2>5. AtWork'
    BY <1>4, <2>0, JobsNotNoJob, WorkersAssumption
       DEF LockGrowth, thread, input, shared, pool, TypeInv, TypeOK, PcOK,
           ThreadOK, AtWork,
           Procs, AtWorkStates, CallerStates, WorkerStates, ParticipantStates
  <2>6. InLoop'
    BY <1>4, <2>0, WorkersAssumption
       DEF LockGrowth, thread, input, shared, pool, TypeInv, TypeOK, PcOK,
           InLoop, JobOf, Procs,
           CallerStates, WorkerStates, ParticipantStates
  <2> QED
    BY <2>1, <2>2, <2>3, <2>4, <2>5, <2>6 DEF TypeInv, TypeOK
<1>5. CASE Grow(t)
  <2>0. mine[t] \in Jobs
    BY <1>5, WorkersJob DEF TypeInv, Grow,
           AtWorkStates, ParticipantStates
  <2>1. PcOK'
    BY <1>5, <2>0, WorkersAssumption
       DEF Grow, EndIteration, thread, input, shared, pool, TypeInv, TypeOK,
           PcOK, Procs,
           CallerStates, WorkerStates, ParticipantStates
  <2>2. ThreadOK'
    BY <1>5, <2>0
       DEF Grow, EndIteration, thread, input, shared, pool, TypeInv, TypeOK,
           ThreadOK,
           Procs
  <2>3. ProgressOK'
    BY <1>5, <2>0
       DEF Grow, EndIteration, thread, input, shared, pool, TypeInv, TypeOK,
           ProgressOK, ThreadOK,
           Procs
  <2>4. GrowthOK'
    BY <1>5, <2>0
       DEF Grow, EndIteration, thread, input, shared, pool, TypeInv, TypeOK,
           GrowthOK, ThreadOK,
           Procs
  <2>5. InputOK' /\ EndOK' /\ PoolOK'
    BY <1>5, <2>0
       DEF Grow, EndIteration, thread, input, shared, pool, TypeInv, TypeOK,
           InputOK, EndOK, PoolOK
  <2>6. AtWork'
    BY <1>5, <2>0, JobsNotNoJob, WorkersAssumption
       DEF Grow, EndIteration, thread, input, shared, pool, TypeInv, TypeOK,
           PcOK, ThreadOK, AtWork,
           Procs, AtWorkStates, CallerStates, WorkerStates, ParticipantStates
  <2>7. InLoop'
    BY <1>5, <2>0, WorkersAssumption
       DEF Grow, EndIteration, thread, input, shared, pool, TypeInv, TypeOK,
           PcOK, InLoop, JobOf, Procs,
           CallerStates, WorkerStates, ParticipantStates
  <2> QED
    BY <2>1, <2>2, <2>3, <2>4, <2>5, <2>6, <2>7 DEF TypeInv, TypeOK
<1>6. CASE Leave(t)
  <2>0. mine[t] \in Jobs
    BY <1>6, WorkersJob DEF TypeInv, Leave,
           AtWorkStates, ParticipantStates
  <2>1. PcOK'
    BY <1>6, <2>0, WorkersAssumption
       DEF Leave, Finish, thread, input, shared, pool, TypeInv, TypeOK, PcOK,
           Procs,
           CallerStates, WorkerStates, ParticipantStates
  <2>2. ThreadOK'
    BY <1>6, <2>0
       DEF Leave, Finish, thread, input, shared, pool, TypeInv, TypeOK,
           ThreadOK,
           Procs
  <2>3. EndOK'
    BY <1>6, <2>0
       DEF Leave, Finish, thread, input, shared, pool, TypeInv, TypeOK, EndOK,
           ThreadOK,
           Procs
  <2>4. InputOK' /\ ProgressOK' /\ GrowthOK' /\ PoolOK'
    BY <1>6, <2>0
       DEF Leave, Finish, thread, input, shared, pool, TypeInv, TypeOK,
           InputOK, ProgressOK, GrowthOK, PoolOK
  <2>5. AtWork'
    BY <1>6, <2>0, JobsNotNoJob, WorkersAssumption
       DEF Leave, Finish, thread, input, shared, pool, TypeInv, TypeOK, PcOK,
           ThreadOK, AtWork,
           Procs, AtWorkStates, CallerStates, WorkerStates, ParticipantStates
  <2>6. InLoop'
    BY <1>6, <2>0, WorkersAssumption
       DEF Leave, Finish, thread, input, shared, pool, TypeInv, TypeOK, PcOK,
           InLoop, JobOf, Procs,
           CallerStates, WorkerStates, ParticipantStates
  <2> QED
    BY <2>1, <2>2, <2>3, <2>4, <2>5, <2>6 DEF TypeInv, TypeOK
<1>7. CASE FailIteration(t)
  <2>0. mine[t] \in Jobs
    BY <1>7, WorkersJob DEF TypeInv, FailIteration,
           AtWorkStates, ParticipantStates
  <2>1. PcOK'
    BY <1>7, <2>0, WorkersAssumption
       DEF FailIteration, RecordFailure, AfterFailing, thread, input, shared,
           pool, TypeInv, TypeOK, PcOK, Procs,
           CallerStates, WorkerStates, ParticipantStates
  <2>2. ProgressOK'
    BY <1>7, <2>0
       DEF FailIteration, RecordFailure, AfterFailing, thread, input, shared,
           pool, TypeInv, TypeOK, ProgressOK, ThreadOK,
           Procs
  <2>3. ThreadOK' /\ InputOK' /\ GrowthOK' /\ EndOK' /\ PoolOK'
    BY <1>7, <2>0
       DEF FailIteration, RecordFailure, AfterFailing, thread, input, shared,
           pool, TypeInv, TypeOK,
           ThreadOK, InputOK, GrowthOK, EndOK, PoolOK
  <2>4. AtWork'
    BY <1>7, <2>0, JobsNotNoJob, WorkersAssumption
       DEF FailIteration, RecordFailure, AfterFailing, thread, input, shared,
           pool, TypeInv, TypeOK, PcOK, ThreadOK, AtWork,
           Procs, AtWorkStates, CallerStates, WorkerStates, ParticipantStates
  <2>5. InLoop'
    BY <1>7, <2>0, WorkersAssumption
       DEF FailIteration, RecordFailure, AfterFailing, thread, input, shared,
           pool, TypeInv, TypeOK, PcOK, InLoop, JobOf, Procs,
           CallerStates, WorkerStates, ParticipantStates
  <2> QED
    BY <2>1, <2>2, <2>3, <2>4, <2>5 DEF TypeInv, TypeOK
<1> QED
  BY <1>1, <1>2, <1>3, <1>4, <1>5, <1>6, <1>7 DEF Participate

LEMMA BeginTypeInv ==
    ASSUME TypeInv, NEW c \in Callers, NEW n \in Counts, NEW B \in BadSets(n),
           RunInline(c, n, B) \/ Reserve(c, n, B)
    PROVE  TypeInv'
<1>0. /\ n \in Nat /\ B \subseteq Nat
      /\ <<c, round[c] + 1>> \in Jobs /\ round[c] + 1 \in 0..Rounds
      /\ InOrder(n, B) \in Int
  <2>1. n \in Nat /\ B \subseteq Nat
    BY CountsAssumption DEF BadSets
  <2>2. round[c] < Rounds
    BY DEF RunInline, Reserve
  <2> QED
    BY <2>1, <2>2, NextJob, InOrderType DEF TypeInv
<1>1. CASE RunInline(c, n, B)
  <2>1. PcOK'
    BY <1>0, <1>1, WorkersAssumption
       DEF RunInline, thread, input, shared, pool, TypeInv, TypeOK, PcOK, Procs,
           CallerStates, WorkerStates, ParticipantStates
  <2>2. InputOK'
    BY <1>0, <1>1
       DEF RunInline, thread, input, shared, pool, TypeInv, TypeOK, InputOK,
           Procs
  <2>3. ProgressOK'
    BY <1>0, <1>1
       DEF RunInline, thread, input, shared, pool, TypeInv, TypeOK, ProgressOK,
           Procs
  <2>4. EndOK'
    BY <1>0, <1>1, <2>3
       DEF RunInline, thread, input, shared, pool, TypeInv, TypeOK, EndOK,
           ProgressOK, Procs
  <2>5. ThreadOK' /\ GrowthOK' /\ PoolOK'
    BY <1>0, <1>1
       DEF RunInline, thread, input, shared, pool, TypeInv, TypeOK,
           ThreadOK, GrowthOK, PoolOK
  <2>6. AtWork'
    BY <1>0, <1>1, JobsNotNoJob, WorkersAssumption
       DEF RunInline, thread, input, shared, pool, TypeInv, TypeOK, PcOK,
           ThreadOK, AtWork,
           Procs, AtWorkStates, CallerStates, WorkerStates, ParticipantStates
  <2>7. InLoop'
    BY <1>0, <1>1, WorkersAssumption
       DEF RunInline, thread, input, shared, pool, TypeInv, TypeOK, PcOK,
           InLoop, JobOf, Procs,
           CallerStates, WorkerStates, ParticipantStates
  <2> QED
    BY <2>1, <2>2, <2>3, <2>4, <2>5, <2>6, <2>7 DEF TypeInv, TypeOK
<1>2. CASE Reserve(c, n, B)
  <2>1. PcOK'
    BY <1>0, <1>2, WorkersAssumption
       DEF Reserve, Wanted, Least, thread, input, shared, pool, TypeInv,
           TypeOK, PcOK, Procs,
           CallerStates, WorkerStates, ParticipantStates
  <2>2. InputOK'
    BY <1>0, <1>2
       DEF Reserve, Wanted, Least, thread, input, shared, pool, TypeInv,
           TypeOK, InputOK,
           Procs
  <2>3. PoolOK'
    BY <1>0, <1>2
       DEF Reserve, Wanted, Least, thread, input, shared, pool, TypeInv,
           TypeOK, PoolOK,
           Procs
  <2>4. ThreadOK' /\ ProgressOK' /\ GrowthOK' /\ EndOK'
    BY <1>0, <1>2
       DEF Reserve, Wanted, Least, thread, input, shared, pool, TypeInv, TypeOK,
           ThreadOK, ProgressOK, GrowthOK, EndOK
  <2>5. AtWork'
    BY <1>0, <1>2, JobsNotNoJob, WorkersAssumption
       DEF Reserve, Wanted, Least, thread, input, shared, pool, TypeInv,
           TypeOK, PcOK, ThreadOK, AtWork,
           Procs, AtWorkStates, CallerStates, WorkerStates, ParticipantStates
  <2>6. InLoop'
    BY <1>0, <1>2, WorkersAssumption, ThreadsAssumption
       DEF Reserve, Wanted, Least, thread, input, shared, pool, TypeInv, TypeOK,
           PcOK, InLoop, InputOK, JobOf, Procs,
           CallerStates, WorkerStates, ParticipantStates
  <2> QED
    BY <2>1, <2>2, <2>3, <2>4, <2>5, <2>6 DEF TypeInv, TypeOK
<1> QED
  BY <1>1, <1>2

LEMMA CallerTypeInv ==
    ASSUME TypeInv, NEW c \in Callers,
           \/ StartThread(c) \/ CountThread(c) \/ Reserved(c) \/ Send(c)
           \/ Sleep(c) \/ SpuriousWake(c) \/ Return(c) \/ ReturnFailing(c)
    PROVE  TypeInv'
<1>1. CASE StartThread(c)
  <2>1. PcOK'
    BY <1>1, WorkersAssumption
       DEF StartThread, thread, input, shared, pool, TypeInv, TypeOK, PcOK,
           Procs,
           CallerStates, WorkerStates, ParticipantStates
  <2>2. ThreadOK' /\ InputOK' /\ ProgressOK' /\ GrowthOK' /\ EndOK' /\ PoolOK'
    BY <1>1
       DEF StartThread, thread, input, shared, pool, TypeInv, TypeOK,
           ThreadOK, InputOK, ProgressOK, GrowthOK, EndOK, PoolOK
  <2>3. AtWork'
    BY <1>1, JobsNotNoJob, WorkersAssumption
       DEF StartThread, thread, input, shared, pool, TypeInv, TypeOK, PcOK,
           ThreadOK, AtWork,
           Procs, AtWorkStates, CallerStates, WorkerStates, ParticipantStates
  <2>4. InLoop'
    BY <1>1, WorkersAssumption
       DEF StartThread, thread, input, shared, pool, TypeInv, TypeOK, PcOK,
           InLoop, JobOf, Procs,
           CallerStates, WorkerStates, ParticipantStates
  <2> QED
    BY <2>1, <2>2, <2>3, <2>4 DEF TypeInv, TypeOK
<1>2. CASE CountThread(c)
  <2>1. PcOK'
    BY <1>2, WorkersAssumption
       DEF CountThread, thread, input, shared, pool, TypeInv, TypeOK, PcOK,
           Procs,
           CallerStates, WorkerStates, ParticipantStates
  <2>2. PoolOK'
    BY <1>2, UsizeAssumption
       DEF CountThread, thread, input, shared, pool, TypeInv, TypeOK, PoolOK,
           Procs
  <2>3. ThreadOK' /\ InputOK' /\ ProgressOK' /\ GrowthOK' /\ EndOK'
    BY <1>2
       DEF CountThread, thread, input, shared, pool, TypeInv, TypeOK,
           ThreadOK, InputOK, ProgressOK, GrowthOK, EndOK
  <2>4. AtWork'
    BY <1>2, JobsNotNoJob, WorkersAssumption
       DEF CountThread, thread, input, shared, pool, TypeInv, TypeOK, PcOK,
           ThreadOK, AtWork,
           Procs, AtWorkStates, CallerStates, WorkerStates, ParticipantStates
  <2>5. InLoop'
    BY <1>2, WorkersAssumption
       DEF CountThread, thread, input, shared, pool, TypeInv, TypeOK, PcOK,
           InLoop, JobOf, Procs,
           CallerStates, WorkerStates, ParticipantStates
  <2> QED
    BY <2>1, <2>2, <2>3, <2>4, <2>5 DEF TypeInv, TypeOK
<1>3. CASE Reserved(c)
  <2>0. JobOf(c) \in Jobs /\ Wanted(count[JobOf(c)]) \in Nat
    BY <1>3, ThisJob, ThreadsAssumption DEF TypeInv, Reserved,
           TypeOK, InputOK, InLoop, Wanted, Least
  <2>1. PcOK'
    BY <1>3, <2>0, WorkersAssumption
       DEF Reserved, Granted, Least, thread, input, shared, pool, TypeInv,
           TypeOK, PcOK, Procs,
           CallerStates, WorkerStates, ParticipantStates
  <2>2. InputOK'
    BY <1>3, <2>0
       DEF Reserved, Granted, Least, thread, input, shared, pool, TypeInv,
           TypeOK, InputOK, PoolOK,
           Procs
  <2>3. PoolOK'
    BY <1>3, <2>0
       DEF Reserved, Granted, Least, thread, input, shared, pool, TypeInv,
           TypeOK, PoolOK,
           Procs
  <2>4. ThreadOK' /\ ProgressOK' /\ GrowthOK' /\ EndOK'
    BY <1>3, <2>0
       DEF Reserved, Granted, Least, thread, input, shared, pool, TypeInv,
           TypeOK,
           ThreadOK, ProgressOK, GrowthOK, EndOK
  <2>5. AtWork'
    BY <1>3, <2>0, JobsNotNoJob, WorkersAssumption
       DEF Reserved, Granted, Least, thread, input, shared, pool, TypeInv,
           TypeOK, PcOK, ThreadOK, AtWork,
           Procs, AtWorkStates, CallerStates, WorkerStates, ParticipantStates
  <2>6. InLoop'
    BY <1>3, <2>0, WorkersAssumption
       DEF Reserved, Granted, Least, thread, input, shared, pool, TypeInv,
           TypeOK, PcOK, InLoop, JobOf, Procs,
           CallerStates, WorkerStates, ParticipantStates
  <2> QED
    BY <2>1, <2>2, <2>3, <2>4, <2>5, <2>6 DEF TypeInv, TypeOK
<1>4. CASE Send(c)
  <2>0. /\ JobOf(c) \in Jobs
        /\ tickets \o [k \in 1..helpers[JobOf(c)] |-> JobOf(c)] \in Seq(Jobs)
    BY <1>4, ThisJob, RepeatType DEF TypeInv, Send, TypeOK,
           InputOK, PoolOK
  <2>1. PcOK'
    BY <1>4, <2>0, WorkersAssumption
       DEF Send, Participants, thread, input, shared, pool, TypeInv, TypeOK,
           PcOK, Procs,
           CallerStates, WorkerStates, ParticipantStates
  <2>2. ThreadOK'
    BY <1>4, <2>0
       DEF Send, Participants, thread, input, shared, pool, TypeInv, TypeOK,
           ThreadOK,
           Procs
  <2>3. EndOK'
    BY <1>4, <2>0
       DEF Send, Participants, thread, input, shared, pool, TypeInv, TypeOK,
           EndOK, InputOK,
           Procs
  <2>4. PoolOK'
    BY <1>4, <2>0
       DEF Send, Participants, thread, input, shared, pool, TypeInv, TypeOK,
           PoolOK, InputOK,
           Procs
  <2>5. InputOK' /\ ProgressOK' /\ GrowthOK'
    BY <1>4, <2>0
       DEF Send, Participants, thread, input, shared, pool, TypeInv, TypeOK,
           InputOK, ProgressOK, GrowthOK
  <2>6. AtWork'
    BY <1>4, <2>0, JobsNotNoJob, WorkersAssumption
       DEF Send, Participants, thread, input, shared, pool, TypeInv, TypeOK,
           PcOK, ThreadOK, AtWork,
           Procs, AtWorkStates, CallerStates, WorkerStates, ParticipantStates
  <2>7. InLoop'
    BY <1>4, <2>0, WorkersAssumption
       DEF Send, Participants, thread, input, shared, pool, TypeInv, TypeOK,
           PcOK, InLoop, JobOf, Procs,
           CallerStates, WorkerStates, ParticipantStates
  <2> QED
    BY <2>1, <2>2, <2>3, <2>4, <2>5, <2>6, <2>7 DEF TypeInv, TypeOK
<1>5. CASE Sleep(c)
  <2>1. PcOK'
    BY <1>5, WorkersAssumption
       DEF Sleep, thread, input, shared, pool, TypeInv, TypeOK, PcOK, Procs,
           CallerStates, WorkerStates, ParticipantStates
  <2>2. ThreadOK' /\ InputOK' /\ ProgressOK' /\ GrowthOK' /\ EndOK' /\ PoolOK'
    BY <1>5
       DEF Sleep, thread, input, shared, pool, TypeInv, TypeOK,
           ThreadOK, InputOK, ProgressOK, GrowthOK, EndOK, PoolOK
  <2>3. AtWork'
    BY <1>5, JobsNotNoJob, WorkersAssumption
       DEF Sleep, thread, input, shared, pool, TypeInv, TypeOK, PcOK, ThreadOK,
           AtWork,
           Procs, AtWorkStates, CallerStates, WorkerStates, ParticipantStates
  <2>4. InLoop'
    BY <1>5, WorkersAssumption
       DEF Sleep, thread, input, shared, pool, TypeInv, TypeOK, PcOK, InLoop,
           JobOf, Procs,
           CallerStates, WorkerStates, ParticipantStates
  <2> QED
    BY <2>1, <2>2, <2>3, <2>4 DEF TypeInv, TypeOK
<1>6. CASE SpuriousWake(c)
  <2>1. PcOK'
    BY <1>6, WorkersAssumption
       DEF SpuriousWake, thread, input, shared, pool, TypeInv, TypeOK, PcOK,
           Procs,
           CallerStates, WorkerStates, ParticipantStates
  <2>2. ThreadOK' /\ InputOK' /\ ProgressOK' /\ GrowthOK' /\ EndOK' /\ PoolOK'
    BY <1>6
       DEF SpuriousWake, thread, input, shared, pool, TypeInv, TypeOK,
           ThreadOK, InputOK, ProgressOK, GrowthOK, EndOK, PoolOK
  <2>3. AtWork'
    BY <1>6, JobsNotNoJob, WorkersAssumption
       DEF SpuriousWake, thread, input, shared, pool, TypeInv, TypeOK, PcOK,
           ThreadOK, AtWork,
           Procs, AtWorkStates, CallerStates, WorkerStates, ParticipantStates
  <2>4. InLoop'
    BY <1>6, WorkersAssumption
       DEF SpuriousWake, thread, input, shared, pool, TypeInv, TypeOK, PcOK,
           InLoop, JobOf, Procs,
           CallerStates, WorkerStates, ParticipantStates
  <2> QED
    BY <2>1, <2>2, <2>3, <2>4 DEF TypeInv, TypeOK
<1>7. CASE Return(c)
  <2>0. JobOf(c) \in Jobs /\ UNION arenas[JobOf(c)] \in SUBSET Nat
    BY <1>7, ThisJob DEF TypeInv, Return, TypeOK, EndOK
  <2>1. PcOK'
    BY <1>7, <2>0, WorkersAssumption
       DEF Return, thread, input, shared, pool, TypeInv, TypeOK, PcOK, Procs,
           CallerStates, WorkerStates, ParticipantStates
  <2>2. EndOK'
    <3>1. arenas' \in [Jobs -> SUBSET SUBSET Nat] /\ parts' \in [Jobs -> Int]
      BY <1>7, <2>0 DEF Return, shared, TypeInv, TypeOK, EndOK
    <3>2. result' \in [Jobs -> Int]
      BY <1>7, <2>0
         DEF Return, Succeeded, TypeInv, TypeOK, EndOK, ProgressOK
    <3>3. kept' \in [Jobs -> SUBSET Nat]
      BY <1>7, <2>0 DEF Return, TypeInv, TypeOK, EndOK
    <3> QED
      BY <3>1, <3>2, <3>3 DEF EndOK
  <2>3. ThreadOK' /\ InputOK' /\ ProgressOK' /\ GrowthOK' /\ PoolOK'
    BY <1>7, <2>0
       DEF Return, thread, input, shared, pool, TypeInv, TypeOK,
           ThreadOK, InputOK, ProgressOK, GrowthOK, PoolOK
  <2>4. AtWork'
    BY <1>7, <2>0, JobsNotNoJob, WorkersAssumption
       DEF Return, thread, input, shared, pool, TypeInv, TypeOK, PcOK,
           ThreadOK, AtWork,
           Procs, AtWorkStates, CallerStates, WorkerStates, ParticipantStates
  <2>5. InLoop'
    BY <1>7, <2>0, WorkersAssumption
       DEF Return, thread, input, shared, pool, TypeInv, TypeOK, PcOK, InLoop,
           JobOf, Procs,
           CallerStates, WorkerStates, ParticipantStates
  <2> QED
    BY <2>1, <2>2, <2>3, <2>4, <2>5 DEF TypeInv, TypeOK
<1>8. CASE ReturnFailing(c)
  <2>0. JobOf(c) \in Jobs
    BY <1>8, ThisJob DEF TypeInv, ReturnFailing
  <2>1. PcOK'
    BY <1>8, <2>0, WorkersAssumption
       DEF ReturnFailing, thread, input, shared, pool, TypeInv, TypeOK, PcOK,
           Procs,
           CallerStates, WorkerStates, ParticipantStates
  <2>2. ThreadOK'
    BY <1>8, <2>0
       DEF ReturnFailing, thread, input, shared, pool, TypeInv, TypeOK,
           ThreadOK,
           Procs
  <2>3. EndOK'
    BY <1>8, <2>0
       DEF ReturnFailing, thread, input, shared, pool, TypeInv, TypeOK, EndOK,
           ProgressOK,
           Procs
  <2>4. InputOK' /\ ProgressOK' /\ GrowthOK' /\ PoolOK'
    BY <1>8, <2>0
       DEF ReturnFailing, thread, input, shared, pool, TypeInv, TypeOK,
           InputOK, ProgressOK, GrowthOK, PoolOK
  <2>5. AtWork'
    BY <1>8, <2>0, JobsNotNoJob, WorkersAssumption
       DEF ReturnFailing, thread, input, shared, pool, TypeInv, TypeOK, PcOK,
           ThreadOK, AtWork,
           Procs, AtWorkStates, CallerStates, WorkerStates, ParticipantStates
  <2>6. InLoop'
    BY <1>8, <2>0, WorkersAssumption
       DEF ReturnFailing, thread, input, shared, pool, TypeInv, TypeOK, PcOK,
           InLoop, JobOf, Procs,
           CallerStates, WorkerStates, ParticipantStates
  <2> QED
    BY <2>1, <2>2, <2>3, <2>4, <2>5, <2>6 DEF TypeInv, TypeOK
<1> QED
  BY <1>1, <1>2, <1>3, <1>4, <1>5, <1>6, <1>7, <1>8

LEMMA WorkerTypeInv ==
    ASSUME TypeInv, NEW w \in Workers, TakeTicket(w) \/ Uncount(w) \/ Report(w)
    PROVE  TypeInv'
<1>1. CASE TakeTicket(w)
  <2>0. Head(tickets) \in Jobs
    BY <1>1, HeadTailProperties DEF TypeInv, TakeTicket, TypeOK, PoolOK
  <2>1. PcOK'
    BY <1>1, <2>0, WorkersAssumption
       DEF TakeTicket, thread, input, shared, pool, TypeInv, TypeOK, PcOK,
           Procs,
           CallerStates, WorkerStates, ParticipantStates
  <2>2. ThreadOK'
    BY <1>1, <2>0
       DEF TakeTicket, thread, input, shared, pool, TypeInv, TypeOK, ThreadOK,
           Procs
  <2>3. PoolOK'
    BY <1>1, <2>0
       DEF TakeTicket, thread, input, shared, pool, TypeInv, TypeOK, PoolOK,
           Procs
  <2>4. InputOK' /\ ProgressOK' /\ GrowthOK' /\ EndOK'
    BY <1>1, <2>0
       DEF TakeTicket, thread, input, shared, pool, TypeInv, TypeOK,
           InputOK, ProgressOK, GrowthOK, EndOK
  <2>5. AtWork'
    BY <1>1, <2>0, JobsNotNoJob, WorkersAssumption
       DEF TakeTicket, thread, input, shared, pool, TypeInv, TypeOK, PcOK,
           ThreadOK, AtWork,
           Procs, AtWorkStates, CallerStates, WorkerStates, ParticipantStates
  <2>6. InLoop'
    BY <1>1, <2>0, WorkersAssumption
       DEF TakeTicket, thread, input, shared, pool, TypeInv, TypeOK, PcOK,
           InLoop, JobOf, Procs,
           CallerStates, WorkerStates, ParticipantStates
  <2> QED
    BY <2>1, <2>2, <2>3, <2>4, <2>5, <2>6 DEF TypeInv, TypeOK
<1>2. CASE Uncount(w)
  <2>1. PcOK'
    BY <1>2, WorkersAssumption
       DEF Uncount, thread, input, shared, pool, TypeInv, TypeOK, PcOK, Procs,
           CallerStates, WorkerStates, ParticipantStates
  <2>2. PoolOK'
    BY <1>2, UsizeAssumption
       DEF Uncount, thread, input, shared, pool, TypeInv, TypeOK, PoolOK,
           Procs
  <2>3. ThreadOK' /\ InputOK' /\ ProgressOK' /\ GrowthOK' /\ EndOK'
    BY <1>2
       DEF Uncount, thread, input, shared, pool, TypeInv, TypeOK,
           ThreadOK, InputOK, ProgressOK, GrowthOK, EndOK
  <2>4. AtWork'
    BY <1>2, JobsNotNoJob, WorkersAssumption
       DEF Uncount, thread, input, shared, pool, TypeInv, TypeOK, PcOK,
           ThreadOK, AtWork,
           Procs, AtWorkStates, CallerStates, WorkerStates, ParticipantStates
  <2>5. InLoop'
    BY <1>2, WorkersAssumption
       DEF Uncount, thread, input, shared, pool, TypeInv, TypeOK, PcOK, InLoop,
           JobOf, Procs,
           CallerStates, WorkerStates, ParticipantStates
  <2> QED
    BY <2>1, <2>2, <2>3, <2>4, <2>5 DEF TypeInv, TypeOK
<1>3. CASE Report(w)
  <2>0. mine[w] \in Jobs
    BY <1>3, WorkersJob DEF TypeInv, Report, AtWorkStates, Procs
  <2>1. PcOK'
    BY <1>3, <2>0, WorkersAssumption
       DEF Report, Finish, thread, input, shared, pool, TypeInv, TypeOK, PcOK,
           Procs,
           CallerStates, WorkerStates, ParticipantStates
  <2>2. ThreadOK'
    BY <1>3, <2>0
       DEF Report, Finish, thread, input, shared, pool, TypeInv, TypeOK,
           ThreadOK,
           Procs
  <2>3. EndOK'
    BY <1>3, <2>0
       DEF Report, Finish, thread, input, shared, pool, TypeInv, TypeOK, EndOK,
           Procs
  <2>4. InputOK' /\ ProgressOK' /\ GrowthOK' /\ PoolOK'
    BY <1>3, <2>0
       DEF Report, Finish, thread, input, shared, pool, TypeInv, TypeOK,
           InputOK, ProgressOK, GrowthOK, PoolOK
  <2>5. AtWork'
    BY <1>3, <2>0, JobsNotNoJob, WorkersAssumption
       DEF Report, Finish, thread, input, shared, pool, TypeInv, TypeOK, PcOK,
           ThreadOK, AtWork,
           Procs, AtWorkStates, CallerStates, WorkerStates, ParticipantStates
  <2>6. InLoop'
    BY <1>3, <2>0, WorkersAssumption
       DEF Report, Finish, thread, input, shared, pool, TypeInv, TypeOK, PcOK,
           InLoop, JobOf, Procs,
           CallerStates, WorkerStates, ParticipantStates
  <2> QED
    BY <2>1, <2>2, <2>3, <2>4, <2>5, <2>6 DEF TypeInv, TypeOK
<1> QED
  BY <1>1, <1>2, <1>3

LEMMA StepTypeInv == TypeInv /\ [Next]_vars => TypeInv'
<1> SUFFICES ASSUME TypeInv, [Next]_vars PROVE TypeInv'
  OBVIOUS
<1>1. CASE Next
  <2>1. ASSUME NEW c \in Callers, Begin(c)  PROVE TypeInv'
    BY <2>1, BeginTypeInv DEF Begin
  <2>2. ASSUME NEW c \in Callers, CallerStep(c)  PROVE TypeInv'
    BY <2>2, CallerTypeInv, ParticipateTypeInv DEF CallerStep, Procs
  <2>3. ASSUME NEW c \in Callers, SpuriousWake(c)  PROVE TypeInv'
    BY <2>3, CallerTypeInv
  <2>4. ASSUME NEW w \in Workers, WorkerStep(w)  PROVE TypeInv'
    BY <2>4, WorkerTypeInv, ParticipateTypeInv DEF WorkerStep, Procs
  <2>5. CASE UNCHANGED vars
    BY <2>5 DEF vars, thread, input, shared, pool, TypeInv, TypeOK, PcOK,
       ThreadOK, InputOK, ProgressOK, GrowthOK, EndOK, PoolOK, AtWork, InLoop,
       JobOf
  <2> QED
    BY <1>1, <2>1, <2>2, <2>3, <2>4, <2>5 DEF Next, Over
<1>2. CASE UNCHANGED vars
  BY <1>2 DEF vars, thread, input, shared, pool, TypeInv, TypeOK, PcOK,
     ThreadOK, InputOK, ProgressOK, GrowthOK, EndOK, PoolOK, AtWork, InLoop,
     JobOf
<1> QED
  BY <1>1, <1>2

\* Every reachable state has its types, for any callers, pool and loops.
THEOREM TypeInvariant == Spec => []TypeInv
<1>1. Init => TypeInv
  BY InitTypeInv
<1>2. TypeInv /\ [Next]_vars => TypeInv'
  BY StepTypeInv
<1> QED
  BY <1>1, <1>2, PTL DEF Spec
-----------------------------------------------------------------------------
(* Counting tickets and participants. *)

LEMMA PlacesFinite ==
    ASSUME NEW s \in Seq(Jobs), NEW j
    PROVE  IsFiniteSet(Places(s, j)) /\ Cardinality(Places(s, j)) \in Nat
<1>1. Places(s, j) \in SUBSET (1..Len(s))
  BY DEF Places
<1>2. IsFiniteSet(1..Len(s))
  BY FS_Interval
<1> QED
  BY <1>1, <1>2, FS_Subset, FS_CardinalityType

LEMMA WorkingFinite ==
    ASSUME NEW j
    PROVE  IsFiniteSet(WorkingOn(j)) /\ Cardinality(WorkingOn(j)) \in Nat
<1>1. IsFiniteSet(Procs)
  BY CallersAssumption, WorkersAssumption, FS_Union DEF Procs
<1>2. WorkingOn(j) \in SUBSET Procs
  BY DEF WorkingOn
<1> QED
  BY <1>1, <1>2, FS_Subset, FS_CardinalityType

\* A set moved up by one has as many elements.
LEMMA ShiftedSet ==
    ASSUME NEW S, NEW T, S \subseteq Int, T \subseteq Int,
           IsFiniteSet(S), \A k \in Int : k \in S <=> k + 1 \in T
    PROVE  IsFiniteSet(T) /\ Cardinality(T) = Cardinality(S)
<1> DEFINE f == [k \in S |-> k + 1]
<1>1. f \in [S -> T]
  OBVIOUS
<1>2. \A a, b \in S : f[a] = f[b] => a = b
  OBVIOUS
<1>3. \A x \in T : x - 1 \in S /\ f[x - 1] = x
  OBVIOUS
<1>4. f \in Bijection(S, T)
  <2> HIDE DEF f
  <2>1. f \in Injection(S, T)
    BY <1>1, <1>2 DEF Injection, IsInjective
  <2>2. f \in Surjection(S, T)
    BY <1>1, <1>3 DEF Surjection
  <2> QED
    BY <2>1, <2>2 DEF Bijection
<1>5. ExistsBijection(S, T)
  BY <1>4 DEF ExistsBijection
<1> QED
  BY <1>5, FS_Bijection

\* Taking the first ticket leaves one ticket less of its job.
LEMMA TakeCount ==
    ASSUME NEW s \in Seq(Jobs), s # <<>>, NEW j \in Jobs
    PROVE  Cardinality(Places(s, j)) =
             Cardinality(Places(Tail(s), j)) + (IF Head(s) = j THEN 1 ELSE 0)
<1> DEFINE S == Places(Tail(s), j)
           T == Places(s, j) \ {1}
<1>1. /\ Tail(s) \in Seq(Jobs) /\ Len(Tail(s)) = Len(s) - 1 /\ Len(s) \in Nat
      /\ \A i \in 1..Len(Tail(s)) : Tail(s)[i] = s[i + 1]
  BY HeadTailProperties
<1>2. IsFiniteSet(S) /\ S \subseteq Int /\ T \subseteq Int
  <2>1. IsFiniteSet(S)
    BY <1>1, PlacesFinite
  <2>2. S \subseteq Int /\ T \subseteq Int
    BY <1>1 DEF Places
  <2> QED
    BY <2>1, <2>2
<1>2a. \A k \in Int : k \in S <=> k + 1 \in T
  BY <1>1 DEF Places
<1>3. Cardinality(T) = Cardinality(S)
  <2> HIDE DEF S, T
  <2> QED  BY <1>2, <1>2a, ShiftedSet
<1>4. /\ Cardinality(T) = IF 1 \in Places(s, j) THEN Cardinality(Places(s, j)) - 1
                          ELSE Cardinality(Places(s, j))
      /\ Cardinality(Places(s, j)) \in Nat
  BY PlacesFinite, FS_RemoveElement
<1>5. 1 \in Places(s, j) <=> Head(s) = j
  BY DEF Places
<1> QED
  BY <1>3, <1>4, <1>5

\* Sending n tickets of job i adds n to its tickets, and none to the others'.
LEMMA SendCount ==
    ASSUME NEW s \in Seq(Jobs), NEW i \in Jobs, NEW n \in Nat, NEW j \in Jobs
    PROVE  Cardinality(Places(s \o [k \in 1..n |-> i], j)) =
             Cardinality(Places(s, j)) + (IF i = j THEN n ELSE 0)
<1> DEFINE q == [k \in 1..n |-> i]
           r == s \o q
           m == Len(s)
<1>1. /\ q \in Seq(Jobs) /\ Len(q) = n /\ m \in Nat
      /\ r \in Seq(Jobs) /\ Len(r) = m + n
      /\ \A k \in 1..(m + n) : r[k] = IF k <= m THEN s[k] ELSE i
  BY RepeatType, ConcatProperties
<1> HIDE DEF r, q
<1>2. ASSUME i # j  PROVE Cardinality(Places(r, j)) = Cardinality(Places(s, j))
  <2>1. Places(r, j) = Places(s, j)
    BY <1>1, <1>2 DEF Places
  <2> QED
    BY <2>1
<1>3. ASSUME i = j  PROVE Cardinality(Places(r, j)) = Cardinality(Places(s, j)) + n
  <2>1. Places(r, j) = Places(s, j) \cup ((m + 1)..(m + n))
    BY <1>1, <1>3 DEF Places
  <2>2. Places(s, j) \cap ((m + 1)..(m + n)) = {}
    BY <1>1 DEF Places
  <2>3. IsFiniteSet((m + 1)..(m + n)) /\ Cardinality((m + 1)..(m + n)) = n
    BY <1>1, FS_Interval
  <2>4. Cardinality(Places(r, j)) = Cardinality(Places(s, j)) + n
    <3> DEFINE U == Places(s, j)
               W == (m + 1)..(m + n)
    <3>1. IsFiniteSet(U) /\ Cardinality(U) \in Nat
      BY PlacesFinite
    <3> HIDE DEF U, W
    <3>2. Cardinality(U \cup W) = Cardinality(U) + Cardinality(W) - Cardinality(U \cap W)
      BY <2>3, <3>1, FS_Union DEF W
    <3>3. Cardinality(U \cap W) = 0
      BY <2>2, FS_EmptySet DEF U, W
    <3>4. Cardinality(W) = n
      BY <2>3 DEF W
    <3>5. Places(r, j) = U \cup W
      BY <2>1 DEF U, W
    <3>6. Cardinality(Places(r, j)) = Cardinality(U) + n
      BY <3>1, <3>2, <3>3, <3>4, <3>5
    <3> QED
      BY <3>6 DEF U
  <2> QED
    BY <2>4
<1>4. Cardinality(Places(r, j)) = Cardinality(Places(s, j)) + (IF i = j THEN n ELSE 0)
  BY <1>2, <1>3, PlacesFinite
<1> QED
  BY <1>4, Zenon DEF r, q
-----------------------------------------------------------------------------
(* Who works on a job. *)

\* The types the steps below use.
LEMMA StateTypes ==
    ASSUME TypeInv
    PROVE  /\ pc \in [Procs -> CallerStates \cup WorkerStates]
           /\ \A c \in Callers : pc[c] \in CallerStates
           /\ \A w \in Workers : pc[w] \in WorkerStates
           /\ mine \in [Procs -> Jobs \cup {NoJob}]
           /\ start \in [Procs -> Nat] /\ at \in [Procs -> Nat]
           /\ made \in [Procs -> SUBSET Nat]
           /\ round \in [Callers -> 0..Rounds]
           /\ count \in [Jobs -> Nat] /\ bad \in [Jobs -> SUBSET Nat]
           /\ helpers \in [Jobs -> Nat]
           /\ next \in [Jobs -> Nat] /\ failed \in [Jobs -> BOOLEAN]
           /\ failure \in [Jobs -> [start : Nat \cup {-1}, index : Nat \cup {-1}]]
           /\ ran \in [Jobs -> SUBSET Nat]
           /\ parts \in [Jobs -> Int] /\ arenas \in [Jobs -> SUBSET SUBSET Nat]
           /\ kept \in [Jobs -> SUBSET Nat] /\ result \in [Jobs -> Int]
           /\ tickets \in Seq(Jobs)
BY DEF TypeInv, TypeOK, PcOK, ThreadOK, InputOK, ProgressOK, EndOK, PoolOK

\* A job is its owner's, of one of the owner's rounds.
LEMMA JobFacts ==
    ASSUME TypeInv, NEW j \in Jobs
    PROVE  /\ j[1] \in Callers /\ j[1] \in Procs /\ j[2] \in Nat
           /\ round[j[1]] \in Nat
           /\ j[2] = round[j[1]] <=> j = JobOf(j[1])
BY StateTypes, BoundsAssumption DEF Jobs, JobOf, Procs

\* With state.0 at 0 nobody is left: no ticket and no thread.
LEMMA NobodyLeft ==
    ASSUME LInv, NEW j \in Jobs, result[j] = Pending, parts[j] = 0
    PROVE  TicketsOf(j) = {} /\ WorkingOn(j) = {}
<1>1. /\ IsFiniteSet(TicketsOf(j)) /\ Cardinality(TicketsOf(j)) \in Nat
      /\ IsFiniteSet(WorkingOn(j)) /\ Cardinality(WorkingOn(j)) \in Nat
  BY StateTypes, PlacesFinite, WorkingFinite DEF LInv, TicketsOf
<1>2. 0 = Cardinality(TicketsOf(j)) + Cardinality(WorkingOn(j))
  BY DEF LInv, ParticipantsCounted
<1>3. Cardinality(TicketsOf(j)) = 0 /\ Cardinality(WorkingOn(j)) = 0
  BY <1>1, <1>2
<1> QED
  BY <1>1, <1>3, FS_EmptySet

\* The job of a thread at work is its owner's current one and not over.
LEMMA AtWorkFacts ==
    ASSUME LInv, NEW t \in Procs, pc[t] \in AtWorkStates
    PROVE  /\ mine[t] \in Jobs /\ mine[t] # NoJob
           /\ t \in WorkingOn(mine[t])
           /\ result[mine[t]] = Pending
           /\ ~Fresh(mine[t])
           /\ mine[t] = JobOf(mine[t][1])
           /\ t \in Callers => mine[t] = JobOf(t)
<1> DEFINE j == mine[t]
<1>1. j \in Jobs /\ j # NoJob /\ t \in WorkingOn(j)
  BY WorkersJob, JobsNotNoJob DEF LInv, WorkingOn
<1>2. result[j] = Pending
  BY <1>1 DEF LInv, Lifecycle
<1>3. parts[j] # 0
  BY <1>1, <1>2, NobodyLeft
<1>4. ~Fresh(j)
  BY <1>3 DEF Fresh
<1>5. j = JobOf(j[1])
  <2>1. ~(j[2] > round[j[1]]) /\ ~(j[2] < round[j[1]])
    BY <1>1, <1>2, <1>4 DEF LInv, Lifecycle
  <2> QED
    BY <1>1, <2>1, JobFacts DEF LInv
<1>6. ASSUME t \in Callers  PROVE j = JobOf(t)
  <2>1. JobOf(t) \in Jobs
    BY <1>6, ThisJob DEF LInv, AtWorkStates, ParticipantStates
  <2>2. JobOf(t)[1] = t
    BY DEF JobOf
  <2> QED
    BY <2>1, <2>2, Zenon DEF LInv, Lifecycle
<1> QED
  BY <1>1, <1>2, <1>4, <1>5, <1>6

\* A thread that goes on working on its job, and alone changes it, keeps the
\* invariant.
LEMMA ParticipantStep ==
    ASSUME LInv, TypeInv', NEW t \in Procs,
           pc[t] \in AtWorkStates, pc'[t] \in AtWorkStates,
           \A u \in Procs \ {t} : pc'[u] = pc[u],
           UNCHANGED <<round, mine, parts, arenas, kept, result, tickets>>,
           \A k \in Jobs \ {mine[t]} :
             /\ next'[k] = next[k] /\ failed'[k] = failed[k]
             /\ failure'[k] = failure[k] /\ ran'[k] = ran[k]
    PROVE  LInv'
<1>1. \A j \in Jobs : TicketsOf(j)' = TicketsOf(j) /\ WorkingOn(j)' = WorkingOn(j)
  BY DEF TicketsOf, Places, WorkingOn
<1>2. ParticipantsCounted'
  BY <1>1 DEF LInv, ParticipantsCounted
<1>3. ASSUME NEW j \in Jobs, Fresh(j)  PROVE Fresh(j)'
  BY <1>3, AtWorkFacts DEF Fresh
<1>4. ASSUME NEW c \in Callers
      PROVE  /\ pc'[c] = "idle" <=> pc[c] = "idle"
             /\ pc'[c] \in {"reserve", "started", "send"} =>
                  pc[c] \in {"reserve", "started", "send"}
             /\ pc'[c] \in AtWorkStates => pc[c] \in AtWorkStates
  BY <1>4 DEF Procs, AtWorkStates, ParticipantStates
<1>5. ASSUME NEW j \in Jobs
      PROVE  LET c == j[1] IN
        /\ j[2] > round'[c] => Fresh(j)'
        /\ j[2] < round'[c] => result'[j] # Pending
        /\ j = JobOf(c)' =>
            /\ result'[j] # Pending <=> pc'[c] = "idle"
            /\ pc'[c] \in {"reserve", "started", "send"} => Fresh(j)'
            /\ pc'[c] \in AtWorkStates => mine'[c] = j
        /\ result'[j] # Pending => TicketsOf(j)' = {} /\ WorkingOn(j)' = {}
  <2>1. j[1] \in Callers /\ JobOf(j[1])' = JobOf(j[1])
    BY JobFacts DEF LInv, JobOf
  <2> QED
    BY <1>1, <1>3, <1>4, <2>1 DEF LInv, Lifecycle
<1> QED
  BY <1>2, <1>5 DEF LInv, Lifecycle

\* A participant that ends its part of the job keeps the invariant.
LEMMA FinishStep ==
    ASSUME LInv, TypeInv', NEW t \in Procs, NEW after, NEW handed,
           pc[t] \in AtWorkStates, Finish(t, after, handed),
           after \notin AtWorkStates \cup {"reserve", "started", "send"},
           t \in Callers => after # "idle",
           UNCHANGED <<round, next, failed, failure, ran, kept, result,
           tickets>>
    PROVE  LInv'
<1>j. PICK j \in Jobs : j = mine[t]
  BY AtWorkFacts
<1>t. /\ pc \in [Procs -> CallerStates \cup WorkerStates]
      /\ mine \in [Procs -> Jobs \cup {NoJob}]
      /\ parts \in [Jobs -> Int] /\ arenas \in [Jobs -> SUBSET SUBSET Nat]
      /\ tickets \in Seq(Jobs)
  BY StateTypes DEF LInv
<1>0. /\ j \in Jobs /\ j # NoJob /\ t \in WorkingOn(j) /\ result[j] = Pending
      /\ ~Fresh(j) /\ j = JobOf(j[1]) /\ (t \in Callers => j = JobOf(t))
  BY <1>j, AtWorkFacts
<1>1. /\ mine' = [mine EXCEPT ![t] = NoJob]
      /\ parts' = [parts EXCEPT ![j] = @ - 1]
      /\ arenas' = [arenas EXCEPT ![j] = @ \cup handed]
      /\ pc'[t] = after
  BY <1>t, <1>j DEF Finish
<1>2. ASSUME NEW u \in Procs, u # t
      PROVE  \/ pc'[u] = pc[u]
             \/ pc[u] = "asleep" /\ pc'[u] = "wait"
             \/ pc[u] = "asleepLast" /\ pc'[u] = "waitLast"
  BY <1>2 DEF Finish
<1>3. ASSUME NEW k \in Jobs
      PROVE  /\ TicketsOf(k)' = TicketsOf(k)
             /\ WorkingOn(k)' = WorkingOn(k) \ {t}
             /\ k # j => WorkingOn(k)' = WorkingOn(k)
  BY <1>t, <1>0, <1>1, <1>3, JobsNotNoJob DEF TicketsOf, Places, WorkingOn
<1>4. Cardinality(WorkingOn(j)') = Cardinality(WorkingOn(j)) - 1
  <2> DEFINE W == WorkingOn(j)
  <2>1. IsFiniteSet(W) /\ t \in W
    BY <1>0, WorkingFinite
  <2>2. WorkingOn(j)' = W \ {t}
    BY <1>0, <1>3
  <2> HIDE DEF W
  <2>3. Cardinality(W \ {t}) = Cardinality(W) - 1
    BY <2>1, FS_RemoveElement
  <2> QED
    BY <2>2, <2>3 DEF W
<1>5. ParticipantsCounted'
  <2>1. ASSUME NEW k \in Jobs, result[k] = Pending
        PROVE  parts'[k] = Cardinality(TicketsOf(k)') + Cardinality(WorkingOn(k)')
    <3>1. parts[k] = Cardinality(TicketsOf(k)) + Cardinality(WorkingOn(k))
      BY <2>1 DEF LInv, ParticipantsCounted
    <3>2. Cardinality(TicketsOf(k)) \in Nat /\ Cardinality(WorkingOn(k)) \in Nat
      BY <1>t, PlacesFinite, WorkingFinite DEF TicketsOf
    <3>3. CASE k = j
      <4>1. parts'[k] = parts[k] - 1 /\ parts[k] \in Int
        BY <1>t, <1>0, <1>1, <3>3
      <4>2. Cardinality(WorkingOn(k)') = Cardinality(WorkingOn(k)) - 1
        BY <1>4, <3>3
      <4>3. TicketsOf(k)' = TicketsOf(k)
        BY <1>3
      <4> QED
        BY <3>1, <3>2, <4>1, <4>2, <4>3
    <3>4. CASE k # j
      BY <1>t, <1>0, <1>1, <1>3, <3>1, <3>4
    <3> QED
      BY <3>3, <3>4
  <2> QED
    BY <2>1 DEF ParticipantsCounted
<1>6. ASSUME NEW k \in Jobs, Fresh(k)  PROVE Fresh(k)'
  BY <1>t, <1>0, <1>1, <1>6 DEF Fresh
<1>7. ASSUME NEW c \in Callers
      PROVE  /\ pc'[c] = "idle" <=> pc[c] = "idle"
             /\ pc'[c] \in {"reserve", "started", "send"} =>
                  pc[c] \in {"reserve", "started", "send"}
             /\ pc'[c] \in AtWorkStates => pc[c] \in AtWorkStates /\ c # t
  BY <1>1, <1>2, <1>7 DEF Procs, AtWorkStates, ParticipantStates
<1>8. ASSUME NEW k \in Jobs
      PROVE  LET c == k[1] IN
        /\ k[2] > round'[c] => Fresh(k)'
        /\ k[2] < round'[c] => result'[k] # Pending
        /\ k = JobOf(c)' =>
            /\ result'[k] # Pending <=> pc'[c] = "idle"
            /\ pc'[c] \in {"reserve", "started", "send"} => Fresh(k)'
            /\ pc'[c] \in AtWorkStates => mine'[c] = k
        /\ result'[k] # Pending => TicketsOf(k)' = {} /\ WorkingOn(k)' = {}
  <2>1. k[1] \in Callers /\ k[1] \in Procs /\ JobOf(k[1])' = JobOf(k[1])
    BY JobFacts DEF LInv, JobOf
  <2>2. pc'[k[1]] \in AtWorkStates => mine'[k[1]] = mine[k[1]]
    BY <1>t, <1>1, <1>7, <2>1
  <2> QED
    BY <1>3, <1>6, <1>7, <2>1, <2>2 DEF LInv, Lifecycle
<1> QED
  BY <1>5, <1>8 DEF LInv, Lifecycle

\* What a participant does, up to the end of its part, keeps the invariant.
LEMMA ParticipateLInv ==
    ASSUME LInv, TypeInv', NEW t \in Procs,
           Participate(t) \/ (t \in Workers /\ (Uncount(t) \/ Report(t)))
    PROVE  LInv'
<1>t. /\ pc \in [Procs -> CallerStates \cup WorkerStates]
      /\ next \in [Jobs -> Nat] /\ failed \in [Jobs -> BOOLEAN]
      /\ ran \in [Jobs -> SUBSET Nat]
      /\ failure \in [Jobs -> [start : Nat \cup {-1}, index : Nat \cup {-1}]]
  BY StateTypes DEF LInv
<1>1. CASE CheckFailed(t)
  BY <1>t, <1>1, ParticipantStep
     DEF CheckFailed, thread, shared, pool, AtWorkStates, ParticipantStates
<1>2. CASE TakeChunk(t)
  BY <1>t, <1>2, ParticipantStep
     DEF TakeChunk, pool, AtWorkStates, ParticipantStates
<1>3. CASE Iterate(t)
  BY <1>t, <1>3, ParticipantStep
     DEF Iterate, EndIteration, pool, AtWorkStates, ParticipantStates
<1>4. CASE LockGrowth(t)
  BY <1>t, <1>4, ParticipantStep
     DEF LockGrowth, pool, AtWorkStates, ParticipantStates
<1>5. CASE Grow(t)
  BY <1>t, <1>5, ParticipantStep
     DEF Grow, EndIteration, pool, AtWorkStates, ParticipantStates
<1>6. CASE Leave(t)
  BY <1>6, FinishStep DEF Leave, pool, AtWorkStates, ParticipantStates
<1>7. CASE FailIteration(t)
  BY <1>t, <1>7, ParticipantStep
     DEF FailIteration, RecordFailure, AfterFailing, thread, pool,
         AtWorkStates, ParticipantStates
<1>8. CASE Uncount(t)
  BY <1>t, <1>8, ParticipantStep
     DEF Uncount, thread, shared, pool, AtWorkStates, ParticipantStates
<1>9. CASE t \in Workers /\ Report(t)
  BY <1>9, WorkersAssumption, FinishStep
     DEF Report, pool, AtWorkStates, ParticipantStates
<1> QED
  BY <1>1, <1>2, <1>3, <1>4, <1>5, <1>6, <1>7, <1>8, <1>9 DEF Participate

\* Steps that move threads about, but nobody into or out of a job.
LEMMA MoveStep ==
    ASSUME LInv, TypeInv',
           UNCHANGED <<round, mine, next, failed, failure, ran, parts, arenas,
                       kept, result, tickets>>,
           \A c \in Callers :
             /\ pc'[c] = "idle" <=> pc[c] = "idle"
             /\ pc'[c] \in {"reserve", "started", "send"} =>
                  pc[c] \in {"reserve", "started", "send"}
             /\ pc'[c] \in AtWorkStates => pc[c] \in AtWorkStates
    PROVE  LInv'
<1>1. ASSUME NEW j \in Jobs
      PROVE  /\ TicketsOf(j)' = TicketsOf(j) /\ WorkingOn(j)' = WorkingOn(j)
             /\ Fresh(j)' <=> Fresh(j)
             /\ j[1] \in Callers /\ JobOf(j[1])' = JobOf(j[1])
  BY <1>1, JobFacts DEF LInv, TicketsOf, Places, WorkingOn, Fresh, JobOf
<1>2. ParticipantsCounted'
  BY <1>1 DEF LInv, ParticipantsCounted
<1>3. Lifecycle'
  BY <1>1 DEF LInv, Lifecycle
<1> QED
  BY <1>2, <1>3 DEF LInv

\* The tickets are sent: the job gets as many participants as state.0 says.
LEMMA SendLInv ==
    ASSUME LInv, TypeInv', NEW c \in Callers, Send(c)
    PROVE  LInv'
<1>j. PICK j \in Jobs : j = JobOf(c) /\ j[1] = c
  BY ThisJob DEF LInv, Send, JobOf
<1> DEFINE sent == tickets \o [k \in 1..helpers[j] |-> j]
<1>t. /\ pc \in [Procs -> CallerStates \cup WorkerStates]
      /\ mine \in [Procs -> Jobs \cup {NoJob}]
      /\ parts \in [Jobs -> Int] /\ helpers \in [Jobs -> Nat]
      /\ tickets \in Seq(Jobs) /\ c \in Procs
  BY StateTypes DEF LInv, Procs
<1>1. /\ mine' = [mine EXCEPT ![c] = j] /\ pc' = [pc EXCEPT ![c] = "loop"]
      /\ parts' = [parts EXCEPT ![j] = helpers[j] + 1]
      /\ tickets' = sent
      /\ UNCHANGED <<round, next, failed, failure, ran, arenas, kept, result>>
  BY <1>j DEF Send, Participants
<1>2. Fresh(j) /\ result[j] = Pending /\ parts[j] = 0
  BY <1>j DEF LInv, Lifecycle, Send, Fresh
<1>3. TicketsOf(j) = {} /\ WorkingOn(j) = {}
  BY <1>2, NobodyLeft
<1>4. mine[c] = NoJob
  BY <1>t DEF LInv, TypeInv, AtWork, Send, AtWorkStates, ParticipantStates
<1>5. ASSUME NEW k \in Jobs
      PROVE  /\ k = j  => WorkingOn(k)' = {c}
             /\ k # j => WorkingOn(k)' = WorkingOn(k)
  BY <1>t, <1>1, <1>3, <1>4, <1>5, JobsNotNoJob DEF WorkingOn
<1>6. ASSUME NEW k \in Jobs
      PROVE  Cardinality(TicketsOf(k)') =
               Cardinality(TicketsOf(k)) + (IF k = j THEN helpers[j] ELSE 0)
  <2>1. Cardinality(Places(sent, k)) =
          Cardinality(Places(tickets, k)) + (IF j = k THEN helpers[j] ELSE 0)
    BY <1>t, SendCount
  <2>2. TicketsOf(k)' = Places(sent, k) /\ TicketsOf(k) = Places(tickets, k)
    BY <1>1 DEF TicketsOf, Places
  <2> QED
    BY <2>1, <2>2, Zenon
<1>7. ParticipantsCounted'
  <2>1. ASSUME NEW k \in Jobs, result[k] = Pending
        PROVE  parts'[k] = Cardinality(TicketsOf(k)') + Cardinality(WorkingOn(k)')
    <3>1. CASE k = j
      <4>1. Cardinality(WorkingOn(k)') = 1
        BY <1>5, <3>1, FS_Singleton
      <4>2. Cardinality(TicketsOf(k)') = helpers[j]
        <5>1. Cardinality(TicketsOf(j)) = 0
          BY <1>3, FS_EmptySet
        <5>2. Cardinality(TicketsOf(j)') = Cardinality(TicketsOf(j)) + helpers[j]
          BY <1>6
        <5>3. helpers[j] \in Nat
          BY <1>t
        <5> QED
          BY <3>1, <5>1, <5>2, <5>3
      <4> QED
        BY <1>t, <1>1, <3>1, <4>1, <4>2
    <3>2. CASE k # j
      <4>1. Cardinality(TicketsOf(k)) \in Nat
        BY <1>t, PlacesFinite DEF TicketsOf
      <4>2. Cardinality(TicketsOf(k)') = Cardinality(TicketsOf(k))
        BY <1>6, <3>2, <4>1
      <4>3. parts[k] = Cardinality(TicketsOf(k)) + Cardinality(WorkingOn(k))
        BY <2>1 DEF LInv, ParticipantsCounted
      <4>4. WorkingOn(k)' = WorkingOn(k) /\ parts'[k] = parts[k]
        BY <1>t, <1>1, <1>5, <3>2
      <4> QED
        BY <4>2, <4>3, <4>4
    <3> QED
      BY <3>1, <3>2
  <2> QED
    BY <1>1, <2>1 DEF ParticipantsCounted
<1>8. ASSUME NEW k \in Jobs, k # j
      PROVE  TicketsOf(k)' = TicketsOf(k)
  <2>1. Places(sent, k) = Places(tickets, k)
    <3>1. /\ [i \in 1..helpers[j] |-> j] \in Seq(Jobs)
          /\ Len([i \in 1..helpers[j] |-> j]) = helpers[j]
      <4>1. helpers[j] \in Nat
        BY <1>t
      <4>2. \A n \in Nat : /\ [i \in 1..n |-> j] \in Seq(Jobs)
                           /\ Len([i \in 1..n |-> j]) = n
        BY <1>t, RepeatType
      <4> QED
        BY <4>1, <4>2
    <3>2. /\ Len(sent) = Len(tickets) + helpers[j] /\ Len(tickets) \in Nat
          /\ \A i \in 1..Len(sent) :
               sent[i] = IF i <= Len(tickets) THEN tickets[i] ELSE j
      BY <1>t, <3>1, ConcatProperties
    <3> HIDE DEF sent
    <3> QED
      BY <1>t, <1>8, <3>2 DEF Places
  <2> QED
    BY <1>1, <2>1 DEF TicketsOf, Places
<1>9. ASSUME NEW k \in Jobs
      PROVE  LET d == k[1] IN
        /\ k[2] > round'[d] => Fresh(k)'
        /\ k[2] < round'[d] => result'[k] # Pending
        /\ k = JobOf(d)' =>
            /\ result'[k] # Pending <=> pc'[d] = "idle"
            /\ pc'[d] \in {"reserve", "started", "send"} => Fresh(k)'
            /\ pc'[d] \in AtWorkStates => mine'[d] = k
        /\ result'[k] # Pending => TicketsOf(k)' = {} /\ WorkingOn(k)' = {}
  <2>1. k[1] \in Callers /\ k[1] \in Procs /\ JobOf(k[1])' = JobOf(k[1])
    BY <1>1, JobFacts DEF LInv, JobOf
  <2>2. CASE k = j
    <3>1. j[2] = round[c]
      BY <1>j, JobFacts DEF LInv
    <3> QED
      BY <1>j, <1>t, <1>1, <1>2, <2>2, <3>1, JobFacts DEF LInv, Fresh, Pending
  <2>3. CASE k # j
    <3>1. Fresh(k)' <=> Fresh(k)
      BY <1>t, <1>1, <2>3 DEF Fresh
    <3>2. k = JobOf(k[1]) => k[1] # c
      BY <1>j, <2>3
    <3>3. k[1] # c => pc'[k[1]] = pc[k[1]] /\ mine'[k[1]] = mine[k[1]]
      BY <1>t, <1>1, <2>1
    <3> QED
      BY <1>1, <1>5, <1>8, <2>1, <2>3, <3>1, <3>2, <3>3 DEF LInv, Lifecycle
  <2> QED
    BY <2>2, <2>3
<1> QED
  BY <1>7, <1>9 DEF LInv, Lifecycle

\* A pool thread takes a ticket: one ticket less, one thread at work more.
LEMMA TakeTicketLInv ==
    ASSUME LInv, TypeInv', NEW w \in Workers, TakeTicket(w)
    PROVE  LInv'
<1>j. PICK j \in Jobs : j = Head(tickets)
  BY StateTypes, HeadTailProperties DEF LInv, TakeTicket
<1>t. /\ pc \in [Procs -> CallerStates \cup WorkerStates]
      /\ mine \in [Procs -> Jobs \cup {NoJob}]
      /\ parts \in [Jobs -> Int] /\ tickets \in Seq(Jobs) /\ tickets # <<>>
      /\ w \in Procs /\ w \notin Callers /\ j # NoJob
  BY StateTypes, JobsNotNoJob, WorkersAssumption DEF LInv, TakeTicket, Procs
<1>1. /\ mine' = [mine EXCEPT ![w] = j] /\ pc' = [pc EXCEPT ![w] = "loop"]
      /\ tickets' = Tail(tickets)
      /\ UNCHANGED <<round, next, failed, failure, ran, parts, arenas, kept, result>>
  BY <1>j DEF TakeTicket, shared
<1>2. mine[w] = NoJob
  BY <1>t DEF LInv, TypeInv, AtWork, TakeTicket, AtWorkStates, ParticipantStates
<1>3. ASSUME NEW k \in Jobs
      PROVE  /\ k = j  => WorkingOn(k)' = WorkingOn(k) \cup {w} /\ w \notin WorkingOn(k)
             /\ k # j => WorkingOn(k)' = WorkingOn(k)
  <2>1. \A u \in Procs : mine'[u] = IF u = w THEN j ELSE mine[u]
    BY <1>t, <1>1
  <2>2. WorkingOn(k) = {u \in Procs : mine[u] = k}
    BY DEF WorkingOn
  <2>3. WorkingOn(k)' = {u \in Procs : mine'[u] = k}
    BY DEF WorkingOn
  <2>4. k = j => WorkingOn(k)' = WorkingOn(k) \cup {w}
    BY <1>t, <2>1, <2>2, <2>3
  <2>5. k = j => w \notin WorkingOn(k)
    BY <1>t, <1>2, <2>2
  <2>6. k # j => WorkingOn(k)' = WorkingOn(k)
    BY <1>t, <1>2, <2>1, <2>2, <2>3, JobsNotNoJob
  <2> QED
    BY <2>4, <2>5, <2>6
<1>4. ASSUME NEW k \in Jobs
      PROVE  /\ Cardinality(TicketsOf(k)) =
                  Cardinality(TicketsOf(k)') + (IF j = k THEN 1 ELSE 0)
             /\ Cardinality(TicketsOf(k)') \in Nat
             /\ TicketsOf(k) = {} => TicketsOf(k)' = {}
  <2>1. Tail(tickets) \in Seq(Jobs)
    BY <1>t, HeadTailProperties
  <2>2. TicketsOf(k)' = Places(Tail(tickets), k) /\ TicketsOf(k) = Places(tickets, k)
    BY <1>1 DEF TicketsOf, Places
  <2>3. Cardinality(Places(tickets, k)) =
          Cardinality(Places(Tail(tickets), k)) + (IF Head(tickets) = k THEN 1 ELSE 0)
    BY <1>t, TakeCount
  <2>4. Cardinality(TicketsOf(k)) =
          Cardinality(TicketsOf(k)') + (IF j = k THEN 1 ELSE 0)
    BY <1>j, <2>2, <2>3, Zenon
  <2>5. /\ IsFiniteSet(TicketsOf(k)') /\ Cardinality(TicketsOf(k)') \in Nat
        /\ IsFiniteSet(TicketsOf(k))
    BY <1>t, <2>1, <2>2, PlacesFinite
  <2>6. ASSUME TicketsOf(k) = {}  PROVE TicketsOf(k)' = {}
    <3>1. Cardinality(TicketsOf(k)) = 0
      BY <2>6, FS_EmptySet
    <3>2. Cardinality(TicketsOf(k)') = 0
      BY <2>4, <2>5, <3>1
    <3> QED
      BY <2>5, <3>2, FS_EmptySet
  <2> QED
    BY <2>4, <2>5, <2>6
<1>5. Cardinality(WorkingOn(j)') = Cardinality(WorkingOn(j)) + 1
  <2> DEFINE W == WorkingOn(j)
  <2>1. IsFiniteSet(W) /\ w \notin W /\ WorkingOn(j)' = W \cup {w}
    BY <1>3, WorkingFinite
  <2> HIDE DEF W
  <2>2. Cardinality(W \cup {w}) = Cardinality(W) + 1
    BY <2>1, FS_AddElement
  <2> QED
    BY <2>1, <2>2 DEF W
<1>6. ParticipantsCounted'
  <2>1. ASSUME NEW k \in Jobs, result[k] = Pending
        PROVE  parts[k] = Cardinality(TicketsOf(k)') + Cardinality(WorkingOn(k)')
    <3>1. parts[k] = Cardinality(TicketsOf(k)) + Cardinality(WorkingOn(k))
      BY <2>1 DEF LInv, ParticipantsCounted
    <3>2. Cardinality(WorkingOn(k)) \in Nat
      BY WorkingFinite
    <3>3. CASE k = j
      <4>1. Cardinality(WorkingOn(k)') = Cardinality(WorkingOn(k)) + 1
        BY <1>5, <3>3
      <4>2. Cardinality(TicketsOf(k)) = Cardinality(TicketsOf(k)') + 1
        BY <1>4, <3>3
      <4>3. Cardinality(TicketsOf(k)') \in Nat
        BY <1>4
      <4> QED
        BY <3>1, <3>2, <4>1, <4>2, <4>3
    <3>4. CASE k # j
      <4>1. WorkingOn(k)' = WorkingOn(k)
        BY <1>3, <3>4
      <4>2. Cardinality(TicketsOf(k)) = Cardinality(TicketsOf(k)')
        BY <1>4, <3>4
      <4> QED
        BY <3>1, <4>1, <4>2
    <3> QED
      BY <3>3, <3>4
  <2> QED
    BY <1>1, <2>1 DEF ParticipantsCounted
<1>7. result[j] = Pending
  <2>1. 1 \in TicketsOf(j)
    BY <1>j, <1>t DEF TicketsOf, Places
  <2> QED
    BY <2>1 DEF LInv, Lifecycle
<1>8. ASSUME NEW k \in Jobs
      PROVE  LET d == k[1] IN
        /\ k[2] > round'[d] => Fresh(k)'
        /\ k[2] < round'[d] => result'[k] # Pending
        /\ k = JobOf(d)' =>
            /\ result'[k] # Pending <=> pc'[d] = "idle"
            /\ pc'[d] \in {"reserve", "started", "send"} => Fresh(k)'
            /\ pc'[d] \in AtWorkStates => mine'[d] = k
        /\ result'[k] # Pending => TicketsOf(k)' = {} /\ WorkingOn(k)' = {}
  <2>1. k[1] \in Callers /\ JobOf(k[1])' = JobOf(k[1])
    BY <1>1, JobFacts DEF LInv, JobOf
  <2>2. pc'[k[1]] = pc[k[1]] /\ mine'[k[1]] = mine[k[1]]
    BY <1>t, <1>1, <2>1 DEF Procs
  <2>3. Fresh(k)' <=> Fresh(k)
    BY <1>1 DEF Fresh
  <2>4. result[k] # Pending => TicketsOf(k)' = {} /\ WorkingOn(k)' = {}
    BY <1>3, <1>4, <1>7 DEF LInv, Lifecycle
  <2> QED
    BY <1>1, <2>1, <2>2, <2>3, <2>4 DEF LInv, Lifecycle
<1> QED
  BY <1>6, <1>8 DEF LInv, Lifecycle

\* A caller that begins its next loop finds the job of that round untouched.
LEMMA NextRound ==
    ASSUME LInv, NEW c \in Callers, pc[c] = "idle", round[c] < Rounds,
           NEW j, j = <<c, round[c] + 1>>
    PROVE  /\ j \in Jobs /\ j[1] = c
           /\ Fresh(j) /\ TicketsOf(j) = {} /\ WorkingOn(j) = {}
           /\ mine[c] = NoJob
           /\ \A k \in Jobs : k[1] = c /\ k[2] < round[c] + 1 => result[k] # Pending
<1>1. j \in Jobs /\ j[1] = c /\ j[2] = round[c] + 1 /\ round[c] \in Nat
  BY NextJob, StateTypes, BoundsAssumption DEF LInv, TypeInv
<1>2. Fresh(j)
  BY <1>1 DEF LInv, Lifecycle
<1>3. TicketsOf(j) = {} /\ WorkingOn(j) = {}
  BY <1>1, <1>2, NobodyLeft DEF Fresh
<1>4. mine[c] = NoJob
  BY DEF LInv, TypeInv, AtWork, AtWorkStates, ParticipantStates, Procs
<1>5. ASSUME NEW k \in Jobs, k[1] = c, k[2] < round[c] + 1
      PROVE  result[k] # Pending
  <2>1. k[2] < round[c] \/ k = JobOf(c)
    BY <1>1, <1>5, JobFacts DEF LInv
  <2> QED
    BY <1>5, <2>1 DEF LInv, Lifecycle
<1> QED
  BY <1>1, <1>2, <1>3, <1>4, <1>5

\* A plain loop returns something.
LEMMA PlainLoopOver ==
    ASSUME NEW n \in Counts, NEW B \in BadSets(n)
    PROVE  InOrder(n, B) # Pending
<1>1. n \in Nat /\ B \subseteq Nat
  BY CountsAssumption DEF BadSets
<1>2. CASE B = {}
  BY <1>1, <1>2, InOrderType DEF Succeeded, Pending
<1>3. CASE B # {}
  <2>1. InOrder(n, B) \in B
    BY <1>1, <1>3, InOrderType
  <2>2. InOrder(n, B) \in Nat
    BY <1>1, <2>1
  <2> QED
    BY <2>2 DEF Pending
<1> QED
  BY <1>2, <1>3

\* A loop with nothing to split is over in one step.
LEMMA RunInlineLInv ==
    ASSUME LInv, TypeInv', NEW c \in Callers, NEW n \in Counts,
           NEW B \in BadSets(n), RunInline(c, n, B)
    PROVE  LInv'
<1>j. PICK j : j = <<c, round[c] + 1>>
  OBVIOUS
<1>t. /\ round \in [Callers -> 0..Rounds] /\ result \in [Jobs -> Int]
      /\ ran \in [Jobs -> SUBSET Nat] /\ kept \in [Jobs -> SUBSET Nat]
  BY StateTypes DEF LInv
<1>1. /\ j \in Jobs /\ j[1] = c /\ j[2] = round[c] + 1
      /\ TicketsOf(j) = {} /\ WorkingOn(j) = {}
      /\ \A k \in Jobs : k[1] = c /\ k[2] < round[c] + 1 => result[k] # Pending
      /\ pc[c] = "idle"
  BY <1>j, NextRound DEF RunInline
<1>2. InOrder(n, B) # Pending
  BY PlainLoopOver
<1>3. /\ UNCHANGED <<pc, mine, next, failed, failure, parts, arenas, tickets>>
      /\ round' = [round EXCEPT ![c] = @ + 1]
      /\ result' = [result EXCEPT ![j] = InOrder(n, B)]
      /\ \A k \in Jobs \ {j} : ran'[k] = ran[k] /\ kept'[k] = kept[k]
  BY <1>j, <1>t DEF RunInline, thread, pool
<1>4. ASSUME NEW k \in Jobs
      PROVE  TicketsOf(k)' = TicketsOf(k) /\ WorkingOn(k)' = WorkingOn(k)
  BY <1>3 DEF TicketsOf, Places, WorkingOn
<1>5. result'[j] # Pending /\ \A k \in Jobs \ {j} : result'[k] = result[k]
  BY <1>t, <1>1, <1>2, <1>3
<1>6. ParticipantsCounted'
  BY <1>3, <1>4, <1>5 DEF LInv, ParticipantsCounted
<1>7. ASSUME NEW k \in Jobs
      PROVE  LET d == k[1] IN
        /\ k[2] > round'[d] => Fresh(k)'
        /\ k[2] < round'[d] => result'[k] # Pending
        /\ k = JobOf(d)' =>
            /\ result'[k] # Pending <=> pc'[d] = "idle"
            /\ pc'[d] \in {"reserve", "started", "send"} => Fresh(k)'
            /\ pc'[d] \in AtWorkStates => mine'[d] = k
        /\ result'[k] # Pending => TicketsOf(k)' = {} /\ WorkingOn(k)' = {}
  <2>1. /\ k[1] \in Callers /\ k[2] \in Nat /\ round[k[1]] \in Nat
        /\ JobOf(k[1])' = <<k[1], round'[k[1]]>>
        /\ round'[k[1]] = IF k[1] = c THEN round[c] + 1 ELSE round[k[1]]
    BY <1>t, <1>3, JobFacts DEF LInv, JobOf
  <2>2. CASE k = j
    BY <1>1, <1>3, <1>4, <1>5, <2>1, <2>2 DEF AtWorkStates, ParticipantStates
  <2>3. CASE k # j
    <3>1. Fresh(k)' <=> Fresh(k)
      BY <1>3, <1>5, <2>3 DEF Fresh
    <3>2. CASE k[1] = c
      <4>1. k # JobOf(c)'
        BY <1>j, <2>1, <2>3, <3>2
      <4> QED
        BY <1>1, <1>3, <1>4, <1>5, <2>1, <2>3, <3>1, <3>2, <4>1
           DEF LInv, Lifecycle
    <3>3. CASE k[1] # c
      <4>1. JobOf(k[1])' = JobOf(k[1])
        BY <2>1, <3>3 DEF JobOf
      <4> QED
        BY <1>3, <1>4, <1>5, <2>1, <2>3, <3>1, <3>3, <4>1 DEF LInv, Lifecycle
    <3> QED
      BY <3>2, <3>3
  <2> QED
    BY <2>2, <2>3
<1> QED
  BY <1>6, <1>7 DEF LInv, Lifecycle

\* A caller that reserves helpers has begun a loop nobody works on yet.
LEMMA ReserveLInv ==
    ASSUME LInv, TypeInv', NEW c \in Callers, NEW n, NEW B, Reserve(c, n, B)
    PROVE  LInv'
<1>j. PICK j : j = <<c, round[c] + 1>>
  OBVIOUS
<1>t. /\ round \in [Callers -> 0..Rounds] /\ c \in Procs
      /\ pc \in [Procs -> CallerStates \cup WorkerStates]
  BY StateTypes DEF LInv, Procs
<1>1. /\ j \in Jobs /\ j[1] = c /\ j[2] = round[c] + 1 /\ Fresh(j)
      /\ \A k \in Jobs : k[1] = c /\ k[2] < round[c] + 1 => result[k] # Pending
  BY <1>j, NextRound DEF Reserve
<1>2. /\ UNCHANGED <<mine, next, failed, failure, ran, parts, arenas, kept, result,
                     tickets>>
      /\ round' = [round EXCEPT ![c] = @ + 1]
      /\ pc' = [pc EXCEPT ![c] = "reserve"]
  BY DEF Reserve, thread, shared
<1>3. ASSUME NEW k \in Jobs
      PROVE  /\ TicketsOf(k)' = TicketsOf(k) /\ WorkingOn(k)' = WorkingOn(k)
             /\ Fresh(k)' <=> Fresh(k)
  BY <1>2 DEF TicketsOf, Places, WorkingOn, Fresh
<1>4. ParticipantsCounted'
  BY <1>2, <1>3 DEF LInv, ParticipantsCounted
<1>5. ASSUME NEW k \in Jobs
      PROVE  LET d == k[1] IN
        /\ k[2] > round'[d] => Fresh(k)'
        /\ k[2] < round'[d] => result'[k] # Pending
        /\ k = JobOf(d)' =>
            /\ result'[k] # Pending <=> pc'[d] = "idle"
            /\ pc'[d] \in {"reserve", "started", "send"} => Fresh(k)'
            /\ pc'[d] \in AtWorkStates => mine'[d] = k
        /\ result'[k] # Pending => TicketsOf(k)' = {} /\ WorkingOn(k)' = {}
  <2>1. /\ k[1] \in Callers /\ k[1] \in Procs /\ k[2] \in Nat /\ round[k[1]] \in Nat
        /\ JobOf(k[1])' = <<k[1], round'[k[1]]>>
        /\ round'[k[1]] = IF k[1] = c THEN round[c] + 1 ELSE round[k[1]]
        /\ pc'[k[1]] = IF k[1] = c THEN "reserve" ELSE pc[k[1]]
    BY <1>t, <1>2, JobFacts DEF LInv, JobOf
  <2>2. CASE k = j
    BY <1>1, <1>2, <1>3, <2>1, <2>2 DEF Fresh, AtWorkStates, ParticipantStates
  <2>3. CASE k # j
    <3>1. CASE k[1] = c
      <4>1. k # JobOf(c)'
        BY <1>j, <2>1, <2>3, <3>1
      <4> QED
        BY <1>1, <1>2, <1>3, <2>1, <3>1, <4>1 DEF LInv, Lifecycle
    <3>2. CASE k[1] # c
      <4>1. JobOf(k[1])' = JobOf(k[1])
        BY <2>1, <3>2 DEF JobOf
      <4> QED
        BY <1>2, <1>3, <2>1, <3>2, <4>1 DEF LInv, Lifecycle
    <3> QED
      BY <3>1, <3>2
  <2> QED
    BY <2>2, <2>3
<1> QED
  BY <1>4, <1>5 DEF LInv, Lifecycle

\* A caller that leaves its loop's job over, with nobody left, keeps the
\* invariant.
LEMMA OverStep ==
    ASSUME LInv, TypeInv', NEW c \in Callers, NEW j \in Jobs, j = JobOf(c),
           pc' = [pc EXCEPT ![c] = "idle"],
           TicketsOf(j) = {}, WorkingOn(j)' = {}, result'[j] # Pending,
           mine[c] \in {j, NoJob}, mine' = [mine EXCEPT ![c] = NoJob],
           \A k \in Jobs \ {j} :
             /\ arenas'[k] = arenas[k] /\ kept'[k] = kept[k]
             /\ result'[k] = result[k],
           UNCHANGED <<round, next, failed, failure, ran, parts, tickets>>
    PROVE  LInv'
<1>t. /\ pc \in [Procs -> CallerStates \cup WorkerStates] /\ c \in Procs
      /\ mine \in [Procs -> Jobs \cup {NoJob}] /\ j[1] = c /\ j # NoJob
  BY StateTypes, JobsNotNoJob DEF LInv, Procs, JobOf
<1>1. ASSUME NEW k \in Jobs
      PROVE  TicketsOf(k)' = TicketsOf(k)
  BY DEF TicketsOf, Places
<1>2. ASSUME NEW k \in Jobs, k # j
      PROVE  /\ WorkingOn(k)' = WorkingOn(k)
             /\ Fresh(k)' <=> Fresh(k)
  <2>1. WorkingOn(k)' = WorkingOn(k)
    BY <1>t, <1>2, JobsNotNoJob DEF WorkingOn
  <2> QED
    BY <1>2, <2>1 DEF Fresh
<1>3. ParticipantsCounted'
  BY <1>1, <1>2 DEF LInv, ParticipantsCounted
<1>4. ASSUME NEW k \in Jobs
      PROVE  LET d == k[1] IN
        /\ k[2] > round'[d] => Fresh(k)'
        /\ k[2] < round'[d] => result'[k] # Pending
        /\ k = JobOf(d)' =>
            /\ result'[k] # Pending <=> pc'[d] = "idle"
            /\ pc'[d] \in {"reserve", "started", "send"} => Fresh(k)'
            /\ pc'[d] \in AtWorkStates => mine'[d] = k
        /\ result'[k] # Pending => TicketsOf(k)' = {} /\ WorkingOn(k)' = {}
  <2>1. k[1] \in Callers /\ k[1] \in Procs /\ JobOf(k[1])' = JobOf(k[1])
    BY JobFacts DEF LInv, JobOf
  <2>2. CASE k = j
    <3>1. ~(j[2] > round[c])
      BY <1>t, JobFacts DEF LInv
    <3>2. pc'[c] = "idle"
      BY <1>t
    <3> QED
      BY <1>t, <1>1, <2>2, <3>1, <3>2 DEF AtWorkStates, ParticipantStates
  <2>3. CASE k # j
    <3>1. k = JobOf(k[1]) => k[1] # c
      BY <2>3
    <3>2. k[1] # c => pc'[k[1]] = pc[k[1]] /\ mine'[k[1]] = mine[k[1]]
      BY <1>t, <2>1
    <3> QED
      BY <1>1, <1>2, <2>1, <2>3, <3>1, <3>2 DEF LInv, Lifecycle
  <2> QED
    BY <2>2, <2>3
<1> QED
  BY <1>3, <1>4 DEF LInv, Lifecycle

\* When the failing caller finds state.0 at 1, it is the last participant.
LEMMA LastOne ==
    ASSUME LInv, NEW c \in Callers, ReturnFailing(c), NEW j \in Jobs, j = JobOf(c)
    PROVE  /\ mine[c] = j /\ result[j] = Pending
           /\ TicketsOf(j) = {} /\ WorkingOn(j) = {c}
<1>1. mine[c] = j /\ result[j] = Pending /\ c \in WorkingOn(j)
  BY AtWorkFacts DEF ReturnFailing, AtWorkStates, Procs
<1>2. parts[j] <= 1 /\ parts[j] \in Int
  BY StateTypes DEF LInv, ReturnFailing, OthersDone
<1>3. /\ IsFiniteSet(TicketsOf(j)) /\ Cardinality(TicketsOf(j)) \in Nat
      /\ IsFiniteSet(WorkingOn(j)) /\ Cardinality(WorkingOn(j)) \in Nat
  BY StateTypes, PlacesFinite, WorkingFinite DEF LInv, TicketsOf
<1>4. parts[j] = Cardinality(TicketsOf(j)) + Cardinality(WorkingOn(j))
  BY <1>1 DEF LInv, ParticipantsCounted
<1>5. /\ IsFiniteSet(WorkingOn(j) \ {c})
      /\ Cardinality(WorkingOn(j) \ {c}) = Cardinality(WorkingOn(j)) - 1
  BY <1>1, <1>3, FS_RemoveElement
<1>6. Cardinality(WorkingOn(j) \ {c}) \in Nat
  BY <1>5, FS_CardinalityType
<1>7. Cardinality(TicketsOf(j)) = 0 /\ Cardinality(WorkingOn(j) \ {c}) = 0
  BY <1>2, <1>3, <1>4, <1>5, <1>6
<1>8. TicketsOf(j) = {} /\ WorkingOn(j) \ {c} = {}
  BY <1>3, <1>5, <1>7, FS_EmptySet
<1> QED
  BY <1>1, <1>8

\* The caller returns when everyone is done, the failing one when everyone
\* else is.
LEMMA ReturnLInv ==
    ASSUME LInv, TypeInv', NEW c \in Callers, Return(c) \/ ReturnFailing(c)
    PROVE  LInv'
<1>j. PICK j \in Jobs : j = JobOf(c)
  BY ThisJob DEF LInv, Return, ReturnFailing
<1>t. /\ pc \in [Procs -> CallerStates \cup WorkerStates] /\ c \in Procs
      /\ mine \in [Procs -> Jobs \cup {NoJob}] /\ parts \in [Jobs -> Int]
      /\ result \in [Jobs -> Int] /\ arenas \in [Jobs -> SUBSET SUBSET Nat]
      /\ kept \in [Jobs -> SUBSET Nat]
      /\ failure[j].index # Pending
  <2>1. failure[j].index \in Nat \cup {-1}
    BY <1>j, StateTypes DEF LInv
  <2> QED
    BY <2>1, StateTypes DEF LInv, Procs, Pending
<1>1. CASE Return(c)
  <2>1. mine[c] = NoJob /\ pc[c] # "idle"
    BY <1>t, <1>1
       DEF LInv, TypeInv, AtWork, Return, AtWorkStates, ParticipantStates
  <2>2. result[j] = Pending
    BY <1>j, <2>1 DEF LInv, Lifecycle, JobOf
  <2>3. TicketsOf(j) = {} /\ WorkingOn(j) = {}
    BY <1>j, <1>1, <2>2, NobodyLeft DEF Return, EveryoneDone
  <2>4. mine' = [mine EXCEPT ![c] = NoJob] /\ WorkingOn(j)' = {}
    BY <1>t, <1>1, <2>1, <2>3 DEF Return, thread, WorkingOn
  <2>5. result'[j] # Pending
    BY <1>j, <1>t, <1>1 DEF Return, Succeeded, Pending
  <2>6. /\ pc' = [pc EXCEPT ![c] = "idle"]
        /\ \A k \in Jobs \ {j} : arenas'[k] = arenas[k] /\ kept'[k] = kept[k]
                                 /\ result'[k] = result[k]
        /\ UNCHANGED <<round, next, failed, failure, ran, parts, tickets>>
    BY <1>j, <1>t, <1>1 DEF Return, pool
  <2> QED
    BY <1>j, <2>1, <2>3, <2>4, <2>5, <2>6, OverStep
<1>2. CASE ReturnFailing(c)
  <2>1. /\ mine[c] = j /\ TicketsOf(j) = {} /\ WorkingOn(j) = {c}
    BY <1>j, <1>2, LastOne
  <2>2. mine' = [mine EXCEPT ![c] = NoJob]
    BY <1>2 DEF ReturnFailing
  <2>3. WorkingOn(j)' = {}
    BY <1>t, <2>1, <2>2, JobsNotNoJob DEF WorkingOn
  <2>4. result'[j] # Pending
    BY <1>j, <1>t, <1>2 DEF ReturnFailing
  <2>5. /\ pc' = [pc EXCEPT ![c] = "idle"]
        /\ \A k \in Jobs \ {j} : arenas'[k] = arenas[k] /\ kept'[k] = kept[k]
                                 /\ result'[k] = result[k]
        /\ UNCHANGED <<round, next, failed, failure, ran, parts, tickets>>
    BY <1>j, <1>t, <1>2 DEF ReturnFailing, shared, pool
  <2> QED
    BY <1>j, <2>1, <2>2, <2>3, <2>4, <2>5, OverStep
<1> QED
  BY <1>1, <1>2

\* Initially no loop has begun and nobody works.
LEMMA InitLInv == Init => LInv
<1> SUFFICES ASSUME Init PROVE LInv
  OBVIOUS
<1>1. TypeInv
  BY InitTypeInv
<1>2. ASSUME NEW j \in Jobs
      PROVE  /\ Fresh(j) /\ TicketsOf(j) = {} /\ WorkingOn(j) = {}
             /\ j[1] \in Callers /\ round[j[1]] = 0 /\ j[2] > 0
  <2>1. j[1] \in Callers /\ j[2] > 0
    BY BoundsAssumption DEF Jobs
  <2> QED
    BY <2>1, JobsNotNoJob DEF Init, Fresh, TicketsOf, Places, WorkingOn
<1>3. Lifecycle
  <2> SUFFICES ASSUME NEW j \in Jobs
               PROVE  LET c == j[1] IN
        /\ j[2] > round[c] => Fresh(j)
        /\ j[2] < round[c] => result[j] # Pending
        /\ j = JobOf(c) =>
            /\ result[j] # Pending <=> pc[c] = "idle"
            /\ pc[c] \in {"reserve", "started", "send"} => Fresh(j)
            /\ pc[c] \in AtWorkStates => mine[c] = j
        /\ result[j] # Pending => TicketsOf(j) = {} /\ WorkingOn(j) = {}
    BY DEF Lifecycle
  <2>1. j[2] \in Nat /\ j # JobOf(j[1])
    BY <1>1, <1>2, JobFacts
  <2> QED
    BY <1>2, <2>1
<1>4. ParticipantsCounted
  <2>1. Cardinality({}) = 0
    BY FS_EmptySet
  <2> QED
    <3> SUFFICES ASSUME NEW j \in Jobs
                 PROVE  parts[j] = Cardinality(TicketsOf(j))
                                   + Cardinality(WorkingOn(j))
      BY DEF ParticipantsCounted
    <3>1. parts[j] = 0
      BY <1>2 DEF Fresh
    <3>2. Cardinality(TicketsOf(j)) = 0 /\ Cardinality(WorkingOn(j)) = 0
      BY <1>2, <2>1
    <3> QED
      BY <3>1, <3>2
<1> QED
  BY <1>1, <1>3, <1>4 DEF LInv

LEMMA StepLInv == LInv /\ [Next]_vars => LInv'
<1> SUFFICES ASSUME LInv, [Next]_vars PROVE LInv'
  OBVIOUS
<1>t. TypeInv'
  BY StepTypeInv DEF LInv
<1>p. /\ pc \in [Procs -> CallerStates \cup WorkerStates]
      /\ Callers \subseteq Procs /\ Workers \cap Callers = {}
  BY StateTypes, WorkersAssumption DEF LInv, Procs
<1>1. ASSUME NEW c \in Callers, Begin(c)  PROVE LInv'
  BY <1>t, <1>1, RunInlineLInv, ReserveLInv DEF Begin
<1>2. ASSUME NEW c \in Callers,
             \/ StartThread(c) \/ CountThread(c) \/ Reserved(c)
             \/ Sleep(c) \/ SpuriousWake(c)
      PROVE  LInv'
  <2>1. /\ UNCHANGED <<round, mine, next, failed, failure, ran, parts, arenas,
                       kept, result, tickets>>
    BY <1>2 DEF StartThread, CountThread, Reserved, Sleep, SpuriousWake, thread,
                shared, pool
  <2>2. ASSUME NEW d \in Callers
        PROVE  /\ pc'[d] = "idle" <=> pc[d] = "idle"
               /\ pc'[d] \in {"reserve", "started", "send"} =>
                    pc[d] \in {"reserve", "started", "send"}
               /\ pc'[d] \in AtWorkStates => pc[d] \in AtWorkStates
    BY <1>p, <1>2 DEF StartThread, CountThread, Reserved, Sleep, SpuriousWake,
                      AtWorkStates, ParticipantStates
  <2> QED
    BY <1>t, <2>1, <2>2, MoveStep
<1>3. ASSUME NEW c \in Callers, CallerStep(c)  PROVE LInv'
  <2>1. CASE Participate(c)
    BY <1>p, <1>t, <2>1, ParticipateLInv
  <2> QED
    BY <1>t, <1>2, <1>3, <2>1, SendLInv, ReturnLInv DEF CallerStep
<1>4. ASSUME NEW w \in Workers, WorkerStep(w)  PROVE LInv'
  BY <1>t, <1>4, TakeTicketLInv, ParticipateLInv DEF WorkerStep, Procs
<1>5. CASE UNCHANGED vars
  BY <1>t, <1>5, MoveStep DEF vars, thread, input, shared, pool
<1> QED
  BY <1>1, <1>2, <1>3, <1>4, <1>5 DEF Next, Over

\* Each loop's participants are counted exactly, whatever the interleaving.
THEOREM Participants_Counted == Spec => []LInv
<1> QED
  BY InitLInv, StepLInv, PTL DEF Spec

\* par.rs l.35-37: a thread works on a job only while the call that owns it
\* has not returned.
THEOREM NobodyOutlives == Spec => []NobodyOutlivesTheLoop
<1>1. LInv => NobodyOutlivesTheLoop
  <2> SUFFICES ASSUME LInv, NEW t \in Procs, mine[t] # NoJob
               PROVE  result[mine[t]] = Pending /\ mine[t] = JobOf(mine[t][1])
    BY DEF NobodyOutlivesTheLoop
  <2>1. pc[t] \in AtWorkStates
    BY DEF LInv, TypeInv, AtWork
  <2> QED
    BY <2>1, AtWorkFacts
<1> QED
  BY <1>1, Participants_Counted, PTL
-----------------------------------------------------------------------------
(* Growth in the shared arena. *)

LEMMA GrowthTypes ==
    ASSUME TypeInv
    PROVE  /\ pc \in [Procs -> CallerStates \cup WorkerStates]
           /\ growth \in [Jobs -> Procs \cup {None}] /\ top \in [Jobs -> Nat]
           /\ seen \in [Procs -> Nat]
           /\ given \in [Jobs -> SUBSET (Nat \X Nat)]
BY DEF TypeInv, TypeOK, PcOK, GrowthOK, ThreadOK

\* A thread that is growing works on a job.
LEMMA GrowingFacts ==
    ASSUME TypeInv, NEW t \in Procs, pc[t] \in {"body", "growing"}
    PROVE  mine[t] \in Jobs
BY WorkersJob DEF AtWorkStates, ParticipantStates

LEMMA LockGrowthStep ==
    ASSUME TypeInv, GrowthInv, NEW t \in Procs, LockGrowth(t)
    PROVE  GrowthInv'
<1>j. PICK j \in Jobs : j = mine[t]
  BY GrowingFacts DEF LockGrowth
<1>1. /\ growth[j] = None /\ growth' = [growth EXCEPT ![j] = t]
      /\ seen' = [seen EXCEPT ![t] = top[j]]
      /\ pc' = [pc EXCEPT ![t] = "growing"]
      /\ UNCHANGED <<mine, top, given>>
  BY <1>j DEF LockGrowth, Unlocked
<1>2. ASSUME NEW u \in Procs, pc'[u] = "growing"
      PROVE  growth'[mine'[u]] = u /\ seen'[u] = top'[mine'[u]]
  <2>1. CASE u = t
    BY <1>j, <1>1, <2>1, GrowthTypes
  <2>2. CASE u # t
    <3>1. /\ pc[u] = "growing" /\ growth[mine[u]] = u /\ seen[u] = top[mine[u]]
      BY <1>1, <1>2, <2>2, GrowthTypes DEF GrowthInv
    <3>2. mine[u] \in Jobs
      BY <3>1, GrowingFacts
    <3>3. mine[u] # j
      BY <1>1, <3>1, NoneAssumption
    <3> QED
      BY <1>1, <2>2, <3>1, <3>2, <3>3, GrowthTypes
  <2> QED
    BY <2>1, <2>2
<1> QED
  BY <1>1, <1>2 DEF GrowthInv

LEMMA GrowStep ==
    ASSUME TypeInv, GrowthInv, NEW t \in Procs, Grow(t)
    PROVE  GrowthInv'
<1>j. PICK j \in Jobs : j = mine[t]
  BY GrowingFacts DEF Grow
<1>0. /\ growth[j] = t /\ seen[t] = top[j] /\ seen[t] \in Nat
      /\ given[j] \subseteq Nat \X Nat /\ top[j] \in Nat
  BY <1>j, GrowthTypes DEF Grow, GrowthInv
<1>1. /\ top' = [top EXCEPT ![j] = seen[t] + 1]
      /\ given' = [given EXCEPT ![j] = @ \cup {<<at[t], seen[t]>>}]
      /\ growth' = [growth EXCEPT ![j] = None]
      /\ pc'[t] # "growing" /\ \A u \in Procs \ {t} : pc'[u] = pc[u]
      /\ \A u \in Procs \ {t} : seen'[u] = seen[u]
      /\ mine' = mine
  BY <1>j, GrowthTypes DEF Grow, EndIteration
<1>2. ASSUME NEW u \in Procs, pc'[u] = "growing"
      PROVE  growth'[mine'[u]] = u /\ seen'[u] = top'[mine'[u]]
  <2>1. /\ u # t /\ pc[u] = "growing" /\ growth[mine[u]] = u
        /\ seen[u] = top[mine[u]]
    BY <1>1, <1>2 DEF GrowthInv
  <2>2. mine[u] \in Jobs /\ mine[u] # j
    BY <1>0, <2>1, GrowingFacts
  <2> QED
    BY <1>1, <2>1, <2>2, GrowthTypes
<1>3. ASSUME NEW k \in Jobs, NEW p \in given'[k]
      PROVE  p[2] < top'[k] /\ \A q \in given'[k] : p[2] = q[2] => p = q
  <2>1. CASE k # j
    BY <1>1, <1>3, <2>1, GrowthTypes DEF GrowthInv
  <2>2. CASE k = j
    <3>1. top'[j] = top[j] + 1 /\ given'[j] = given[j] \cup {<<at[t], top[j]>>}
      BY <1>0, <1>1, GrowthTypes
    <3>2. \A q \in given[j] : q[2] < top[j] /\ q[2] \in Nat
      BY <1>0 DEF GrowthInv
    <3>3. \A q \in given'[j] : q[2] = top[j] => q = <<at[t], top[j]>>
      BY <1>0, <3>1, <3>2
    <3>4. \A q \in given'[j] : q[2] < top'[j]
      BY <1>0, <3>1, <3>2
    <3>5. ASSUME NEW q \in given'[j], p[2] = q[2]  PROVE p = q
      <4>1. CASE p \in given[j] /\ q \in given[j]
        BY <3>5, <4>1 DEF GrowthInv
      <4>2. CASE p \notin given[j] \/ q \notin given[j]
        <5>1. p[2] = top[j] /\ q[2] = top[j]
          BY <1>3, <2>2, <3>1, <3>5, <4>2
        <5> QED
          BY <1>3, <2>2, <3>3, <3>5, <5>1
      <4> QED
        BY <4>1, <4>2
    <3> QED
      BY <1>3, <2>2, <3>4, <3>5
  <2> QED
    BY <2>1, <2>2
<1> QED
  BY <1>2, <1>3 DEF GrowthInv

\* The other steps leave the arena, its lock and who is growing alone.
LEMMA GrowthFrame ==
    ASSUME GrowthInv, UNCHANGED <<growth, top, given, seen>>,
           \A u \in Procs : pc'[u] = "growing" =>
                              pc[u] = "growing" /\ mine'[u] = mine[u]
    PROVE  GrowthInv'
BY DEF GrowthInv

LEMMA StepGrowth == TypeInv /\ GrowthInv /\ [Next]_vars => GrowthInv'
<1> SUFFICES ASSUME TypeInv, GrowthInv, [Next]_vars PROVE GrowthInv'
  OBVIOUS
<1>t. /\ pc \in [Procs -> CallerStates \cup WorkerStates]
      /\ mine \in [Procs -> Jobs \cup {NoJob}]
      /\ Callers \subseteq Procs /\ Workers \subseteq Procs
  BY StateTypes DEF Procs
<1>1. ASSUME NEW t \in Procs, Participate(t)  PROVE GrowthInv'
  <2>1. CASE CheckFailed(t)
    BY <1>t, <2>1, GrowthFrame DEF CheckFailed, thread, shared
  <2>2. CASE TakeChunk(t)
    BY <1>t, <2>2, GrowthFrame DEF TakeChunk
  <2>3. CASE Iterate(t)
    BY <1>t, <2>3, GrowthFrame DEF Iterate, EndIteration
  <2>4. CASE Leave(t)
    BY <1>t, <2>4, GrowthFrame DEF Leave, Finish
  <2>5. CASE FailIteration(t)
    BY <1>t, <2>5, GrowthFrame DEF FailIteration, AfterFailing, thread
  <2> QED
    BY <1>1, <2>1, <2>2, <2>3, <2>4, <2>5, LockGrowthStep, GrowStep
       DEF Participate
<1>2. ASSUME NEW c \in Callers,
             \/ Begin(c) \/ StartThread(c) \/ CountThread(c) \/ Reserved(c)
             \/ Send(c) \/ Sleep(c) \/ SpuriousWake(c) \/ Return(c)
             \/ ReturnFailing(c)
      PROVE  GrowthInv'
  <2>1. UNCHANGED <<growth, top, given, seen>>
    BY <1>2 DEF Begin, RunInline, Reserve, StartThread, CountThread, Reserved,
                Send, Sleep, SpuriousWake, Return, ReturnFailing, thread, shared
  <2>2. \A u \in Procs : pc'[u] = "growing" =>
                           pc[u] = "growing" /\ mine'[u] = mine[u]
    BY <1>t, <1>2
       DEF Begin, RunInline, Reserve, StartThread, CountThread, Reserved, Send,
           Sleep, SpuriousWake, Return, ReturnFailing, thread
  <2> QED
    BY <2>1, <2>2, GrowthFrame
<1>3. ASSUME NEW w \in Workers, TakeTicket(w) \/ Uncount(w) \/ Report(w)
      PROVE  GrowthInv'
  BY <1>t, <1>3, GrowthFrame
     DEF TakeTicket, Uncount, Report, Finish, thread, shared
<1>4. CASE UNCHANGED vars
  BY <1>4, GrowthFrame DEF vars, thread, shared
<1> QED
  BY <1>t, <1>1, <1>2, <1>3, <1>4 DEF Next, Over, CallerStep, WorkerStep

LEMMA GrowthAlways == Spec => [](TypeInv /\ GrowthInv)
<1>1. Init => TypeInv /\ GrowthInv
  BY InitTypeInv DEF Init, GrowthInv, Procs
<1>2. TypeInv /\ GrowthInv /\ [Next]_vars => (TypeInv /\ GrowthInv)'
  BY StepTypeInv, StepGrowth
<1> QED
  BY <1>1, <1>2, PTL DEF Spec

\* par.rs l.46: two threads that grow collections in the shared arena are
\* never given the same memory.
THEOREM NoSharedMemory == Spec => []GrowthsApart
<1>1. GrowthInv => GrowthsApart
  BY DEF GrowthInv, GrowthsApart
<1> QED
  BY <1>1, GrowthAlways, PTL
-----------------------------------------------------------------------------
(* The helpers a job can count on, with one caller. *)

\* The pool threads in the pool, and those of them that wait for a ticket.
AliveStates == ParticipantStates \cup {"recv", "uncount"}
Alive       == {w \in Workers : pc[w] \in AliveStates}
Waiting     == {w \in Workers : pc[w] = "recv"}

\* Pool.live counts the threads in the pool, except one that the caller has
\* started and not counted yet; no more tickets are about to be sent, or
\* wait in the channel, than there are threads that wait for one.
HelpersInv ==
    /\ \A c \in Callers :
         /\ live + (IF pc[c] = "started" THEN 1 ELSE 0) = Cardinality(Alive)
         /\ pc[c] = "send" => helpers[JobOf(c)] <= Cardinality(Waiting)
    /\ Len(tickets) <= Cardinality(Waiting)

LEMMA AliveFacts ==
    /\ IsFiniteSet(Alive) /\ IsFiniteSet(Waiting)
    /\ Cardinality(Alive) \in Nat /\ Cardinality(Waiting) \in Nat
    /\ Cardinality(Alive) <= Cardinality(Workers)
    /\ Cardinality(Workers) \in Nat
<1>1. IsFiniteSet(Workers) /\ Alive \in SUBSET Workers /\ Waiting \in SUBSET Workers
  BY WorkersAssumption DEF Alive, Waiting
<1> QED
  BY <1>1, FS_Subset, FS_CardinalityType

LEMMA OneMore ==
    ASSUME NEW S, IsFiniteSet(S), NEW x, NEW T, T = S \cup {x}
    PROVE  /\ Cardinality(T) \in Nat /\ Cardinality(T) >= Cardinality(S)
           /\ x \notin S => Cardinality(T) = Cardinality(S) + 1
<1>1. Cardinality(S) \in Nat
  BY FS_CardinalityType
<1>2. Cardinality(T) = IF x \in S THEN Cardinality(S) ELSE Cardinality(S) + 1
  BY FS_AddElement
<1> QED
  BY <1>1, <1>2

\* While the only caller is outside of a loop nobody works: the channel is
\* empty and every thread in the pool waits.
LEMMA NobodyBefore ==
    ASSUME LInv, NEW c, Callers = {c},
           pc[c] \in {"idle", "reserve", "started", "send"}
    PROVE  /\ tickets = <<>>
           /\ \A w \in Workers : pc[w] \notin AtWorkStates
           /\ Alive = Waiting
<1>1. ASSUME NEW j \in Jobs
      PROVE  TicketsOf(j) = {} /\ WorkingOn(j) = {}
  <2>1. j[1] = c /\ round[c] \in Nat /\ j[2] \in Nat
        /\ (j[2] = round[c] => j = JobOf(c))
    BY JobFacts DEF LInv
  <2>2. CASE result[j] # Pending
    BY <2>2 DEF LInv, Lifecycle
  <2>3. CASE result[j] = Pending
    <3>1. Fresh(j)
      BY <2>1, <2>3 DEF LInv, Lifecycle
    <3> QED
      BY <2>3, <3>1, NobodyLeft DEF Fresh
  <2> QED
    BY <2>2, <2>3
<1>2. tickets = <<>>
  <2>1. tickets \in Seq(Jobs)
    BY StateTypes DEF LInv
  <2>2. ASSUME tickets # <<>>  PROVE FALSE
    <3>1. Len(tickets) \in Nat /\ Len(tickets) > 0 /\ tickets[1] \in Jobs
      BY <2>1, <2>2
    <3>2. 1 \in TicketsOf(tickets[1])
      BY <3>1 DEF TicketsOf, Places
    <3> QED
      BY <1>1, <3>1, <3>2
  <2> QED
    BY <2>2
<1>3. ASSUME NEW w \in Workers, pc[w] \in AtWorkStates  PROVE FALSE
  <2>1. w \in Procs
    BY DEF Procs
  <2>2. mine[w] \in Jobs /\ w \in WorkingOn(mine[w])
    BY <1>3, <2>1, AtWorkFacts
  <2> QED
    BY <1>1, <2>2
<1>4. Alive = Waiting
  BY <1>3 DEF Alive, Waiting, AliveStates, AtWorkStates
<1> QED
  BY <1>2, <1>3, <1>4

\* A step that takes no thread into or out of the pool, nor to or from its
\* wait for a ticket, and counts none.
LEMMA HelpersFrame ==
    ASSUME LInv, HelpersInv, UNCHANGED <<live, tickets>>,
           \A w \in Workers :
             /\ pc'[w] = "recv" <=> pc[w] = "recv"
             /\ pc'[w] \in AliveStates <=> pc[w] \in AliveStates,
           \A c \in Callers :
             /\ pc'[c] = "started" <=> pc[c] = "started"
             /\ pc'[c] = "send" =>
                  pc[c] = "send" /\ UNCHANGED <<helpers, round>>
    PROVE  HelpersInv'
<1>1. Alive' = Alive /\ Waiting' = Waiting
  BY DEF Alive, Waiting
<1> QED
  BY <1>1 DEF HelpersInv, JobOf

LEMMA ParticipateHelpers ==
    ASSUME LInv, HelpersInv, NEW c, Callers = {c}, NEW t \in Procs, Participate(t)
    PROVE  HelpersInv'
<1>p. /\ pc \in [Procs -> CallerStates \cup WorkerStates]
      /\ Callers \subseteq Procs /\ Workers \subseteq Procs
      /\ c \notin Workers /\ c \in Callers
      /\ pc[t] \in AtWorkStates
      /\ mine[t] \in Jobs
  <2>1. pc[t] \in AtWorkStates
    BY DEF Participate, CheckFailed, TakeChunk, Iterate, LockGrowth, Grow, Leave,
           FailIteration, AtWorkStates, ParticipantStates
  <2> QED
    BY <2>1, StateTypes, WorkersAssumption, WorkersJob DEF LInv, Procs
<1>1. CASE CheckFailed(t) \/ TakeChunk(t) \/ Iterate(t) \/ LockGrowth(t)
           \/ Grow(t) \/ FailIteration(t)
  <2>1. PICK s \in ParticipantStates \cup {"waitLast", "uncount"} :
          /\ pc' = [pc EXCEPT ![t] = s]
          /\ t \in Workers => s # "waitLast"
    BY <1>p, <1>1 DEF CheckFailed, TakeChunk, Iterate, LockGrowth, Grow,
         FailIteration, EndIteration, AfterFailing, ParticipantStates, Procs
  <2>2. UNCHANGED <<live, tickets, round, helpers>>
    BY <1>1 DEF CheckFailed, TakeChunk, Iterate, LockGrowth, Grow,
         FailIteration, pool, input, shared
  <2>3. pc[t] \in ParticipantStates
    BY <1>1 DEF CheckFailed, TakeChunk, Iterate, LockGrowth, Grow,
         FailIteration, ParticipantStates
  <2>4. ASSUME NEW w \in Workers
        PROVE  /\ pc'[w] = "recv" <=> pc[w] = "recv"
               /\ pc'[w] \in AliveStates <=> pc[w] \in AliveStates
    BY <1>p, <2>1, <2>3 DEF AliveStates, ParticipantStates
  <2>5. /\ pc'[c] = "started" <=> pc[c] = "started"
        /\ pc'[c] = "send" <=> pc[c] = "send"
    BY <1>p, <2>1, <2>3 DEF ParticipantStates
  <2> QED
    BY <2>2, <2>4, <2>5, HelpersFrame
<1>2. CASE Leave(t)
  <2>1. /\ UNCHANGED <<live, tickets, round, helpers>>
        /\ pc[t] = "leave"
        /\ t \in Workers => pc'[t] = "recv"
        /\ t \notin Workers => pc'[t] = "wait"
        /\ \A w \in Workers \ {t} : pc'[w] = pc[w]
        /\ pc'[c] \notin {"started", "send"} \/ pc'[c] = pc[c]
    <3>1. mine[t][1] \in Callers
      BY <1>p, JobFacts DEF LInv
    <3>2. ASSUME NEW u \in Procs, u # t
          PROVE  pc'[u] = pc[u] \/ (u = c /\ pc'[u] \in {"wait", "waitLast"})
      BY <1>2, <3>1, <3>2 DEF Leave, Finish
    <3>3. pc'[t] = IF t \in Callers THEN "wait" ELSE "recv"
      BY <1>2 DEF Leave, Finish
    <3> QED
      BY <1>p, <1>2, <3>2, <3>3 DEF Leave, pool, input, Procs
  <2>2. CASE t \in Workers
    <3>1. Alive' = Alive /\ Waiting' = Waiting \cup {t}
      BY <2>1, <2>2 DEF Alive, Waiting, AliveStates, ParticipantStates
    <3>2. Cardinality(Waiting') >= Cardinality(Waiting)
          /\ Cardinality(Waiting') \in Nat
      BY <3>1, AliveFacts, OneMore
    <3>3. pc[c] # "started" /\ pc[c] # "send"
      BY <1>p, <2>2, NobodyBefore
    <3>4. pc'[c] # "started" /\ pc'[c] # "send"
      BY <2>1, <3>3
    <3>5. Len(tickets) \in Nat
      BY StateTypes DEF LInv
    <3> QED
      BY <1>p, <2>1, <3>1, <3>2, <3>3, <3>4, <3>5, AliveFacts DEF HelpersInv
  <2>3. CASE t \notin Workers
    <3>1. t = c
      BY <2>3 DEF Procs
    <3>2. \A w \in Workers : pc'[w] = pc[w]
      BY <2>1, <2>3
    <3> QED
      BY <2>1, <2>3, <3>1, <3>2, HelpersFrame
  <2> QED
    BY <2>2, <2>3
<1> QED
  BY <1>1, <1>2 DEF Participate

LEMMA ReserveHelpers ==
    ASSUME LInv, HelpersInv, NEW c, Callers = {c},
           Cardinality(Workers) <= MaxUsize,
           StartThread(c) \/ CountThread(c) \/ Reserved(c) \/ Send(c)
    PROVE  HelpersInv'
<1>p. /\ pc \in [Procs -> CallerStates \cup WorkerStates]
      /\ Callers \subseteq Procs /\ Workers \subseteq Procs
      /\ c \notin Workers /\ c \in Callers
      /\ live \in Nat /\ live <= MaxUsize /\ MaxUsize \in Nat
  BY StateTypes, WorkersAssumption, UsizeAssumption
     DEF LInv, TypeInv, TypeOK, PoolOK, Procs
<1>q. tickets = <<>> /\ Alive = Waiting
  BY NobodyBefore DEF StartThread, CountThread, Reserved, Send
<1>1. CASE StartThread(c)
  <2>1. PICK w \in Workers :
          /\ pc[w] = "unborn"
          /\ pc' = [pc EXCEPT ![w] = "recv", ![c] = "started"]
    BY <1>1 DEF StartThread
  <2>2. pc'[w] = "recv" /\ pc'[c] = "started" /\ pc[c] = "reserve"
        /\ \A u \in Workers \ {w} : pc'[u] = pc[u]
    BY <1>p, <1>1, <2>1 DEF StartThread
  <2>3. /\ Alive' = Alive \cup {w} /\ w \notin Alive
        /\ Waiting' = Waiting \cup {w}
    BY <2>1, <2>2 DEF Alive, Waiting, AliveStates, ParticipantStates
  <2>4. /\ Cardinality(Alive') = Cardinality(Alive) + 1
        /\ Cardinality(Waiting') \in Nat
    BY <1>q, <2>3, AliveFacts, OneMore
  <2>5. UNCHANGED <<live, tickets>>
    BY <1>1 DEF StartThread, pool
  <2>6. live = Cardinality(Alive)
    BY <1>p, <2>2, AliveFacts DEF HelpersInv
  <2> QED
    BY <1>p, <1>q, <2>2, <2>4, <2>5, <2>6, AliveFacts DEF HelpersInv
<1>2. CASE CountThread(c)
  <2>1. /\ pc[c] = "started" /\ pc'[c] = "reserve"
        /\ \A w \in Workers : pc'[w] = pc[w]
        /\ tickets' = tickets
        /\ live' = IF live = MaxUsize THEN 0 ELSE live + 1
    BY <1>p, <1>2 DEF CountThread
  <2>2. Alive' = Alive /\ Waiting' = Waiting
    BY <2>1 DEF Alive, Waiting
  <2>3. live + 1 = Cardinality(Alive)
    BY <1>p, <2>1 DEF HelpersInv
  <2>4. live' = live + 1
    BY <1>p, <2>1, <2>3, AliveFacts
  <2> QED
    BY <1>p, <2>1, <2>2, <2>3, <2>4, AliveFacts DEF HelpersInv
<1>3. CASE Reserved(c)
  <2>1. /\ pc[c] = "reserve" /\ pc'[c] = "send"
        /\ \A w \in Workers : pc'[w] = pc[w]
        /\ UNCHANGED <<tickets, live, round>>
        /\ helpers' = [helpers EXCEPT ![JobOf(c)] = Granted(JobOf(c))]
    BY <1>p, <1>3 DEF Reserved
  <2>2. Alive' = Alive /\ Waiting' = Waiting
    BY <2>1 DEF Alive, Waiting
  <2>3. live = Cardinality(Alive)
    BY <1>p, <2>1 DEF HelpersInv
  <2>4. JobOf(c)' = JobOf(c) /\ JobOf(c) \in Jobs
    BY <1>p, <2>1, ThisJob DEF JobOf, LInv
  <2>5. helpers'[JobOf(c)] = Granted(JobOf(c))
    BY <2>1, <2>4, StateTypes DEF LInv
  <2>6. Granted(JobOf(c)) <= live
    <3>1. count[JobOf(c)] \in Nat
      BY <2>4, StateTypes DEF LInv
    <3>2. Wanted(count[JobOf(c)]) \in Int
      BY <3>1, ThreadsAssumption DEF Wanted, Least
    <3> QED
      BY <1>p, <3>2 DEF Granted, Least
  <2> QED
    BY <1>p, <1>q, <2>1, <2>2, <2>3, <2>4, <2>5, <2>6, AliveFacts DEF HelpersInv
<1>4. CASE Send(c)
  <2>1. /\ pc[c] = "send" /\ pc'[c] = "loop"
        /\ \A w \in Workers : pc'[w] = pc[w]
        /\ live' = live
        /\ tickets' = tickets \o [k \in 1..helpers[JobOf(c)] |-> JobOf(c)]
    BY <1>p, <1>4 DEF Send
  <2>2. Alive' = Alive /\ Waiting' = Waiting
    BY <2>1 DEF Alive, Waiting
  <2>3. JobOf(c) \in Jobs /\ helpers[JobOf(c)] \in Nat
    BY <1>p, <2>1, ThisJob, StateTypes DEF LInv
  <2>4. Len(tickets') = helpers[JobOf(c)]
    <3>1. PICK j \in Jobs, n \in Nat : j = JobOf(c) /\ n = helpers[JobOf(c)]
      BY <2>3
    <3>2. <<>> \in Seq(Jobs) /\ Len(<<>>) = 0
      OBVIOUS
    <3>3. [k \in 1..n |-> j] \in Seq(Jobs) /\ Len([k \in 1..n |-> j]) = n
      BY <3>2, RepeatType
    <3>4. Len(<<>> \o [k \in 1..n |-> j]) = n
      BY <3>2, <3>3, ConcatProperties
    <3> QED
      BY <1>q, <2>1, <3>1, <3>4
  <2> QED
    BY <1>p, <2>1, <2>2, <2>3, <2>4, AliveFacts DEF HelpersInv
<1> QED
  BY <1>1, <1>2, <1>3, <1>4

LEMMA WorkerHelpers ==
    ASSUME LInv, HelpersInv, NEW c, Callers = {c}, NEW w \in Workers,
           WorkerStep(w)
    PROVE  HelpersInv'
<1>p. /\ pc \in [Procs -> CallerStates \cup WorkerStates]
      /\ Callers \subseteq Procs /\ Workers \subseteq Procs
      /\ c \notin Workers /\ c \in Callers /\ w # c /\ w \in Procs
      /\ live \in Nat
  BY StateTypes, WorkersAssumption DEF LInv, TypeInv, TypeOK, PoolOK, Procs
<1>1. CASE TakeTicket(w)
  <2>1. /\ pc[w] = "recv" /\ pc'[w] = "loop" /\ tickets # <<>>
        /\ \A u \in Procs \ {w} : pc'[u] = pc[u]
        /\ live' = live /\ tickets' = Tail(tickets)
    BY <1>p, <1>1 DEF TakeTicket
  <2>2. pc[c] # "started" /\ pc[c] # "send" /\ pc'[c] = pc[c]
    BY <1>p, <2>1, NobodyBefore
  <2>3. Alive' = Alive /\ Waiting' = Waiting \ {w} /\ w \in Waiting
    BY <1>p, <2>1 DEF Alive, Waiting, AliveStates, ParticipantStates
  <2>4. Cardinality(Waiting') = Cardinality(Waiting) - 1
    BY <2>3, AliveFacts, FS_RemoveElement
  <2>5. Len(tickets') = Len(tickets) - 1 /\ Len(tickets) \in Nat
    BY <2>1, StateTypes DEF LInv
  <2> QED
    BY <1>p, <2>1, <2>2, <2>3, <2>4, <2>5, AliveFacts DEF HelpersInv
<1>2. CASE Participate(w)
  BY <1>p, <1>2, ParticipateHelpers
<1>3. CASE Uncount(w)
  <2>1. /\ pc[w] = "uncount" /\ pc'[w] = "report"
        /\ \A u \in Procs \ {w} : pc'[u] = pc[u]
        /\ tickets' = tickets
        /\ live' = IF live = 0 THEN MaxUsize ELSE live - 1
    BY <1>p, <1>3 DEF Uncount
  <2>2. pc[c] # "started" /\ pc[c] # "send" /\ pc'[c] = pc[c]
    BY <1>p, <2>1, NobodyBefore DEF AtWorkStates
  <2>3. Alive' = Alive \ {w} /\ w \in Alive /\ Waiting' = Waiting
    BY <1>p, <2>1 DEF Alive, Waiting, AliveStates, ParticipantStates
  <2>4. Cardinality(Alive') = Cardinality(Alive) - 1
    BY <2>3, AliveFacts, FS_RemoveElement
  <2>5. live = Cardinality(Alive) /\ live # 0
    BY <1>p, <2>2, <2>3, AliveFacts, FS_EmptySet DEF HelpersInv
  <2>6. live' = live - 1
    BY <2>1, <2>5
  <2> QED
    BY <1>p, <2>1, <2>2, <2>3, <2>4, <2>5, <2>6, AliveFacts DEF HelpersInv
<1>4. CASE Report(w)
  <2>1. pc[w] = "report" /\ UNCHANGED <<live, tickets, round, helpers>>
    BY <1>4 DEF Report, pool, input
  <2>2. mine[w][1] \in Callers
    BY <1>p, <2>1, AtWorkFacts, JobFacts DEF LInv, AtWorkStates
  <2>3. ASSUME NEW u \in Procs, u # w
        PROVE  \/ pc'[u] = pc[u]
               \/ /\ u = c /\ pc[u] \in {"asleep", "asleepLast"}
                  /\ pc'[u] \in {"wait", "waitLast"}
    BY <1>4, <2>2, <2>3 DEF Report, Finish
  <2>4. pc'[w] = "parked"
    BY <1>p, <1>4 DEF Report, Finish
  <2>5. ASSUME NEW u \in Workers
        PROVE  /\ pc'[u] = "recv" <=> pc[u] = "recv"
               /\ pc'[u] \in AliveStates <=> pc[u] \in AliveStates
    BY <1>p, <2>1, <2>3, <2>4 DEF AliveStates, ParticipantStates
  <2>6. /\ pc'[c] = "started" <=> pc[c] = "started"
        /\ pc'[c] = "send" <=> pc[c] = "send"
    BY <1>p, <2>3
  <2> QED
    BY <2>1, <2>5, <2>6, HelpersFrame
<1> QED
  BY <1>1, <1>2, <1>3, <1>4 DEF WorkerStep

\* par.rs l.106-107: with one thread that runs `par for`, and no more pool
\* threads than a usize counts, every ticket in the channel has a pool thread
\* of its own that waits for it, whatever failed in the loops before.  (With
\* two callers this is false: the run parfor_callers shows what follows.)
THEOREM HelpersCounted ==
    ASSUME NEW CONSTANT c, Callers = {c}, Cardinality(Workers) <= MaxUsize
    PROVE  Spec => []HelpersCountedOn
<1>1. Init => LInv /\ HelpersInv
  <2> SUFFICES ASSUME Init PROVE HelpersInv
    BY InitLInv
  <2>1. c \notin Workers /\ c \in Callers
    BY WorkersAssumption
  <2>2. Alive = {} /\ Waiting = {}
    BY <2>1, WorkersAssumption
       DEF Init, Alive, Waiting, AliveStates, ParticipantStates, Procs
  <2> QED
    BY <2>1, <2>2, FS_EmptySet DEF Init, HelpersInv, Procs
<1>2. LInv /\ HelpersInv /\ [Next]_vars => (LInv /\ HelpersInv)'
  <2> SUFFICES ASSUME LInv, HelpersInv, [Next]_vars PROVE HelpersInv'
    BY StepLInv
  <2>p. /\ pc \in [Procs -> CallerStates \cup WorkerStates]
        /\ c \in Procs /\ Workers \subseteq Procs /\ c \notin Workers
    BY StateTypes, WorkersAssumption DEF LInv, Procs
  <2>1. CASE Begin(c) \/ Sleep(c) \/ SpuriousWake(c) \/ Return(c) \/ ReturnFailing(c)
    <3>1. /\ UNCHANGED <<live, tickets>>
          /\ \A w \in Workers : pc'[w] = pc[w]
          /\ pc[c] \notin {"started", "send"} /\ pc'[c] \notin {"started", "send"}
      BY <2>p, <2>1 DEF Begin, RunInline, Reserve, Sleep, SpuriousWake, Return,
                        ReturnFailing, pool
    <3> QED
      BY <3>1, HelpersFrame
  <2>2. CASE CallerStep(c)
    BY <2>p, <2>1, <2>2, ReserveHelpers, ParticipateHelpers DEF CallerStep
  <2>3. ASSUME NEW w \in Workers, WorkerStep(w)  PROVE HelpersInv'
    BY <2>3, WorkerHelpers
  <2>4. CASE UNCHANGED vars
    BY <2>4, HelpersFrame DEF vars, pool, input
  <2> QED
    BY <2>1, <2>2, <2>3, <2>4 DEF Next, Over
<1>3. HelpersInv => HelpersCountedOn
  BY DEF HelpersInv, HelpersCountedOn, Waiting
<1> QED
  BY <1>1, <1>2, <1>3, PTL DEF Spec
-----------------------------------------------------------------------------
(* How a loop's chunks are handed out, and what it has run when it is over. *)

\* A chunk begins inside the loop, and is at most Chunk(j) long.
LEMMA ChunkEndFacts ==
    ASSUME TypeInv, NEW t \in Procs, mine[t] \in Jobs
    PROVE  /\ Chunk(mine[t]) \in Nat \ {0}
           /\ ChunkEnd(t) \in Nat
           /\ ChunkEnd(t) <= start[t] + Chunk(mine[t])
           /\ ChunkEnd(t) <= count[mine[t]]
           /\ \A i \in Nat : i < start[t] + Chunk(mine[t]) /\ i < count[mine[t]]
                => i < ChunkEnd(t)
BY StateTypes, ChunkType DEF TypeInv, ChunkEnd, Least

\* What a running thread may rely on.
LEMMA RunningFacts ==
    ASSUME LInv, ChunksTaken, ChunksCovered, NEW t \in Procs, Running(t)
    PROVE  /\ mine[t] \in Jobs /\ t \in WorkingOn(mine[t])
           /\ result[mine[t]] = Pending /\ ~Fresh(mine[t])
           /\ InChunk(t)
           /\ start[t] \in Nat /\ at[t] \in Nat
           /\ Chunk(mine[t]) \in Nat \ {0}
           /\ at[t] < start[t] + Chunk(mine[t]) /\ at[t] < count[mine[t]]
           /\ Remaining(t) = at[t]..(ChunkEnd(t) - 1)
<1>1. /\ mine[t] \in Jobs /\ t \in WorkingOn(mine[t])
      /\ result[mine[t]] = Pending /\ ~Fresh(mine[t])
  BY AtWorkFacts DEF Running, AtWorkStates, ParticipantStates
<1>2. InChunk(t)
  BY DEF ChunksTaken
<1>3. /\ start[t] \in Nat /\ at[t] \in Nat /\ count[mine[t]] \in Nat
  BY <1>1, StateTypes DEF LInv
<1>4. at[t] < start[t] + Chunk(mine[t]) /\ at[t] < count[mine[t]]
  BY <1>1, <1>2, <1>3, ChunkEndFacts DEF LInv, InChunk
<1> QED
  BY <1>1, <1>2, <1>3, <1>4, ChunkEndFacts DEF LInv, Remaining, Running

\* A thread at work keeps its loop from being over or untouched.
AtWorkKeeps ==
    \A t \in Procs :
        pc[t] \in AtWorkStates =>
            mine[t] \in Jobs /\ result[mine[t]] = Pending /\ ~Fresh(mine[t])

LEMMA AtWorkKept == LInv => AtWorkKeeps
BY AtWorkFacts DEF AtWorkKeeps

LEMMA AtWorkKeptNext == LInv' => AtWorkKeeps'
BY AtWorkKept, PTL

\* A step that neither moves a running thread nor changes what the running
\* threads' loops have handed out, run or recorded.
LEMMA QuietStep ==
    ASSUME LInv, LInv', ChunksTaken, ChunksCovered,
           \A u \in Procs :
             /\ Running(u)' <=> Running(u)
             /\ Running(u) => /\ mine'[u] = mine[u] /\ start'[u] = start[u]
                              /\ at'[u] = at[u]
                              /\ pc'[u] = "growing" =>
                                   pc[u] = "growing" \/ at[u] \notin bad[mine[u]],
           \A k \in Jobs :
             result'[k] = Pending =>
               \/ /\ result[k] = Pending
                  /\ count'[k] = count[k] /\ bad'[k] = bad[k]
                  /\ helpers'[k] = helpers[k] /\ next'[k] = next[k]
                  /\ failed'[k] = failed[k] /\ failure'[k] = failure[k]
                  /\ ran'[k] = ran[k]
               \/ Fresh(k)' /\ bad'[k] \subseteq 0..(count'[k] - 1)
    PROVE  ChunksTaken' /\ ChunksCovered'
<1>1. ASSUME NEW u \in Procs, Running(u)'
      PROVE  LET k == mine[u] IN
             /\ Running(u) /\ mine'[u] = k /\ k \in Jobs
             /\ start'[u] = start[u] /\ at'[u] = at[u]
             /\ count'[k] = count[k] /\ bad'[k] = bad[k]
             /\ helpers'[k] = helpers[k] /\ next'[k] = next[k]
             /\ failed'[k] = failed[k] /\ failure'[k] = failure[k]
             /\ ran'[k] = ran[k]
             /\ pc'[u] = "growing" => at[u] \notin bad[k]
  <2>1. Running(u) /\ InChunk(u)
    BY <1>1 DEF ChunksTaken
  <2>2. pc'[u] \in AtWorkStates
    BY <1>1 DEF Running, AtWorkStates, ParticipantStates
  <2>3. mine'[u] \in Jobs /\ result'[mine'[u]] = Pending /\ ~Fresh(mine[u])'
    BY <2>2, AtWorkKeptNext DEF AtWorkKeeps
  <2>4. mine'[u] = mine[u]
    BY <2>1
  <2>5. ~Fresh(mine[u])' <=> ~(/\ next'[mine'[u]] = 0 /\ ~failed'[mine'[u]]
             /\ failure'[mine'[u]] = NoFailure /\ ran'[mine'[u]] = {}
             /\ parts'[mine'[u]] = 0 /\ arenas'[mine'[u]] = {}
             /\ kept'[mine'[u]] = {} /\ result'[mine'[u]] = Pending)
    BY DEF Fresh
  <2>6. PICK k \in Jobs : k = mine[u]
    BY <2>3, <2>4
  <2>7. result'[k] = Pending /\ ~Fresh(k)'
    BY <2>3, <2>4, <2>5, <2>6 DEF Fresh
  <2>8. pc'[u] = "growing" => at[u] \notin bad[k]
    BY <2>1, <2>6 DEF InChunk
  <2> QED
    BY <2>1, <2>4, <2>6, <2>7, <2>8
<1>2. ASSUME NEW u \in Procs, Running(u)'
      PROVE  /\ Chunk(mine[u])' = Chunk(mine[u]) /\ ChunkEnd(u)' = ChunkEnd(u)
             /\ Remaining(u)' = Remaining(u)
  BY <1>1, <1>2 DEF Chunk, ChunkEnd, Remaining, Running
<1>3. ASSUME NEW u \in Procs, Running(u)'
      PROVE  InChunk(u)'
  <2>1. InChunk(u)
    BY <1>1, <1>3 DEF ChunksTaken
  <2> QED
    BY <1>1, <1>2, <1>3, <2>1 DEF InChunk
<1>4. ASSUME NEW u \in Procs, Running(u)', NEW v \in Procs, v # u, Running(v)'
      PROVE  NoOverlap(u, v)'
  <2>1. NoOverlap(u, v)
    BY <1>1, <1>4 DEF ChunksTaken
  <2> QED
    BY <1>1, <1>2, <1>4, <2>1 DEF NoOverlap
<1>5. ChunksTaken'
  BY <1>3, <1>4 DEF ChunksTaken
<1>6. ASSUME NEW k \in Jobs, result'[k] = Pending
      PROVE  /\ bad'[k] \subseteq 0..(count'[k] - 1)
             /\ \A i \in ran'[k] : i < next'[k] /\ i < count'[k] /\ i \notin bad'[k]
             /\ \A i \in 0..(count'[k] - 1) : i < next'[k] => Covered(i, k)'
             /\ FailureRecorded(k)'
  <2>1. CASE Fresh(k)' /\ bad'[k] \subseteq 0..(count'[k] - 1)
    BY <2>1 DEF Fresh, FailureRecorded
  <2>2. CASE /\ result[k] = Pending
             /\ count'[k] = count[k] /\ bad'[k] = bad[k]
             /\ helpers'[k] = helpers[k] /\ next'[k] = next[k]
             /\ failed'[k] = failed[k] /\ failure'[k] = failure[k]
             /\ ran'[k] = ran[k]
    <3>1. FailureRecorded(k)'
      BY <2>2 DEF ChunksCovered, FailureRecorded, Chunk
    <3>2. ASSUME NEW i \in 0..(count[k] - 1), i < next[k]
          PROVE  Covered(i, k)'
      <4>1. CASE \E u \in WorkingOn(k) : i \in Remaining(u)
        <5>1. PICK u \in Procs : mine[u] = k /\ i \in Remaining(u)
          BY <4>1 DEF WorkingOn
        <5>2. Running(u)'
          BY <5>1 DEF Remaining, Running
        <5>3. u \in WorkingOn(k)' /\ i \in Remaining(u)'
          BY <1>1, <1>2, <5>1, <5>2 DEF WorkingOn
        <5> QED
          BY <5>3 DEF Covered
      <4>2. Covered(i, k)
        BY <2>2, <3>2 DEF ChunksCovered
      <4> QED
        BY <2>2, <4>1, <4>2 DEF Covered
    <3> QED
      BY <2>2, <3>1, <3>2 DEF ChunksCovered
  <2> QED
    BY <1>6, <2>1, <2>2
<1> QED
  BY <1>5, <1>6 DEF ChunksCovered

\* The chunk a thread takes is the first one not handed out: nobody has it.
LEMMA TakeChunkSafe ==
    ASSUME LInv, LInv', ChunksTaken, ChunksCovered, NEW t \in Procs, TakeChunk(t)
    PROVE  ChunksTaken' /\ ChunksCovered'
<1> DEFINE j == mine[t]
<1>t. /\ next \in [Jobs -> Nat] /\ count \in [Jobs -> Nat]
      /\ start \in [Procs -> Nat] /\ at \in [Procs -> Nat]
      /\ pc \in [Procs -> CallerStates \cup WorkerStates]
      /\ ran \in [Jobs -> SUBSET Nat]
      /\ failure \in [Jobs -> [start : Nat \cup {-1}, index : Nat \cup {-1}]]
  BY StateTypes DEF LInv
<1>0. j \in Jobs /\ Chunk(j) \in Nat \ {0} /\ result[j] = Pending /\ t \in WorkingOn(j)
  BY AtWorkFacts, ChunkType
     DEF LInv, TypeInv, TakeChunk, AtWorkStates, ParticipantStates
<1>1. /\ \A i \in ran[j] : i < next[j]
      /\ FailureRecorded(j)
      /\ \A i \in 0..(count[j] - 1) : i < next[j] => Covered(i, j)
  BY <1>0 DEF ChunksCovered
<1>2. ASSUME NEW u \in Procs, u # t, Running(u)'
      PROVE  /\ Running(u) /\ InChunk(u) /\ mine[u] \in Jobs
             /\ Chunk(mine[u]) \in Nat /\ InChunk(u)'
  <2>1. Running(u) /\ InChunk(u)
    BY <1>t, <1>2 DEF TakeChunk, Running, ChunksTaken
  <2>2. mine[u] \in Jobs /\ Chunk(mine[u]) \in Nat
    BY <2>1, RunningFacts
  <2>3. next'[mine[u]] >= next[mine[u]]
    BY <1>t, <1>0, <2>2 DEF TakeChunk
  <2>4. InChunk(u)'
    BY <1>t, <1>2, <2>1, <2>2, <2>3
       DEF TakeChunk, input, InChunk, Remaining, Running, ChunkEnd, Chunk
  <2> QED
    BY <2>1, <2>2, <2>4
<1>3. ASSUME Running(t)'
      PROVE  /\ next[j] < count[j] /\ start'[t] = next[j] /\ at'[t] = next[j]
             /\ next'[j] = next[j] + Chunk(j)
  BY <1>t, <1>0, <1>3 DEF TakeChunk, Running
<1>4. ASSUME Running(t)'
      PROVE  InChunk(t)'
  <2>1. at'[t] < ChunkEnd(t)'
    BY <1>t, <1>0, <1>3, <1>4 DEF TakeChunk, input, ChunkEnd, Chunk, Least
  <2>2. \A i \in ran'[j] : i \notin Remaining(t)'
    BY <1>t, <1>0, <1>1, <1>3, <1>4 DEF TakeChunk, Remaining, Running
  <2>3. failed'[j] => Apart(start'[t], failure'[j].start, Chunk(j))
    BY <1>t, <1>0, <1>1, <1>3, <1>4 DEF TakeChunk, FailureRecorded, Apart
  <2> QED
    BY <1>t, <1>0, <1>3, <1>4, <2>1, <2>2, <2>3
       DEF TakeChunk, input, InChunk, Chunk
<1>5. ASSUME NEW u \in Procs, u # t, Running(u)', Running(t)'
      PROVE  NoOverlap(t, u)' /\ NoOverlap(u, t)'
  BY <1>t, <1>0, <1>2, <1>3, <1>5
     DEF TakeChunk, input, NoOverlap, Apart, InChunk, Chunk
<1>6. ASSUME NEW u \in Procs, u # t, Running(u)',
             NEW v \in Procs, v # t, v # u, Running(v)'
      PROVE  NoOverlap(u, v)'
  BY <1>t, <1>2, <1>6 DEF TakeChunk, input, NoOverlap, Chunk, ChunksTaken
<1>7. ChunksTaken'
  BY <1>2, <1>4, <1>5, <1>6 DEF ChunksTaken
<1>8. /\ \A u \in Procs \ {t} : Remaining(u)' = Remaining(u)
      /\ Remaining(t) = {} /\ \A k \in Jobs : WorkingOn(k)' = WorkingOn(k)
  BY <1>t DEF TakeChunk, input, Remaining, ChunkEnd, Chunk, WorkingOn
<1>9. ASSUME NEW k \in Jobs, result'[k] = Pending,
             NEW i \in 0..(count'[k] - 1), i < next'[k]
      PROVE  Covered(i, k)'
  <2>1. CASE i < next[k]
    <3>1. Covered(i, k)
      BY <1>9, <2>1 DEF TakeChunk, input, ChunksCovered
    <3>2. CASE \E u \in WorkingOn(k) : i \in Remaining(u)
      BY <1>8, <3>2 DEF Covered, WorkingOn
    <3> QED
      BY <3>1, <3>2 DEF Covered, TakeChunk
  <2>2. CASE ~(i < next[k])
    <3>1. k = j /\ next[j] <= i /\ i < count[j] /\ i < next[j] + Chunk(j)
      BY <1>t, <1>0, <1>9, <2>2 DEF TakeChunk, input
    <3>2. Running(t)'
      BY <1>t, <1>0, <3>1 DEF TakeChunk, Running
    <3>3. i \in Remaining(t)'
      BY <1>t, <1>0, <1>3, <1>9, <3>1, <3>2
         DEF TakeChunk, input, Remaining, Running, ChunkEnd, Chunk, Least
    <3>4. t \in WorkingOn(k)'
      BY <1>0, <1>8, <3>1
    <3> QED
      BY <3>3, <3>4 DEF Covered
  <2> QED
    BY <2>1, <2>2
<1>10. ASSUME NEW k \in Jobs, result'[k] = Pending
       PROVE  /\ bad'[k] \subseteq 0..(count'[k] - 1)
              /\ \A i \in ran'[k] : i < next'[k] /\ i < count'[k] /\ i \notin bad'[k]
              /\ FailureRecorded(k)'
  <2>1. next'[k] >= next[k]
    BY <1>t, <1>0 DEF TakeChunk
  <2>2. Chunk(k) \in Nat
    BY ChunkType DEF LInv, TypeInv
  <2> QED
    BY <1>t, <1>10, <2>1, <2>2
       DEF TakeChunk, input, ChunksCovered, FailureRecorded, Chunk
<1>11. ChunksCovered'
  BY <1>9, <1>10 DEF ChunksCovered
<1> QED
  BY <1>7, <1>11

\* An iteration that ends moves its thread on in its chunk, and runs once.
LEMMA EndIterationSafe ==
    ASSUME LInv, LInv', ChunksTaken, ChunksCovered, NEW t \in Procs,
           Running(t), EndIteration(t), at[t] \notin bad[mine[t]],
           UNCHANGED <<round, mine, start, count, bad, helpers, next, failed,
                       failure, result>>
    PROVE  ChunksTaken' /\ ChunksCovered'
<1>j. PICK j \in Jobs : j = mine[t]
  BY RunningFacts
<1>t. /\ at \in [Procs -> Nat] /\ start \in [Procs -> Nat]
      /\ pc \in [Procs -> CallerStates \cup WorkerStates]
      /\ ran \in [Jobs -> SUBSET Nat] /\ count \in [Jobs -> Nat]
      /\ next \in [Jobs -> Nat]
      /\ failure \in [Jobs -> [start : Nat \cup {-1}, index : Nat \cup {-1}]]
  BY StateTypes DEF LInv
<1>0. /\ t \in WorkingOn(j) /\ InChunk(t)
      /\ start[t] \in Nat /\ at[t] \in Nat /\ Chunk(j) \in Nat \ {0}
      /\ at[t] < start[t] + Chunk(j) /\ at[t] < count[j]
      /\ Remaining(t) = at[t]..(ChunkEnd(t) - 1) /\ ChunkEnd(t) \in Nat
  BY <1>j, RunningFacts, ChunkEndFacts DEF LInv
<1>1. /\ ran' = [ran EXCEPT ![j] = @ \cup {at[t]}]
      /\ at' = [at EXCEPT ![t] = @ + 1]
      /\ pc' = [pc EXCEPT ![t] = IF at[t] + 1 < ChunkEnd(t) THEN "body" ELSE "loop"]
  BY <1>j DEF EndIteration
<1>2. \A k \in Jobs : Chunk(k)' = Chunk(k) /\ WorkingOn(k)' = WorkingOn(k)
  BY DEF Chunk, WorkingOn
<1>3. \A u \in Procs : mine[u] \in Jobs => ChunkEnd(u)' = ChunkEnd(u)
  BY <1>2 DEF ChunkEnd, Chunk
<1>4. ASSUME NEW u \in Procs, u # t, Running(u)'
      PROVE  /\ Running(u) /\ mine[u] \in Jobs /\ InChunk(u) /\ start[u] \in Nat
             /\ Chunk(mine[u]) \in Nat \ {0} /\ ChunkEnd(u) \in Nat
             /\ Remaining(u) = at[u]..(ChunkEnd(u) - 1) /\ at[u] \in Nat
             /\ Remaining(u)' = Remaining(u)
             /\ ChunkEnd(u) <= start[u] + Chunk(mine[u])
             /\ at'[u] = at[u] /\ pc'[u] = pc[u]
  <2>1. Running(u) /\ at'[u] = at[u] /\ pc'[u] = pc[u]
    BY <1>t, <1>1, <1>4 DEF Running
  <2>2. mine[u] \in Jobs
    BY <2>1, RunningFacts
  <2>3. Remaining(u)' = Remaining(u)
    BY <1>3, <2>1, <2>2 DEF Remaining
  <2> QED
    BY <2>1, <2>2, <2>3, RunningFacts, ChunkEndFacts DEF LInv
<1>5. ASSUME NEW u \in Procs, u # t, Running(u)'
      PROVE  /\ InChunk(u)'
             /\ NoOverlap(t, u)' /\ NoOverlap(u, t)'
  <2>0. NoOverlap(t, u) /\ NoOverlap(u, t) /\ InChunk(u) /\ Running(u)
    BY <1>4, <1>5 DEF ChunksTaken
  <2>1. NoOverlap(t, u)' /\ NoOverlap(u, t)'
    BY <1>j, <1>2, <1>4, <1>5, <2>0 DEF NoOverlap
  <2>2. \A i \in ran'[mine[u]] : i \notin Remaining(u)'
    <3>1. CASE mine[u] # j
      BY <1>t, <1>1, <1>4, <1>5, <2>0, <3>1 DEF InChunk
    <3>2. CASE mine[u] = j
      <4>1. Apart(start[t], start[u], Chunk(j))
        BY <1>j, <2>0, <3>2 DEF NoOverlap
      <4>2. start[t] <= at[t] /\ start[u] <= at[u]
        BY <1>0, <2>0 DEF InChunk
      <4>6. Chunk(j) \in Nat \ {0} /\ ChunkEnd(u) <= start[u] + Chunk(j)
        BY <1>4, <1>5, <3>2
      <4>7. start[t] + Chunk(j) <= start[u] \/ start[u] + Chunk(j) <= start[t]
        BY <4>1 DEF Apart
      <4>8. at[t] < at[u] \/ at[t] >= ChunkEnd(u)
        BY <1>0, <1>4, <1>5, <4>2, <4>6, <4>7
      <4>3. at[t] \notin Remaining(u)
        BY <1>0, <1>4, <1>5, <4>8
      <4>4. \A i \in ran[j] : i \notin Remaining(u)
        BY <2>0, <3>2 DEF InChunk
      <4>5. Remaining(u)' = Remaining(u) /\ ran'[j] = ran[j] \cup {at[t]}
        BY <1>t, <1>1, <1>4, <1>5
      <4> QED
        BY <3>2, <4>3, <4>4, <4>5
    <3> QED
      BY <3>1, <3>2
  <2>3. InChunk(u)'
    BY <1>2, <1>3, <1>4, <1>5, <2>0, <2>2 DEF InChunk
  <2> QED
    BY <2>1, <2>3
<1>6. ASSUME NEW u \in Procs, u # t, Running(u)',
             NEW v \in Procs, v # t, v # u, Running(v)'
      PROVE  NoOverlap(u, v)'
  <2>1. NoOverlap(u, v)
    BY <1>4, <1>6 DEF ChunksTaken
  <2> QED
    BY <1>2, <1>4, <1>6, <2>1 DEF NoOverlap
<1>7. ASSUME Running(t)'
      PROVE  InChunk(t)'
  <2>1. pc'[t] = "body" /\ at[t] + 1 < ChunkEnd(t) /\ at'[t] = at[t] + 1
    BY <1>t, <1>1, <1>7 DEF Running
  <2>2. ChunkEnd(t)' = ChunkEnd(t) /\ Chunk(j)' = Chunk(j)
    BY <1>j, <1>2, <1>3
  <2>3. Remaining(t)' = (at[t] + 1)..(ChunkEnd(t) - 1)
    BY <2>1, <2>2 DEF Remaining
  <2>4. \A i \in ran'[j] : i \notin Remaining(t)'
    <3>1. \A i \in ran[j] : i \notin Remaining(t)
      BY <1>j, <1>0 DEF InChunk
    <3>2. ran'[j] = ran[j] \cup {at[t]} /\ ran[j] \subseteq Nat
      BY <1>t, <1>1
    <3> QED
      BY <1>0, <2>3, <3>1, <3>2
  <2>5. /\ start[t] <= at[t] + 1 /\ start[t] + Chunk(j) <= next[j]
        /\ failed[j] => Apart(start[t], failure[j].start, Chunk(j))
    BY <1>j, <1>0 DEF InChunk
  <2> QED
    BY <1>j, <2>1, <2>2, <2>4, <2>5 DEF InChunk
<1>8. ChunksTaken'
  BY <1>5, <1>6, <1>7 DEF ChunksTaken
<1>9. ASSUME NEW k \in Jobs, result[k] = Pending
      PROVE  /\ bad'[k] \subseteq 0..(count'[k] - 1)
             /\ \A i \in ran'[k] : i < next'[k] /\ i < count'[k] /\ i \notin bad'[k]
             /\ \A i \in 0..(count'[k] - 1) : i < next'[k] => Covered(i, k)'
             /\ FailureRecorded(k)'
  <2>1. /\ bad[k] \subseteq 0..(count[k] - 1)
        /\ \A i \in ran[k] : i < next[k] /\ i < count[k] /\ i \notin bad[k]
        /\ \A i \in 0..(count[k] - 1) : i < next[k] => Covered(i, k)
        /\ FailureRecorded(k)
    BY <1>9 DEF ChunksCovered
  <2>2. FailureRecorded(k)'
    BY <1>2, <2>1 DEF FailureRecorded
  <2>3. \A i \in ran'[k] : i < next[k] /\ i < count[k] /\ i \notin bad[k]
    <3>1. start[t] + Chunk(j) <= next[j] /\ next[j] \in Nat
      BY <1>j, <1>t, <1>0 DEF InChunk
    <3> QED
      BY <1>j, <1>t, <1>0, <1>1, <2>1, <3>1
  <2>4. ASSUME NEW i \in 0..(count[k] - 1), i < next[k]
        PROVE  Covered(i, k)'
    <3>1. Covered(i, k) /\ ran[k] \subseteq ran'[k]
      BY <1>t, <1>1, <2>1, <2>4
    <3>2. CASE \E u \in WorkingOn(k) : i \in Remaining(u)
      <4>1. PICK u \in Procs : mine[u] = k /\ i \in Remaining(u)
        BY <3>2 DEF WorkingOn
      <4>2. CASE u # t
        <5>1. Running(u)'
          BY <1>t, <1>1, <4>1, <4>2 DEF Remaining, Running
        <5>2. i \in Remaining(u)' /\ u \in WorkingOn(k)'
          BY <1>4, <4>1, <4>2, <5>1 DEF WorkingOn
        <5> QED
          BY <5>2 DEF Covered
      <4>3. CASE u = t
        <5>1. k = j /\ at[t] <= i /\ i < ChunkEnd(t)
          BY <1>j, <1>0, <4>1, <4>3
        <5>2. CASE i = at[t]
          BY <1>t, <1>1, <5>1, <5>2 DEF Covered
        <5>3. CASE i # at[t]
          <6>1. at[t] + 1 <= i
            BY <1>0, <5>1, <5>3
          <6>2. pc'[t] = "body" /\ at'[t] = at[t] + 1
            BY <1>t, <1>0, <1>1, <5>1, <6>1
          <6>3. Remaining(t)' = (at[t] + 1)..(ChunkEnd(t) - 1)
            BY <1>j, <1>3, <6>2 DEF Remaining
          <6>4. i \in Remaining(t)' /\ t \in WorkingOn(k)'
            BY <1>0, <1>2, <5>1, <6>1, <6>3
          <6> QED
            BY <6>4 DEF Covered
        <5> QED
          BY <5>2, <5>3
      <4> QED
        BY <4>2, <4>3
    <3> QED
      BY <3>1, <3>2 DEF Covered
  <2> QED
    BY <2>1, <2>2, <2>3, <2>4
<1> QED
  BY <1>8, <1>9 DEF ChunksCovered

\* A failing iteration is recorded if its chunk is the lowest so far: what is
\* above it need not run any more.
LEMMA FailIterationSafe ==
    ASSUME LInv, LInv', ChunksTaken, ChunksCovered, NEW t \in Procs,
           FailIteration(t)
    PROVE  ChunksTaken' /\ ChunksCovered'
<1>j. PICK j \in Jobs : j = mine[t]
  BY RunningFacts DEF FailIteration, Running
<1>t. /\ pc \in [Procs -> CallerStates \cup WorkerStates]
      /\ failed \in [Jobs -> BOOLEAN] /\ next \in [Jobs -> Nat]
      /\ failure \in [Jobs -> [start : Nat \cup {-1}, index : Nat \cup {-1}]]
      /\ bad \in [Jobs -> SUBSET Nat]
  BY StateTypes DEF LInv
<1>0. /\ t \in WorkingOn(j) /\ InChunk(t) /\ Running(t)
      /\ start[t] \in Nat /\ at[t] \in Nat /\ Chunk(j) \in Nat \ {0}
      /\ at[t] < start[t] + Chunk(j) /\ at[t] < count[j]
      /\ Remaining(t) = at[t]..(ChunkEnd(t) - 1) /\ at[t] \in bad[j]
      /\ result[j] = Pending
  BY <1>j, RunningFacts DEF FailIteration, Running
<1> DEFINE won == [start |-> start[t], index |-> at[t]]
<1>1. /\ failure' = [failure EXCEPT ![j] = IF Wins(t) THEN won ELSE @]
      /\ failed' = [failed EXCEPT ![j] = TRUE]
      /\ ~Running(t)' /\ \A u \in Procs \ {t} : pc'[u] = pc[u]
      /\ UNCHANGED <<mine, start, at, count, bad, helpers, next, ran, result>>
  BY <1>j, <1>t
     DEF FailIteration, RecordFailure, AfterFailing, Running, thread, input
<1>2. \A k \in Jobs : Chunk(k)' = Chunk(k) /\ WorkingOn(k)' = WorkingOn(k)
  BY <1>1 DEF Chunk, WorkingOn
<1>3. ASSUME NEW u \in Procs, u # t, Running(u) \/ Running(u)'
      PROVE  /\ Running(u) /\ mine[u] \in Jobs /\ InChunk(u) /\ start[u] \in Nat
             /\ Remaining(u)' = Remaining(u) /\ ChunkEnd(u)' = ChunkEnd(u)
             /\ NoOverlap(t, u)
  <2>1. Running(u)
    BY <1>1, <1>3 DEF Running
  <2>2. ChunkEnd(u)' = ChunkEnd(u)
    BY <1>1, <1>2, <2>1, RunningFacts DEF ChunkEnd
  <2>3. Remaining(u)' = Remaining(u)
    BY <1>1, <1>3, <2>1, <2>2 DEF Remaining, Running
  <2> QED
    BY <1>0, <1>3, <2>1, <2>2, <2>3, RunningFacts DEF ChunksTaken
\* The recorded failure before and after.
<1>4. /\ FailureRecorded(j) /\ failed'[j]
      /\ failure'[j] = won \/ failure'[j] = failure[j]
      /\ ~failed[j] => failure'[j] = won
      /\ failed[j] => /\ failure'[j].index <= failure[j].index
                      /\ failure'[j] = failure[j] =>
                           failure[j].start + Chunk(j) <= start[t]
  <2>1. FailureRecorded(j)
    BY <1>0 DEF ChunksCovered
  <2>2. Wins(t) <=> failure[j] = NoFailure \/ start[t] < failure[j].start
    BY <1>j DEF Wins
  <2>3. failure'[j] = IF Wins(t) THEN won ELSE failure[j]
    BY <1>t, <1>1
  <2>4. ~failed[j] => failure'[j] = won
    BY <2>1, <2>2, <2>3 DEF FailureRecorded
  <2>5. ASSUME failed[j]
        PROVE  /\ failure'[j].index <= failure[j].index
               /\ failure'[j] = failure[j] => failure[j].start + Chunk(j) <= start[t]
    <3>1. Apart(start[t], failure[j].start, Chunk(j))
      BY <1>j, <1>0, <2>5 DEF InChunk
    <3>2. /\ failure[j].start <= failure[j].index
          /\ failure[j].start \in Int /\ failure[j].index \in Nat
      BY <1>t, <2>1, <2>5 DEF FailureRecorded
    <3>3. failure[j] # NoFailure
      BY <3>2 DEF NoFailure
    <3>4. CASE start[t] < failure[j].start
      <4>1. failure'[j] = won
        BY <2>2, <2>3, <3>4
      <4>2. start[t] + Chunk(j) <= failure[j].start
        BY <1>0, <3>1, <3>2, <3>4 DEF Apart
      <4>3. won # failure[j]
        BY <3>2, <3>4
      <4> QED
        BY <1>0, <3>2, <4>1, <4>2, <4>3
    <3>5. CASE ~(start[t] < failure[j].start)
      <4>1. failure'[j] = failure[j]
        BY <2>2, <2>3, <3>3, <3>5
      <4>2. failure[j].start + Chunk(j) <= start[t]
        BY <1>0, <3>1, <3>2, <3>5 DEF Apart
      <4> QED
        BY <3>2, <4>1, <4>2
    <3> QED
      BY <3>4, <3>5
  <2>6. failed'[j]
    BY <1>t, <1>1
  <2> QED
    BY <2>1, <2>3, <2>4, <2>5, <2>6
<1>5. ASSUME NEW u \in Procs, Running(u)'
      PROVE  InChunk(u)'
  <2>0. u # t
    BY <1>1, <1>5
  <2>1. /\ Running(u) /\ InChunk(u) /\ NoOverlap(t, u) /\ mine[u] \in Jobs
        /\ Remaining(u)' = Remaining(u) /\ ChunkEnd(u)' = ChunkEnd(u)
        /\ pc'[u] = pc[u]
    BY <1>1, <1>3, <1>5, <2>0
  <2>2. failed'[mine[u]] => Apart(start[u], failure'[mine[u]].start, Chunk(mine[u]))
    <3>1. CASE mine[u] = j
      <4>1. CASE failure'[j] = won
        <5>1. Apart(start[t], start[u], Chunk(j))
          BY <1>j, <2>1, <3>1 DEF NoOverlap
        <5> QED
          BY <3>1, <4>1, <5>1 DEF Apart
      <4>2. CASE failure'[j] = failure[j] /\ failed[j]
        BY <2>1, <3>1, <4>2 DEF InChunk
      <4> QED
        BY <1>4, <4>1, <4>2
    <3>2. CASE mine[u] # j
      BY <1>t, <1>1, <2>1, <3>2 DEF InChunk
    <3> QED
      BY <3>1, <3>2
  <2> QED
    BY <1>1, <1>2, <2>1, <2>2 DEF InChunk
<1>6. ASSUME NEW u \in Procs, Running(u)', NEW v \in Procs, v # u, Running(v)'
      PROVE  NoOverlap(u, v)'
  <2>1. NoOverlap(u, v) /\ mine[u] \in Jobs
    BY <1>1, <1>3, <1>6 DEF ChunksTaken
  <2> QED
    BY <1>1, <1>2, <2>1 DEF NoOverlap
<1>7. ChunksTaken'
  BY <1>5, <1>6 DEF ChunksTaken
<1>8. FailureRecorded(j)'
  <2>1. CASE failure'[j] = won
    BY <1>j, <1>0, <1>1, <1>2, <1>4, <2>1 DEF FailureRecorded, InChunk
  <2>2. CASE failure'[j] = failure[j] /\ failed[j]
    BY <1>1, <1>2, <1>4, <2>2 DEF FailureRecorded
  <2> QED
    BY <1>4, <2>1, <2>2
<1>9. ASSUME NEW k \in Jobs, result[k] = Pending
      PROVE  /\ bad'[k] \subseteq 0..(count'[k] - 1)
             /\ \A i \in ran'[k] : i < next'[k] /\ i < count'[k] /\ i \notin bad'[k]
             /\ \A i \in 0..(count'[k] - 1) : i < next'[k] => Covered(i, k)'
             /\ FailureRecorded(k)'
  <2>1. FailureRecorded(k)'
    <3>1. CASE k # j
      <4>1. FailureRecorded(k)
        BY <1>9 DEF ChunksCovered
      <4> QED
        BY <1>t, <1>1, <1>2, <3>1, <4>1 DEF FailureRecorded
    <3> QED
      BY <1>8, <3>1
  <2>2. ASSUME NEW i \in 0..(count[k] - 1), i < next[k]
        PROVE  Covered(i, k)'
    <3>1. Covered(i, k)
      BY <1>9, <2>2 DEF ChunksCovered
    <3>2. CASE \E u \in WorkingOn(k) : i \in Remaining(u)
      <4>1. PICK u \in Procs : mine[u] = k /\ i \in Remaining(u)
        BY <3>2 DEF WorkingOn
      <4>2. CASE u # t
        <5>1. Running(u)
          BY <4>1 DEF Remaining, Running
        <5>2. u \in WorkingOn(k)' /\ i \in Remaining(u)'
          BY <1>1, <1>3, <4>1, <4>2, <5>1 DEF WorkingOn
        <5> QED
          BY <5>2 DEF Covered
      <4>3. CASE u = t
        <5>1. k = j /\ at[t] <= i
          BY <1>j, <1>0, <4>1, <4>3
        <5>2. failure'[j].index <= i
          <6>1. CASE failure'[j] = won
            BY <5>1, <6>1
          <6>2. CASE failure'[j] = failure[j] /\ failed[j]
            <7>1. /\ failure[j].start + Chunk(j) <= start[t]
                  /\ failure[j].index < failure[j].start + Chunk(j)
                  /\ failure[j].start \in Int /\ failure[j].index \in Int
              BY <1>t, <1>4, <6>2 DEF FailureRecorded
            <7>2. start[t] <= at[t]
              BY <1>0 DEF InChunk
            <7> QED
              BY <1>0, <5>1, <6>2, <7>1, <7>2
          <6> QED
            BY <1>4, <6>1, <6>2
        <5> QED
          BY <1>4, <5>1, <5>2 DEF Covered
      <4> QED
        BY <4>2, <4>3
    <3>3. CASE failed[k] /\ failure[k].index <= i
      <4>1. CASE k = j
        <5>1. failure'[j].index <= failure[j].index /\ failure'[j].index \in Int
              /\ failure[j].index \in Int
          BY <1>0, <1>t, <1>4, <3>3, <4>1
        <5>2. failure'[j].index <= i
          BY <3>3, <4>1, <5>1
        <5> QED
          BY <1>4, <4>1, <5>2 DEF Covered
      <4>2. CASE k # j
        BY <1>t, <1>1, <3>3, <4>2 DEF Covered
      <4> QED
        BY <4>1, <4>2
    <3> QED
      BY <1>1, <3>1, <3>2, <3>3 DEF Covered
  <2> QED
    BY <1>1, <1>9, <2>1, <2>2 DEF ChunksCovered
<1> QED
  BY <1>1, <1>7, <1>9 DEF ChunksCovered
-----------------------------------------------------------------------------
(* Every step keeps the chunks apart and accounted for. *)

ChunksInv == LInv /\ ChunksTaken /\ ChunksCovered

\* The thread the steps of a loop move, when it takes, runs and fails nothing.
LEMMA ParticipateChunks ==
    ASSUME ChunksInv, LInv', NEW t \in Procs, Participate(t)
    PROVE  ChunksTaken' /\ ChunksCovered'
<1>t. /\ pc \in [Procs -> CallerStates \cup WorkerStates]
      /\ mine \in [Procs -> Jobs \cup {NoJob}]
      /\ start \in [Procs -> Nat] /\ at \in [Procs -> Nat]
  BY StateTypes DEF LInv, ChunksInv
<1>1. CASE CheckFailed(t)
  <2>1. \A u \in Procs : Running(u)' <=> Running(u)
    BY <1>t, <1>1 DEF CheckFailed, Running
  <2>2. UNCHANGED <<mine, start, at, count, bad, helpers, next, failed, failure,
                    ran, result>>
    BY <1>1 DEF CheckFailed, thread, input, shared
  <2>3. \A u \in Procs : pc'[u] = "growing" => pc[u] = "growing"
    BY <1>t, <1>1 DEF CheckFailed
  <2> QED
    BY <2>1, <2>2, <2>3, QuietStep DEF ChunksInv
<1>2. CASE TakeChunk(t)
  BY <1>2, TakeChunkSafe DEF ChunksInv
<1>3. CASE Iterate(t)
  BY <1>3, EndIterationSafe DEF Iterate, Running, input, ChunksInv
<1>4. CASE LockGrowth(t)
  <2>1. \A u \in Procs : Running(u)' <=> Running(u)
    BY <1>t, <1>4 DEF LockGrowth, Running
  <2>2. UNCHANGED <<mine, start, at, count, bad, helpers, next, failed, failure,
                    ran, result>>
    BY <1>4 DEF LockGrowth, input
  <2>3. \A u \in Procs : pc'[u] = "growing" =>
                           pc[u] = "growing" \/ at[u] \notin bad[mine[u]]
    BY <1>t, <1>4 DEF LockGrowth
  <2> QED
    BY <2>1, <2>2, <2>3, QuietStep DEF ChunksInv
<1>5. CASE Grow(t)
  <2>1. Running(t) /\ pc[t] = "growing"
    BY <1>5 DEF Grow, Running
  <2>2. at[t] \notin bad[mine[t]]
    BY <2>1 DEF ChunksInv, ChunksTaken, InChunk
  <2> QED
    BY <1>5, <2>1, <2>2, EndIterationSafe DEF Grow, input, ChunksInv
<1>6. CASE Leave(t)
  <2>1. UNCHANGED <<count, bad, helpers, next, failed, failure, ran, result>>
    BY <1>6 DEF Leave, input
  <2>2. ASSUME NEW u \in Procs
        PROVE  /\ Running(u)' <=> Running(u)
               /\ pc'[u] = "growing" => pc[u] = "growing"
               /\ u # t => /\ mine'[u] = mine[u] /\ start'[u] = start[u]
                           /\ at'[u] = at[u]
    BY <1>t, <1>6 DEF Leave, Finish, Running
  <2>3. ~Running(t)
    BY <1>6 DEF Leave, Running
  <2> QED
    BY <2>1, <2>2, <2>3, QuietStep DEF ChunksInv
<1>7. CASE FailIteration(t)
  BY <1>7, FailIterationSafe DEF ChunksInv
<1> QED
  BY <1>1, <1>2, <1>3, <1>4, <1>5, <1>6, <1>7 DEF Participate

\* A step that changes no loop but `j`, which is over or untouched after it,
\* and moves no running thread.
LEMMA OtherLoops ==
    ASSUME ChunksInv, LInv', NEW j \in Jobs,
           \/ result'[j] # Pending
           \/ Fresh(j)' /\ bad'[j] \subseteq 0..(count'[j] - 1)
           \/ /\ result[j] = Pending
              /\ count'[j] = count[j] /\ bad'[j] = bad[j]
              /\ helpers'[j] = helpers[j] /\ next'[j] = next[j]
              /\ failed'[j] = failed[j] /\ failure'[j] = failure[j]
              /\ ran'[j] = ran[j],
           \A k \in Jobs \ {j} :
              /\ count'[k] = count[k] /\ bad'[k] = bad[k]
              /\ helpers'[k] = helpers[k] /\ next'[k] = next[k]
              /\ failed'[k] = failed[k] /\ failure'[k] = failure[k]
              /\ ran'[k] = ran[k] /\ result'[k] = result[k],
           \A u \in Procs :
              /\ Running(u)' <=> Running(u)
              /\ Running(u) => /\ pc'[u] = pc[u] /\ mine'[u] = mine[u]
                               /\ start'[u] = start[u] /\ at'[u] = at[u]
    PROVE  ChunksTaken' /\ ChunksCovered'
<1>1. ASSUME NEW k \in Jobs, result'[k] = Pending
      PROVE  \/ /\ result[k] = Pending
                /\ count'[k] = count[k] /\ bad'[k] = bad[k]
                /\ helpers'[k] = helpers[k] /\ next'[k] = next[k]
                /\ failed'[k] = failed[k] /\ failure'[k] = failure[k]
                /\ ran'[k] = ran[k]
             \/ Fresh(k)' /\ bad'[k] \subseteq 0..(count'[k] - 1)
  BY <1>1
<1>2. ASSUME NEW u \in Procs
      PROVE  /\ Running(u)' <=> Running(u)
             /\ Running(u) => /\ mine'[u] = mine[u] /\ start'[u] = start[u]
                              /\ at'[u] = at[u]
                              /\ pc'[u] = "growing" =>
                                   pc[u] = "growing" \/ at[u] \notin bad[mine[u]]
  BY <1>2
<1> QED
  BY <1>1, <1>2, QuietStep DEF ChunksInv

LEMMA CallerChunks ==
    ASSUME ChunksInv, LInv', NEW c \in Callers,
           \/ Begin(c)
           \/ StartThread(c) \/ CountThread(c) \/ Reserved(c) \/ Send(c)
           \/ Sleep(c) \/ SpuriousWake(c) \/ Return(c) \/ ReturnFailing(c)
    PROVE  ChunksTaken' /\ ChunksCovered'
<1>t. /\ pc \in [Procs -> CallerStates \cup WorkerStates] /\ c \in Procs
      /\ mine \in [Procs -> Jobs \cup {NoJob}] /\ round \in [Callers -> 0..Rounds]
      /\ start \in [Procs -> Nat] /\ at \in [Procs -> Nat]
      /\ count \in [Jobs -> Nat] /\ bad \in [Jobs -> SUBSET Nat]
      /\ helpers \in [Jobs -> Nat] /\ result \in [Jobs -> Int]
      /\ ran \in [Jobs -> SUBSET Nat] /\ parts \in [Jobs -> Int]
  BY StateTypes DEF LInv, ChunksInv, Procs
<1>1. ASSUME Begin(c)  PROVE ChunksTaken' /\ ChunksCovered'
  <2>n. PICK n \in Counts :
          \E B \in BadSets(n) : RunInline(c, n, B) \/ Reserve(c, n, B)
    BY <1>1 DEF Begin
  <2>1. PICK B \in BadSets(n) : RunInline(c, n, B) \/ Reserve(c, n, B)
    BY <2>n
  <2>2. PICK j : j = <<c, round[c] + 1>>
    OBVIOUS
  <2>3. j \in Jobs /\ Fresh(j)
    BY <2>1, <2>2, NextRound DEF ChunksInv, RunInline, Reserve
  <2>4. \A u \in Procs :
          /\ Running(u)' <=> Running(u)
          /\ Running(u) => /\ pc'[u] = pc[u] /\ mine'[u] = mine[u]
                           /\ start'[u] = start[u] /\ at'[u] = at[u]
    BY <1>t, <2>1 DEF RunInline, Reserve, thread, Running
  <2>5. \A k \in Jobs \ {j} :
          /\ count'[k] = count[k] /\ bad'[k] = bad[k]
          /\ helpers'[k] = helpers[k] /\ next'[k] = next[k]
          /\ failed'[k] = failed[k] /\ failure'[k] = failure[k]
          /\ ran'[k] = ran[k] /\ result'[k] = result[k]
    BY <1>t, <2>1, <2>2 DEF RunInline, Reserve, shared
  <2>6. CASE RunInline(c, n, B)
    <3>1. result'[j] # Pending
      BY <1>t, <2>2, <2>3, <2>6, PlainLoopOver DEF RunInline
    <3> QED
      BY <2>3, <2>4, <2>5, <3>1, OtherLoops
  <2>7. CASE Reserve(c, n, B)
    <3>1. Fresh(j)'
      BY <2>3, <2>7 DEF Reserve, shared, Fresh
    <3>2. bad'[j] \subseteq 0..(count'[j] - 1)
      BY <1>t, <2>2, <2>3, <2>7 DEF Reserve, BadSets
    <3> QED
      BY <2>3, <2>4, <2>5, <3>1, <3>2, OtherLoops
  <2> QED
    BY <2>1, <2>6, <2>7
<1>2. ASSUME ~Begin(c)  PROVE ChunksTaken' /\ ChunksCovered'
  <2>0. PICK j \in Jobs : j = JobOf(c)
    BY <1>2, ThisJob
       DEF ChunksInv, LInv, StartThread, CountThread, Reserved, Send,
                         Sleep, SpuriousWake, Return, ReturnFailing
  <2>1. \A u \in Procs :
          /\ Running(u)' <=> Running(u)
          /\ Running(u) => /\ pc'[u] = pc[u] /\ mine'[u] = mine[u]
                           /\ start'[u] = start[u] /\ at'[u] = at[u]
    BY <1>t, <1>2
       DEF StartThread, CountThread, Reserved, Send, Sleep, SpuriousWake,
                      Return, ReturnFailing, thread, Running
  <2>2. UNCHANGED <<count, bad, next, failed, failure, ran>>
    BY <1>2 DEF StartThread, CountThread, Reserved, Send, Sleep, SpuriousWake,
                Return, ReturnFailing, input, shared
  <2>3. \A k \in Jobs \ {j} : helpers'[k] = helpers[k] /\ result'[k] = result[k]
    BY <1>t, <1>2, <2>0 DEF StartThread, CountThread, Reserved, Send, Sleep,
                       SpuriousWake, Return, ReturnFailing, input, shared
  <2>4. CASE Reserved(c)
    <3>1. Fresh(j) /\ result[j] = Pending
      BY <2>0, <2>4 DEF ChunksInv, LInv, Lifecycle, Reserved, JobOf, Fresh
    <3>2. Fresh(j)'
      BY <2>4, <3>1 DEF Reserved, shared, Fresh
    <3>3. bad[j] \subseteq 0..(count[j] - 1)
      BY <3>1 DEF ChunksInv, ChunksCovered
    <3> QED
      BY <2>1, <2>2, <2>3, <3>2, <3>3, OtherLoops
  <2>5. CASE ~Reserved(c)
    <3>1. helpers' = helpers
      BY <1>2, <2>5
         DEF StartThread, CountThread, Send, Sleep, SpuriousWake, Return,
                        ReturnFailing, input
    <3>2. CASE Return(c) \/ ReturnFailing(c)
      <4>1. pc'[c] = "idle" /\ round' = round
        BY <1>t, <3>2 DEF Return, ReturnFailing
      <4>2. result'[j] # Pending
        BY <2>0, <4>1 DEF LInv, Lifecycle, JobOf
      <4> QED
        BY <2>1, <2>2, <2>3, <4>2, OtherLoops
    <3>3. CASE ~(Return(c) \/ ReturnFailing(c))
      <4>1. result' = result
        BY <1>2, <2>5, <3>3
           DEF StartThread, CountThread, Send, Sleep, SpuriousWake
      <4> QED
        BY <2>1, <2>2, <2>3, <3>1, <4>1, OtherLoops
    <3> QED
      BY <3>2, <3>3
  <2> QED
    BY <2>4, <2>5
<1> QED
  BY <1>1, <1>2

LEMMA WorkerChunks ==
    ASSUME ChunksInv, LInv', NEW w \in Workers,
           TakeTicket(w) \/ Uncount(w) \/ Report(w)
    PROVE  ChunksTaken' /\ ChunksCovered'
<1>t. /\ pc \in [Procs -> CallerStates \cup WorkerStates] /\ w \in Procs
      /\ mine \in [Procs -> Jobs \cup {NoJob}]
      /\ start \in [Procs -> Nat] /\ at \in [Procs -> Nat]
  BY StateTypes DEF LInv, ChunksInv, Procs
<1>1. \A u \in Procs :
        /\ Running(u)' <=> Running(u)
        /\ Running(u) => /\ pc'[u] = pc[u] /\ mine'[u] = mine[u]
                         /\ start'[u] = start[u] /\ at'[u] = at[u]
  BY <1>t DEF TakeTicket, Uncount, Report, Finish, thread, Running
<1>2. UNCHANGED <<count, bad, helpers, next, failed, failure, ran, result>>
  BY DEF TakeTicket, Uncount, Report, input, shared
<1> QED
  BY <1>1, <1>2, QuietStep DEF ChunksInv

LEMMA StepChunks == ChunksInv /\ [Next]_vars => ChunksInv'
<1> SUFFICES ASSUME ChunksInv, [Next]_vars PROVE ChunksInv'
  OBVIOUS
<1>1. LInv'
  BY StepLInv DEF ChunksInv
<1>2. ASSUME NEW c \in Callers, Begin(c) \/ CallerStep(c) \/ SpuriousWake(c)
      PROVE  ChunksTaken' /\ ChunksCovered'
  BY <1>1, <1>2, CallerChunks, ParticipateChunks DEF CallerStep, Procs
<1>3. ASSUME NEW w \in Workers, WorkerStep(w)
      PROVE  ChunksTaken' /\ ChunksCovered'
  BY <1>1, <1>3, WorkerChunks, ParticipateChunks DEF WorkerStep, Procs
<1>4. ASSUME UNCHANGED vars
      PROVE  ChunksTaken' /\ ChunksCovered'
  BY <1>1, <1>4, QuietStep DEF vars, thread, input, shared, Running, ChunksInv
<1> QED
  BY <1>1, <1>2, <1>3, <1>4 DEF Next, Over, ChunksInv

LEMMA InitChunks == Init => ChunksInv
<1> SUFFICES ASSUME Init PROVE ChunksInv
  OBVIOUS
<1>1. LInv
  BY InitLInv
<1>2. \A t \in Procs : ~Running(t)
  BY DEF Init, Running
<1>3. ASSUME NEW j \in Jobs
      PROVE  Fresh(j) /\ bad[j] \subseteq 0..(count[j] - 1)
  BY <1>3 DEF Init, Fresh
<1>4. ChunksCovered
  BY <1>3 DEF ChunksCovered, Fresh, FailureRecorded
<1> QED
  BY <1>1, <1>2, <1>4 DEF ChunksInv, ChunksTaken

LEMMA ChunksAlways == Spec => []ChunksInv
BY InitChunks, StepChunks, PTL DEF Spec

\* Whatever the interleaving, no iteration is run by two threads or twice.
THEOREM IterationsOnce == Spec => []EachIterationOnce
<1>1. ChunksInv => EachIterationOnce
  <2> SUFFICES ASSUME ChunksInv, NEW t \in Procs, mine[t] # NoJob
               PROVE  /\ Remaining(t) \cap ran[mine[t]] = {}
                      /\ \A u \in Procs \ {t} :
                           mine[u] = mine[t] => Remaining(t) \cap Remaining(u) = {}
    BY DEF EachIterationOnce
  <2>1. CASE Running(t)
    <3>1. Remaining(t) \cap ran[mine[t]] = {}
      BY <2>1 DEF ChunksInv, ChunksTaken, InChunk
    <3>2. ASSUME NEW u \in Procs \ {t}, mine[u] = mine[t], Running(u)
          PROVE  Remaining(t) \cap Remaining(u) = {}
      <4>1. Apart(start[t], start[u], Chunk(mine[t]))
        BY <2>1, <3>2 DEF ChunksInv, ChunksTaken, NoOverlap
      <4>2. ASSUME NEW v \in {t, u}, NEW i \in Remaining(v)
            PROVE  start[v] <= i /\ i < start[v] + Chunk(mine[t]) /\ i \in Int
                   /\ start[v] \in Nat /\ Chunk(mine[t]) \in Nat
        <5>1. /\ Running(v) /\ v \in Procs /\ mine[v] = mine[t]
          BY <2>1, <3>2, <4>2
        <5>2. /\ start[v] \in Nat /\ at[v] \in Nat /\ Chunk(mine[t]) \in Nat
              /\ start[v] <= at[v] /\ mine[v] \in Jobs
              /\ Remaining(v) = at[v]..(ChunkEnd(v) - 1)
          BY <5>1, RunningFacts DEF ChunksInv, InChunk
        <5>3. ChunkEnd(v) \in Nat /\ ChunkEnd(v) <= start[v] + Chunk(mine[t])
          BY <5>1, <5>2, ChunkEndFacts DEF ChunksInv, LInv
        <5> QED
          BY <4>2, <5>2, <5>3
      <4> QED
        BY <4>1, <4>2 DEF Apart
    <3>3. ASSUME NEW u \in Procs \ {t}, ~Running(u)
          PROVE  Remaining(u) = {}
      BY <3>3 DEF Running, Remaining
    <3> QED
      BY <3>1, <3>2, <3>3
  <2>2. CASE ~Running(t)
    BY <2>2 DEF Running, Remaining
  <2> QED
    BY <2>1, <2>2
<1> QED
  BY <1>1, ChunksAlways, PTL
-----------------------------------------------------------------------------
(* Nobody stops early. *)

\* A step in which only t goes to leave or to wait keeps NothingLeft.
LEMMA OthersLeft ==
    ASSUME LInv, NothingLeft, NEW t \in Procs,
           \A u \in Procs \ {t} :
             /\ pc'[u] = "leave" => pc[u] = "leave" /\ mine'[u] = mine[u]
             /\ pc'[u] \in {"uncount", "report"} =>
                  pc[u] \in {"uncount", "report"} /\ mine'[u] = mine[u]
             /\ u \in Callers =>
                  /\ round'[u] = round[u]
                  /\ pc'[u] \in {"wait", "asleep"} => pc[u] \in {"wait", "asleep"}
                  /\ pc'[u] \in {"waitLast", "asleepLast"} =>
                       pc[u] \in {"waitLast", "asleepLast"},
           \A k \in Jobs :
             \/ /\ failed[k] => failed'[k]
                /\ next[k] >= count[k] => next'[k] >= count'[k]
             \/ Fresh(k) /\ k[1] = t,
           pc'[t] = "leave" =>
             failed'[mine'[t]] \/ next'[mine'[t]] >= count'[mine'[t]],
           pc'[t] \in {"uncount", "report"} => failed'[mine'[t]],
           t \in Callers =>
             /\ pc'[t] \in {"wait", "asleep"} =>
                  failed'[JobOf(t)'] \/ next'[JobOf(t)'] >= count'[JobOf(t)']
             /\ pc'[t] \in {"waitLast", "asleepLast"} => failed'[JobOf(t)']
    PROVE  NothingLeft'
<1>1. ASSUME NEW u \in Procs, u # t
      PROVE  /\ pc'[u] = "leave" =>
                  failed'[mine'[u]] \/ next'[mine'[u]] >= count'[mine'[u]]
             /\ pc'[u] \in {"uncount", "report"} => failed'[mine'[u]]
  <2> SUFFICES ASSUME pc'[u] = "leave" \/ pc'[u] \in {"uncount", "report"}
               PROVE  /\ pc'[u] = "leave" =>
                           failed'[mine'[u]] \/ next'[mine'[u]] >= count'[mine'[u]]
                      /\ pc'[u] \in {"uncount", "report"} => failed'[mine'[u]]
    OBVIOUS
  <2>1. /\ mine'[u] = mine[u] /\ mine[u] \in Jobs /\ ~Fresh(mine[u])
        /\ pc'[u] = "leave" => pc[u] = "leave"
        /\ pc'[u] \in {"uncount", "report"} => pc[u] \in {"uncount", "report"}
    BY <1>1, AtWorkFacts DEF AtWorkStates, ParticipantStates
  <2> QED
    BY <2>1 DEF NothingLeft
<1>2. ASSUME NEW c \in Callers, c # t
      PROVE  /\ pc'[c] \in {"wait", "asleep"} =>
                  failed'[JobOf(c)'] \/ next'[JobOf(c)'] >= count'[JobOf(c)']
             /\ pc'[c] \in {"waitLast", "asleepLast"} => failed'[JobOf(c)']
  <2> SUFFICES ASSUME \/ pc'[c] \in {"wait", "asleep"}
                      \/ pc'[c] \in {"waitLast", "asleepLast"}
               PROVE  /\ pc'[c] \in {"wait", "asleep"} =>
                           failed'[JobOf(c)'] \/ next'[JobOf(c)'] >= count'[JobOf(c)']
                      /\ pc'[c] \in {"waitLast", "asleepLast"} => failed'[JobOf(c)']
    OBVIOUS
  <2>1. /\ pc'[c] \in {"wait", "asleep"} => pc[c] \in {"wait", "asleep"}
        /\ pc'[c] \in {"waitLast", "asleepLast"} => pc[c] \in {"waitLast", "asleepLast"}
        /\ round'[c] = round[c]
    BY <1>2 DEF Procs
  <2>2. JobOf(c)' = JobOf(c) /\ JobOf(c) \in Jobs /\ JobOf(c)[1] # t
    BY <1>2, <2>1, ThisJob DEF LInv, JobOf
  <2> QED
    BY <2>1, <2>2 DEF NothingLeft
<1> QED
  BY <1>1, <1>2 DEF NothingLeft

LEMMA ParticipateLeft ==
    ASSUME ChunksInv, NothingLeft, NEW t \in Procs,
           Participate(t) \/ (t \in Workers /\ (Uncount(t) \/ Report(t)))
    PROVE  NothingLeft'
<1>j. PICK j \in Jobs : /\ j = mine[t] /\ j # NoJob
                        /\ t \in Callers => j = JobOf(t)
  BY AtWorkFacts DEF ChunksInv, Participate, CheckFailed, TakeChunk, Iterate,
     LockGrowth, Grow, Leave, FailIteration, Uncount, Report, AtWorkStates,
     ParticipantStates
<1>t. /\ pc \in [Procs -> CallerStates \cup WorkerStates]
      /\ mine \in [Procs -> Jobs \cup {NoJob}]
      /\ failed \in [Jobs -> BOOLEAN] /\ next \in [Jobs -> Nat]
      /\ count \in [Jobs -> Nat] /\ Chunk(j) \in Nat \ {0}
  BY StateTypes, ChunkType DEF LInv, ChunksInv, TypeInv
<1>w. Workers \cap Callers = {} /\ LInv
  BY WorkersAssumption DEF ChunksInv
<1>1. CASE CheckFailed(t)
  BY <1>j, <1>t, <1>w, <1>1, OthersLeft DEF CheckFailed, thread, input, shared
<1>2. CASE TakeChunk(t)
  BY <1>j, <1>t, <1>w, <1>2, OthersLeft DEF TakeChunk, input
<1>3. CASE Iterate(t)
  BY <1>j, <1>t, <1>w, <1>3, OthersLeft DEF Iterate, EndIteration, input
<1>4. CASE LockGrowth(t)
  BY <1>j, <1>t, <1>w, <1>4, OthersLeft DEF LockGrowth, input
<1>5. CASE Grow(t)
  BY <1>j, <1>t, <1>w, <1>5, OthersLeft DEF Grow, EndIteration, input
<1>6. ASSUME Leave(t) \/ (t \in Workers /\ Report(t))
      PROVE  NothingLeft'
  <2>1. UNCHANGED <<round, count, next, failed>>
    BY <1>6 DEF Leave, Report, input
  <2>2. /\ t \in Callers => Leave(t) /\ pc'[t] = "wait"
        /\ pc'[t] \in {"recv", "wait", "parked"}
    BY <1>t, <1>w, <1>6 DEF Leave, Report, Finish
  <2>3. \A u \in Procs \ {t} :
          /\ mine'[u] = mine[u]
          /\ \/ pc'[u] = pc[u]
             \/ pc[u] = "asleep" /\ pc'[u] = "wait"
             \/ pc[u] = "asleepLast" /\ pc'[u] = "waitLast"
    BY <1>t, <1>6 DEF Leave, Report, Finish
  <2>4. Leave(t) => failed[j] \/ next[j] >= count[j]
    BY <1>j DEF NothingLeft, Leave
  <2>5. t \in Callers => failed'[JobOf(t)'] \/ next'[JobOf(t)'] >= count'[JobOf(t)']
    BY <1>j, <2>1, <2>2, <2>4 DEF JobOf
  <2> QED
    BY <1>w, <2>1, <2>2, <2>3, <2>5, OthersLeft
<1>7. CASE FailIteration(t)
  <2>1. /\ failed' = [failed EXCEPT ![j] = TRUE] /\ UNCHANGED <<mine, round, next, count>>
        /\ pc' = [pc EXCEPT ![t] = AfterFailing(t)]
    BY <1>j, <1>7 DEF FailIteration, RecordFailure, thread, input
  <2>2. /\ t \in Callers => pc'[t] = "waitLast" /\ JobOf(t)' = JobOf(t)
        /\ pc'[t] \in {"waitLast", "uncount"}
    BY <1>t, <2>1 DEF AfterFailing, JobOf
  <2>3. failed'[j] /\ \A k \in Jobs : failed[k] => failed'[k]
    BY <1>t, <2>1
  <2> QED
    BY <1>j, <1>t, <1>w, <2>1, <2>2, <2>3, OthersLeft
<1>8. CASE t \in Workers /\ Uncount(t)
  BY <1>j, <1>t, <1>w, <1>8, OthersLeft
     DEF Uncount, thread, input, shared, NothingLeft
<1> QED
  BY <1>1, <1>2, <1>3, <1>4, <1>5, <1>6, <1>7, <1>8 DEF Participate

LEMMA CallerLeft ==
    ASSUME ChunksInv, NothingLeft, NEW c \in Callers,
           \/ Begin(c)
           \/ StartThread(c) \/ CountThread(c) \/ Reserved(c) \/ Send(c)
           \/ Sleep(c) \/ SpuriousWake(c) \/ Return(c) \/ ReturnFailing(c)
    PROVE  NothingLeft'
<1>t. /\ pc \in [Procs -> CallerStates \cup WorkerStates] /\ c \in Procs /\ LInv
      /\ mine \in [Procs -> Jobs \cup {NoJob}] /\ round \in [Callers -> 0..Rounds]
      /\ count \in [Jobs -> Nat] /\ Workers \cap Callers = {}
      /\ pc[c] \in CallerStates
  BY StateTypes, WorkersAssumption DEF LInv, ChunksInv, Procs
<1>1. ASSUME Begin(c)  PROVE NothingLeft'
  <2>n. PICK n \in Counts :
          \E B \in BadSets(n) : RunInline(c, n, B) \/ Reserve(c, n, B)
    BY <1>1 DEF Begin
  <2>1. PICK B \in BadSets(n) : RunInline(c, n, B) \/ Reserve(c, n, B)
    BY <2>n
  <2>2. PICK j : j = <<c, round[c] + 1>>
    OBVIOUS
  <2>3. j \in Jobs /\ Fresh(j) /\ j[1] = c
    BY <1>t, <2>1, <2>2, NextRound DEF RunInline, Reserve
  <2>4. /\ \A k \in Jobs \ {j} : count'[k] = count[k]
        /\ UNCHANGED <<mine, next, failed>>
        /\ \A u \in Procs \ {c} : pc'[u] = pc[u]
        /\ \A u \in Callers \ {c} : round'[u] = round[u]
        /\ pc'[c] \in {"idle", "reserve"}
    BY <1>t, <2>1, <2>2 DEF RunInline, Reserve, thread, shared
  <2> QED
    BY <1>t, <2>3, <2>4, OthersLeft
<1>2. ASSUME \/ StartThread(c) \/ CountThread(c) \/ Reserved(c) \/ Send(c)
             \/ Return(c) \/ ReturnFailing(c)
      PROVE  NothingLeft'
  <2>1. UNCHANGED <<round, count, next, failed>>
    BY <1>2 DEF StartThread, CountThread, Reserved, Send, Return, ReturnFailing,
                input, shared
  <2>2. pc'[c] \in {"started", "reserve", "send", "loop", "idle"}
    BY <1>t, <1>2
       DEF StartThread, CountThread, Reserved, Send, Return, ReturnFailing
  <2>3. \A u \in Procs \ {c} :
          /\ mine'[u] = mine[u]
          /\ pc'[u] = pc[u] \/ pc'[u] = "recv"
    BY <1>t, <1>2
       DEF StartThread, CountThread, Reserved, Send, Return, ReturnFailing,
                      thread
  <2> QED
    BY <1>t, <2>1, <2>2, <2>3, OthersLeft
<1>3. ASSUME Sleep(c) \/ SpuriousWake(c)  PROVE NothingLeft'
  <2>1. UNCHANGED <<round, count, next, failed, mine>> /\ JobOf(c)' = JobOf(c)
    BY <1>3 DEF Sleep, SpuriousWake, thread, input, shared, JobOf
  <2>2. /\ \A u \in Procs \ {c} : pc'[u] = pc[u]
        /\ \/ pc[c] \in {"wait", "asleep"} /\ pc'[c] \in {"wait", "asleep"}
           \/ pc[c] \in {"waitLast", "asleepLast"} /\ pc'[c] \in {"waitLast", "asleepLast"}
    BY <1>t, <1>3 DEF Sleep, SpuriousWake
  <2>3. /\ pc[c] \in {"wait", "asleep"} =>
             failed[JobOf(c)] \/ next[JobOf(c)] >= count[JobOf(c)]
        /\ pc[c] \in {"waitLast", "asleepLast"} => failed[JobOf(c)]
    BY DEF NothingLeft
  <2> QED
    BY <1>t, <2>1, <2>2, <2>3, OthersLeft
<1> QED
  BY <1>1, <1>2, <1>3

LEMMA StepLeft == ChunksInv /\ NothingLeft /\ [Next]_vars => NothingLeft'
<1> SUFFICES ASSUME ChunksInv, NothingLeft, [Next]_vars PROVE NothingLeft'
  OBVIOUS
<1>1. ASSUME NEW c \in Callers, Begin(c) \/ CallerStep(c) \/ SpuriousWake(c)
      PROVE  NothingLeft'
  BY <1>1, CallerLeft, ParticipateLeft DEF CallerStep, Procs
<1>2. ASSUME NEW w \in Workers, TakeTicket(w)  PROVE NothingLeft'
  <2>1. /\ pc \in [Procs -> CallerStates \cup WorkerStates] /\ w \in Procs
        /\ mine \in [Procs -> Jobs \cup {NoJob}] /\ w \notin Callers /\ LInv
    BY StateTypes, WorkersAssumption DEF LInv, ChunksInv, Procs
  <2> QED
    BY <1>2, <2>1, OthersLeft DEF TakeTicket, input, shared
<1>3. ASSUME NEW w \in Workers, WorkerStep(w)  PROVE NothingLeft'
  BY <1>2, <1>3, ParticipateLeft DEF WorkerStep, Procs
<1>4. ASSUME UNCHANGED vars  PROVE NothingLeft'
  BY <1>4 DEF vars, thread, input, shared, NothingLeft, JobOf
<1> QED
  BY <1>1, <1>3, <1>4 DEF Next, Over
-----------------------------------------------------------------------------
(* What a loop that is over has run and returns. *)

\* The iterations a plain `for` completes when those in B fail.
EarlierThan(n, B) == {i \in 0..(n - 1) : \A k \in B : i < k}

\* When nobody runs an iteration any more and nothing is left, the failure
\* recorded is the first one; without a failure every iteration has run.
LEMMA EndOutcome ==
    ASSUME ChunksInv, NEW j \in Jobs, result[j] = Pending,
           \A u \in WorkingOn(j) : ~Running(u),
           failed[j] \/ next[j] >= count[j]
    PROVE  /\ failed[j] => /\ failure[j].index = InOrder(count[j], bad[j])
                           /\ failure[j].index \in Nat
           /\ ~failed[j] => bad[j] = {} /\ ran[j] = 0..(count[j] - 1)
           /\ EarlierThan(count[j], bad[j]) \subseteq ran[j]
<1>t. /\ count[j] \in Nat /\ next[j] \in Nat /\ bad[j] \subseteq Nat
      /\ failure[j] \in [start : Nat \cup {-1}, index : Nat \cup {-1}]
      /\ Chunk(j) \in Nat /\ failed[j] \in BOOLEAN /\ ran[j] \subseteq Nat
  BY StateTypes, ChunkType DEF ChunksInv, LInv, TypeInv
<1>1. /\ bad[j] \subseteq 0..(count[j] - 1)
      /\ \A i \in ran[j] : i < next[j] /\ i < count[j] /\ i \notin bad[j]
      /\ \A i \in 0..(count[j] - 1) : i < next[j] => Covered(i, j)
      /\ FailureRecorded(j)
  BY DEF ChunksInv, ChunksCovered
<1>2. \A u \in WorkingOn(j) : Remaining(u) = {}
  BY DEF Remaining, Running
<1>3. \A i \in 0..(count[j] - 1) :
        i < next[j] => i \in ran[j] \/ (failed[j] /\ failure[j].index <= i)
  BY <1>1, <1>2 DEF Covered
<1>4. ASSUME failed[j]
      PROVE  /\ failure[j].index = InOrder(count[j], bad[j])
             /\ failure[j].index \in Nat
             /\ EarlierThan(count[j], bad[j]) \subseteq ran[j]
  <2> DEFINE f == failure[j].index
  <2>1. f \in bad[j] /\ f \in Nat /\ f < next[j]
    BY <1>t, <1>1, <1>4 DEF FailureRecorded
  <2>2. \A k \in bad[j] : f <= k
    BY <1>t, <1>1, <1>3, <2>1
  <2>3. /\ InOrder(count[j], bad[j]) \in bad[j]
        /\ \A k \in bad[j] : InOrder(count[j], bad[j]) <= k
    BY <1>t, <2>1, InOrderType
  <2>4. f = InOrder(count[j], bad[j])
    BY <1>t, <2>1, <2>2, <2>3
  <2>5. ASSUME NEW i \in EarlierThan(count[j], bad[j])  PROVE i \in ran[j]
    BY <1>t, <1>3, <2>1, <2>5 DEF EarlierThan
  <2> QED
    BY <2>1, <2>4, <2>5
<1>5. ASSUME ~failed[j]
      PROVE  /\ bad[j] = {} /\ ran[j] = 0..(count[j] - 1)
             /\ EarlierThan(count[j], bad[j]) \subseteq ran[j]
  <2>1. \A i \in 0..(count[j] - 1) : i \in ran[j]
    BY <1>t, <1>3, <1>5
  <2>2. bad[j] = {}
    BY <1>1, <2>1
  <2>3. \A i \in ran[j] : i \in 0..(count[j] - 1)
    BY <1>t, <1>1
  <2>4. ran[j] = 0..(count[j] - 1)
    BY <2>1, <2>3
  <2> QED
    BY <2>1, <2>2, <2>4 DEF EarlierThan
<1> QED
  BY <1>4, <1>5

\* A loop that is over stays as it is.
LEMMA OverStays ==
    ASSUME ChunksInv, [Next]_vars, NEW k \in Jobs, result[k] # Pending
    PROVE  /\ result'[k] = result[k] /\ count'[k] = count[k] /\ bad'[k] = bad[k]
           /\ ran'[k] = ran[k] /\ kept'[k] = kept[k]
<1>t. /\ result \in [Jobs -> Int] /\ count \in [Jobs -> Nat]
      /\ bad \in [Jobs -> SUBSET Nat] /\ ran \in [Jobs -> SUBSET Nat]
      /\ kept \in [Jobs -> SUBSET Nat]
  BY StateTypes DEF ChunksInv, LInv
<1>1. ASSUME NEW c \in Callers, Begin(c)
      PROVE  /\ result'[k] = result[k] /\ count'[k] = count[k] /\ bad'[k] = bad[k]
             /\ ran'[k] = ran[k] /\ kept'[k] = kept[k]
  <2>n. PICK n \in Counts :
          \E B \in BadSets(n) : RunInline(c, n, B) \/ Reserve(c, n, B)
    BY <1>1 DEF Begin
  <2>1. PICK B \in BadSets(n) : RunInline(c, n, B) \/ Reserve(c, n, B)
    BY <2>n
  <2>2. PICK j : j = <<c, round[c] + 1>>
    OBVIOUS
  <2>3. j \in Jobs /\ result[j] = Pending
    BY <2>1, <2>2, NextRound DEF RunInline, Reserve, ChunksInv, Fresh
  <2> QED
    BY <1>t, <2>1, <2>2, <2>3 DEF RunInline, Reserve, shared
<1>2. ASSUME NEW c \in Callers, Return(c) \/ ReturnFailing(c)
      PROVE  /\ result'[k] = result[k] /\ count'[k] = count[k] /\ bad'[k] = bad[k]
             /\ ran'[k] = ran[k] /\ kept'[k] = kept[k]
  <2>1. PICK j \in Jobs : j = JobOf(c)
    BY <1>2, ThisJob DEF ChunksInv, LInv, Return, ReturnFailing
  <2>2. result[j] = Pending
    BY <1>2, <2>1 DEF ChunksInv, LInv, Lifecycle, JobOf, Return, ReturnFailing
  <2> QED
    BY <1>t, <1>2, <2>1, <2>2 DEF Return, ReturnFailing, input, shared
<1>3. ASSUME NEW t \in Procs, Participate(t)
      PROVE  /\ result'[k] = result[k] /\ count'[k] = count[k] /\ bad'[k] = bad[k]
             /\ ran'[k] = ran[k] /\ kept'[k] = kept[k]
  <2>1. mine[t] \in Jobs /\ result[mine[t]] = Pending
    BY <1>3, AtWorkFacts
       DEF ChunksInv, Participate, CheckFailed, TakeChunk, Iterate,
       LockGrowth, Grow, Leave, FailIteration, AtWorkStates, ParticipantStates
  <2> QED
    BY <1>t, <1>3, <2>1
       DEF Participate, CheckFailed, TakeChunk, Iterate, LockGrowth,
       Grow, EndIteration, Leave, FailIteration, input, shared
<1>4. ASSUME NEW c \in Callers,
             \/ StartThread(c) \/ CountThread(c) \/ Reserved(c) \/ Send(c)
             \/ Sleep(c) \/ SpuriousWake(c)
      PROVE  UNCHANGED <<result, count, bad, ran, kept>>
  BY <1>4
     DEF StartThread, CountThread, Reserved, Send, Sleep, SpuriousWake, input,
              shared
<1>5. ASSUME NEW w \in Workers, TakeTicket(w) \/ Uncount(w) \/ Report(w)
      PROVE  UNCHANGED <<result, count, bad, ran, kept>>
  BY <1>5 DEF TakeTicket, Uncount, Report, input, shared
<1>6. CASE UNCHANGED vars
  BY <1>6 DEF vars, input, shared
<1> QED
  BY <1>1, <1>2, <1>3, <1>4, <1>5, <1>6
     DEF Next, Over, CallerStep, WorkerStep, Procs

\* The outcome of one loop: what a plain `for` returns and has run.
Outcome(j) ==
    result[j] # Pending =>
        /\ result[j] = InOrder(count[j], bad[j])
        /\ EarlierThan(count[j], bad[j]) \subseteq ran[j]

LEMMA StepOutcome ==
    ASSUME ChunksInv, NothingLeft, [Next]_vars, NEW j \in Jobs, Outcome(j)
    PROVE  Outcome(j)'
<1>t. /\ result \in [Jobs -> Int] /\ count \in [Jobs -> Nat]
      /\ bad \in [Jobs -> SUBSET Nat] /\ ran \in [Jobs -> SUBSET Nat]
      /\ failed \in [Jobs -> BOOLEAN]
  BY StateTypes DEF ChunksInv, LInv
<1>1. CASE result[j] # Pending
  BY <1>1, OverStays DEF Outcome
<1>2. CASE result[j] = Pending /\ result'[j] # Pending
  <2>1. ASSUME NEW c \in Callers, Begin(c)  PROVE Outcome(j)'
    <3>n. PICK n \in Counts :
            \E B \in BadSets(n) : RunInline(c, n, B) \/ Reserve(c, n, B)
      BY <2>1 DEF Begin
    <3>1. PICK B \in BadSets(n) : RunInline(c, n, B) \/ Reserve(c, n, B)
      BY <3>n
    <3>2. RunInline(c, n, B)
      BY <1>2, <3>1 DEF Reserve
    <3>3. j = <<c, round[c] + 1>>
      BY <1>t, <1>2, <3>2 DEF RunInline
    <3> QED
      BY <1>t, <3>2, <3>3 DEF RunInline, Outcome, EarlierThan
  <2>2. ASSUME NEW c \in Callers, Return(c) \/ ReturnFailing(c)  PROVE Outcome(j)'
    <3>1. j = JobOf(c) /\ UNCHANGED <<count, bad, ran>>
      BY <1>t, <1>2, <2>2 DEF Return, ReturnFailing, input, shared
    <3>2. \A u \in WorkingOn(j) : ~Running(u)
      <4>1. CASE Return(c)
        <5>1. WorkingOn(j) = {}
          BY <1>2, <3>1, <4>1, NobodyLeft DEF ChunksInv, Return, EveryoneDone
        <5> QED
          BY <5>1
      <4>2. CASE ReturnFailing(c)
        <5>1. WorkingOn(j) = {c}
          BY <1>2, <3>1, <4>2, LastOne DEF ChunksInv
        <5> QED
          BY <4>2, <5>1 DEF ReturnFailing, Running
      <4> QED
        BY <2>2, <4>1, <4>2
    <3>3. /\ failed[j] \/ next[j] >= count[j]
          /\ ReturnFailing(c) => failed[j]
      BY <2>2, <3>1 DEF NothingLeft, Return, ReturnFailing
    <3>4. /\ failed[j] => failure[j].index = InOrder(count[j], bad[j])
          /\ ~failed[j] => bad[j] = {}
          /\ EarlierThan(count[j], bad[j]) \subseteq ran[j]
      BY <1>2, <3>2, <3>3, EndOutcome
    <3>5. result'[j] = IF failed[j] THEN failure[j].index ELSE Succeeded
      BY <1>t, <2>2, <3>1, <3>3 DEF Return, ReturnFailing
    <3>6. result'[j] = InOrder(count[j], bad[j])
      BY <3>4, <3>5 DEF InOrder
    <3> QED
      BY <3>1, <3>4, <3>6 DEF Outcome
  <2>3. ASSUME NEW c \in Callers, CallerStep(c) \/ SpuriousWake(c)  PROVE Outcome(j)'
    <3>1. Return(c) \/ ReturnFailing(c)
      BY <1>2, <2>3
         DEF CallerStep, StartThread, CountThread, Reserved, Send, Sleep,
         SpuriousWake, Participate, CheckFailed, TakeChunk, Iterate,
         LockGrowth, Grow,
         Leave, FailIteration
    <3> QED
      BY <2>2, <3>1
  <2>4. ASSUME NEW w \in Workers, WorkerStep(w)  PROVE FALSE
    BY <1>2, <2>4 DEF WorkerStep, TakeTicket, Uncount, Report, Participate,
       CheckFailed, TakeChunk, Iterate, LockGrowth, Grow, Leave, FailIteration
  <2>5. ~ UNCHANGED vars
    BY <1>2 DEF vars
  <2> QED
    BY <2>1, <2>3, <2>4, <2>5 DEF Next, Over
<1> QED
  BY <1>1, <1>2 DEF Outcome

\* The part of the invariant about chunks and outcomes.
OutcomeInv == ChunksInv /\ NothingLeft /\ \A j \in Jobs : Outcome(j)

LEMMA OutcomeAlways == Spec => []OutcomeInv
<1>1. Init => OutcomeInv
  BY InitChunks DEF OutcomeInv, Init, NothingLeft, Outcome, Procs
<1>2. OutcomeInv /\ [Next]_vars => OutcomeInv'
  BY StepChunks, StepLeft, StepOutcome DEF OutcomeInv
<1> QED
  BY <1>1, <1>2, PTL DEF Spec

\* par.rs l.12: whatever the number of threads, the chunks and the order the
\* threads run in, a loop reports the failure a plain `for` stops at.
THEOREM LowestFailure == Spec => []LowestFailureWins
<1>1. OutcomeInv => LowestFailureWins
  BY DEF OutcomeInv, Outcome, LowestFailureWins
<1> QED
  BY <1>1, OutcomeAlways, PTL

\* par.rs l.14-16: what a plain `for` completes before it stops has run.
THEOREM EarlierIterations == Spec => []EarlierIterationsRan
<1>1. OutcomeInv => EarlierIterationsRan
  BY DEF OutcomeInv, Outcome, EarlierThan, EarlierIterationsRan
<1> QED
  BY <1>1, OutcomeAlways, PTL
-----------------------------------------------------------------------------
(* What the iterations allocated. *)

\* A step that leaves arenas and finished iterations of pending loops alone.
LEMMA ContentsFrame ==
    ASSUME ChunksInv, LInv', ContentsKept,
           \A k \in Jobs :
             result'[k] = Pending =>
               \/ Fresh(k)' /\ WorkingOn(k)' = {}
               \/ /\ result[k] = Pending
                  /\ ran'[k] = ran[k] /\ arenas'[k] = arenas[k]
                  /\ failed[k] => failed'[k],
           \A u \in Procs :
             /\ made'[u] = made[u] \/ (made'[u] = {} /\ result'[mine[u]] # Pending)
             /\ mine'[u] = mine[u] \/ made'[u] = {}
             /\ mine'[u] # mine[u] =>
                  mine[u] = NoJob \/ (mine[u] \in Jobs /\ result'[mine[u]] # Pending)
    PROVE  ContentsKept'
<1>t. mine \in [Procs -> Jobs \cup {NoJob}] /\ made \in [Procs -> SUBSET Nat]
  BY StateTypes DEF ChunksInv, LInv
<1>1. ASSUME NEW k \in Jobs, result'[k] = Pending
      PROVE  /\ UNION arenas'[k] \subseteq ran'[k]
             /\ \A t \in WorkingOn(k)' : made'[t] \subseteq ran'[k]
             /\ ~failed'[k] => \A i \in ran'[k] :
                  i \in UNION arenas'[k] \/ \E t \in WorkingOn(k)' : i \in made'[t]
  <2>1. CASE Fresh(k)' /\ WorkingOn(k)' = {}
    BY <2>1 DEF Fresh
  <2>2. CASE /\ result[k] = Pending
             /\ ran'[k] = ran[k] /\ arenas'[k] = arenas[k]
             /\ failed[k] => failed'[k]
    <3>1. /\ UNION arenas[k] \subseteq ran[k]
          /\ \A t \in WorkingOn(k) : made[t] \subseteq ran[k]
          /\ ~failed[k] => \A i \in ran[k] :
               i \in UNION arenas[k] \/ \E t \in WorkingOn(k) : i \in made[t]
      BY <2>2 DEF ContentsKept
    <3>2. ASSUME NEW u \in WorkingOn(k)  PROVE u \in WorkingOn(k)' /\ made'[u] = made[u]
      BY <1>1, <3>2, JobsNotNoJob DEF WorkingOn
    <3>3. ASSUME NEW u \in WorkingOn(k)'  PROVE made'[u] \subseteq ran[k]
      <4>1. u \in Procs /\ mine'[u] = k
        BY <3>3 DEF WorkingOn
      <4>2. CASE mine[u] = k
        BY <3>1, <3>2, <4>1, <4>2 DEF WorkingOn
      <4>3. CASE mine[u] # k
        BY <4>1, <4>3
      <4> QED
        BY <4>2, <4>3
    <3>4. \A i \in ran[k] : ~failed[k] =>
            i \in UNION arenas[k] \/ \E t \in WorkingOn(k)' : i \in made'[t]
      BY <3>1, <3>2
    <3> QED
      BY <2>2, <3>1, <3>3, <3>4
  <2> QED
    BY <1>1, <2>1, <2>2
<1>2. ASSUME NEW u \in Procs, mine'[u] = NoJob  PROVE made'[u] = {}
  BY <1>2 DEF ContentsKept
<1> QED
  BY <1>1, <1>2 DEF ContentsKept

\* An iteration that ends leaves its allocations in its thread's arena.
LEMMA EndIterationContents ==
    ASSUME ChunksInv, ContentsKept, NEW t \in Procs, Running(t),
           EndIteration(t),
           UNCHANGED <<mine, arenas, failed, result>>
    PROVE  ContentsKept'
<1>j. PICK j \in Jobs : j = mine[t] /\ t \in WorkingOn(j) /\ j # NoJob
  BY RunningFacts, JobsNotNoJob DEF ChunksInv
<1>t. made \in [Procs -> SUBSET Nat] /\ ran \in [Jobs -> SUBSET Nat]
  BY StateTypes DEF ChunksInv, LInv
<1>1. /\ ran' = [ran EXCEPT ![j] = @ \cup {at[t]}]
      /\ made' = [made EXCEPT ![t] = @ \cup {at[t]}]
  BY <1>j DEF EndIteration
<1>2. \A k \in Jobs : WorkingOn(k)' = WorkingOn(k)
  BY DEF WorkingOn
<1>3. ASSUME NEW k \in Jobs, result[k] = Pending
      PROVE  /\ UNION arenas[k] \subseteq ran'[k]
             /\ \A u \in WorkingOn(k) : made'[u] \subseteq ran'[k]
             /\ ~failed[k] => \A i \in ran'[k] :
                  i \in UNION arenas[k] \/ \E u \in WorkingOn(k) : i \in made'[u]
  <2>1. /\ UNION arenas[k] \subseteq ran[k]
        /\ \A u \in WorkingOn(k) : made[u] \subseteq ran[k]
        /\ ~failed[k] => \A i \in ran[k] :
             i \in UNION arenas[k] \/ \E u \in WorkingOn(k) : i \in made[u]
    BY <1>3 DEF ContentsKept
  <2>2. ran[k] \subseteq ran'[k] /\ (k = j => at[t] \in ran'[k])
        /\ \A i \in ran'[k] : i \in ran[k] \/ (k = j /\ i = at[t])
    BY <1>t, <1>1
  <2>3. \A u \in Procs : /\ made[u] \subseteq made'[u]
                         /\ u # t => made'[u] = made[u]
                         /\ made'[t] = made[t] \cup {at[t]}
    BY <1>t, <1>1
  <2>4. ASSUME NEW u \in WorkingOn(k)  PROVE made'[u] \subseteq ran'[k]
    <3>1. u \in Procs /\ (u = t => k = j)
      BY <1>j, <2>4 DEF WorkingOn
    <3> QED
      BY <2>1, <2>2, <2>3, <2>4, <3>1
  <2>5. ASSUME ~failed[k], NEW i \in ran'[k]
        PROVE  i \in UNION arenas[k] \/ \E u \in WorkingOn(k) : i \in made'[u]
    <3>1. CASE i \in ran[k]
      BY <2>1, <2>3, <2>5, <3>1 DEF WorkingOn
    <3>2. CASE k = j /\ i = at[t]
      BY <1>j, <2>3, <3>2
    <3> QED
      BY <2>2, <3>1, <3>2
  <2> QED
    BY <2>1, <2>2, <2>4, <2>5
<1>4. ASSUME NEW u \in Procs, mine[u] = NoJob  PROVE made'[u] = {}
  BY <1>j, <1>t, <1>1, <1>4 DEF ContentsKept
<1> QED
  BY <1>2, <1>3, <1>4 DEF ContentsKept

\* A participant hands its arena over, or dies with it after a failure.
LEMMA FinishContents ==
    ASSUME ChunksInv, ContentsKept, NothingLeft, NEW t \in Procs,
           Leave(t) \/ Report(t)
    PROVE  ContentsKept'
<1>j. PICK j \in Jobs : /\ j = mine[t] /\ t \in WorkingOn(j) /\ j # NoJob
                        /\ result[j] = Pending
  BY AtWorkFacts DEF ChunksInv, Leave, Report, AtWorkStates, ParticipantStates
<1>t. /\ made \in [Procs -> SUBSET Nat] /\ mine \in [Procs -> Jobs \cup {NoJob}]
      /\ arenas \in [Jobs -> SUBSET SUBSET Nat]
  BY StateTypes DEF ChunksInv, LInv
<1>1. PICK handed :
        /\ handed = {made[t]} \/ (handed = {} /\ failed[j])
        /\ arenas' = [arenas EXCEPT ![j] = @ \cup handed]
        /\ made' = [made EXCEPT ![t] = {}] /\ mine' = [mine EXCEPT ![t] = NoJob]
        /\ UNCHANGED <<ran, failed, result>>
  <2>1. CASE Leave(t)
    BY <1>j, <2>1 DEF Leave, Finish
  <2>2. CASE Report(t)
    BY <1>j, <2>2 DEF Report, Finish, NothingLeft
  <2> QED
    BY <2>1, <2>2
<1>2. ASSUME NEW k \in Jobs
      PROVE  WorkingOn(k)' = IF k = j THEN WorkingOn(k) \ {t} ELSE WorkingOn(k)
  BY <1>j, <1>t, <1>1, <1>2, JobsNotNoJob DEF WorkingOn
<1>3. ASSUME NEW k \in Jobs, result[k] = Pending
      PROVE  /\ UNION arenas'[k] \subseteq ran[k]
             /\ \A u \in WorkingOn(k)' : made'[u] \subseteq ran[k]
             /\ ~failed[k] => \A i \in ran[k] :
                  i \in UNION arenas'[k] \/ \E u \in WorkingOn(k)' : i \in made'[u]
  <2>1. /\ UNION arenas[k] \subseteq ran[k]
        /\ \A u \in WorkingOn(k) : made[u] \subseteq ran[k]
        /\ ~failed[k] => \A i \in ran[k] :
             i \in UNION arenas[k] \/ \E u \in WorkingOn(k) : i \in made[u]
    BY <1>3 DEF ContentsKept
  <2>2. arenas'[k] = IF k = j THEN arenas[k] \cup handed ELSE arenas[k]
    BY <1>t, <1>1
  <2>3. \A u \in Procs : made'[u] = IF u = t THEN {} ELSE made[u]
    BY <1>t, <1>1
  <2>4. UNION arenas'[k] \subseteq ran[k]
    BY <1>j, <1>1, <2>1, <2>2
  <2>5. \A u \in WorkingOn(k)' : made'[u] \subseteq ran[k]
    BY <1>2, <2>1, <2>3 DEF WorkingOn
  <2>6. ASSUME ~failed[k], NEW i \in ran[k]
        PROVE  i \in UNION arenas'[k] \/ \E u \in WorkingOn(k)' : i \in made'[u]
    <3>1. CASE i \in UNION arenas[k]
      BY <2>2, <3>1
    <3>2. CASE \E u \in WorkingOn(k) : i \in made[u]
      <4>1. PICK u \in Procs : mine[u] = k /\ i \in made[u]
        BY <3>2 DEF WorkingOn
      <4>2. CASE u = t
        BY <1>j, <1>1, <2>2, <2>6, <4>1, <4>2
      <4>3. CASE u # t
        BY <1>2, <2>3, <4>1, <4>3 DEF WorkingOn
      <4> QED
        BY <4>2, <4>3
    <3> QED
      BY <2>1, <2>6, <3>1, <3>2
  <2> QED
    BY <2>4, <2>5, <2>6
<1>4. ASSUME NEW u \in Procs, mine'[u] = NoJob  PROVE made'[u] = {}
  BY <1>t, <1>1, <1>4 DEF ContentsKept
<1> QED
  BY <1>1, <1>3, <1>4 DEF ContentsKept

LEMMA StepContents ==
    ASSUME ChunksInv, NothingLeft, ContentsKept, [Next]_vars
    PROVE  ContentsKept'
<1>t. /\ pc \in [Procs -> CallerStates \cup WorkerStates]
      /\ mine \in [Procs -> Jobs \cup {NoJob}] /\ made \in [Procs -> SUBSET Nat]
      /\ failed \in [Jobs -> BOOLEAN] /\ ran \in [Jobs -> SUBSET Nat]
      /\ result \in [Jobs -> Int] /\ arenas \in [Jobs -> SUBSET SUBSET Nat]
      /\ LInv'
  BY StateTypes, StepLInv DEF ChunksInv, LInv
<1>1. ASSUME NEW t \in Procs, Participate(t)  PROVE ContentsKept'
  <2>1. CASE CheckFailed(t) \/ TakeChunk(t) \/ LockGrowth(t) \/ FailIteration(t)
    <3>1. UNCHANGED <<mine, made, ran, arenas, result>>
      BY <2>1
         DEF CheckFailed, TakeChunk, LockGrowth, FailIteration, thread, shared
    <3>2. \A k \in Jobs : failed[k] => failed'[k]
      BY <1>t, <2>1 DEF CheckFailed, TakeChunk, LockGrowth, FailIteration,
                        RecordFailure, shared
    <3> QED
      BY <1>t, <3>1, <3>2, ContentsFrame
  <2>2. CASE Iterate(t) \/ Grow(t)
    BY <2>2, EndIterationContents DEF Iterate, Grow, Running
  <2>3. CASE Leave(t)
    BY <2>3, FinishContents
  <2> QED
    BY <1>1, <2>1, <2>2, <2>3 DEF Participate
<1>2. ASSUME NEW c \in Callers, Begin(c)  PROVE ContentsKept'
  <2>n. PICK n \in Counts :
          \E B \in BadSets(n) : RunInline(c, n, B) \/ Reserve(c, n, B)
    BY <1>2 DEF Begin
  <2>1. PICK B \in BadSets(n) : RunInline(c, n, B) \/ Reserve(c, n, B)
    BY <2>n
  <2>2. UNCHANGED <<mine, made, arenas, failed>>
    BY <2>1 DEF RunInline, Reserve, thread, shared
  <2>3. \A k \in Jobs : result'[k] = Pending =>
          result[k] = Pending /\ ran'[k] = ran[k]
    <3>1. CASE RunInline(c, n, B)
      <4>1. InOrder(n, B) # Pending
        BY PlainLoopOver
      <4> QED
        BY <1>t, <3>1, <4>1 DEF RunInline
    <3>2. CASE Reserve(c, n, B)
      BY <3>2 DEF Reserve, shared
    <3> QED
      BY <2>1, <3>1, <3>2
  <2> QED
    BY <1>t, <2>2, <2>3, ContentsFrame
<1>3. ASSUME NEW c \in Callers, Return(c) \/ ReturnFailing(c)  PROVE ContentsKept'
  <2>1. PICK j \in Jobs : j = JobOf(c) /\ c \in Procs
    BY <1>3, ThisJob DEF ChunksInv, LInv, Return, ReturnFailing, Procs
  <2>2. result'[j] # Pending
    <3>1. pc'[c] = "idle" /\ round' = round
      BY <1>t, <1>3, <2>1 DEF Return, ReturnFailing
    <3> QED
      BY <1>t, <2>1, <3>1 DEF LInv, Lifecycle, JobOf
  <2>3. /\ UNCHANGED <<ran, failed>>
        /\ \A k \in Jobs \ {j} : result'[k] = result[k] /\ arenas'[k] = arenas[k]
    BY <1>t, <1>3, <2>1 DEF Return, ReturnFailing, shared
  <2>4. CASE Return(c)
    BY <1>t, <2>2, <2>3, <2>4, ContentsFrame DEF Return, thread
  <2>5. CASE ReturnFailing(c)
    <3>1. mine[c] = j
      BY <2>1, <2>5, LastOne DEF ChunksInv
    <3>2. /\ made' = [made EXCEPT ![c] = {}] /\ mine' = [mine EXCEPT ![c] = NoJob]
      BY <2>5 DEF ReturnFailing
    <3>3. ASSUME NEW u \in Procs
          PROVE  /\ made'[u] = made[u] \/ (made'[u] = {} /\ result'[mine[u]] # Pending)
                 /\ mine'[u] = mine[u] \/ made'[u] = {}
                 /\ mine'[u] # mine[u] =>
                      mine[u] = NoJob \/ (mine[u] \in Jobs /\ result'[mine[u]] # Pending)
      BY <1>t, <2>1, <2>2, <3>1, <3>2
    <3>4. ASSUME NEW k \in Jobs, result'[k] = Pending
          PROVE  /\ result[k] = Pending
                 /\ ran'[k] = ran[k] /\ arenas'[k] = arenas[k]
                 /\ failed[k] => failed'[k]
      BY <2>2, <2>3, <3>4
    <3> QED
      BY <1>t, <3>3, <3>4, ContentsFrame
  <2> QED
    BY <1>3, <2>4, <2>5
<1>4. ASSUME NEW c \in Callers,
             \/ StartThread(c) \/ CountThread(c) \/ Reserved(c)
             \/ Sleep(c) \/ SpuriousWake(c)
      PROVE  ContentsKept'
  BY <1>t, <1>4, ContentsFrame
     DEF StartThread, CountThread, Reserved, Sleep, SpuriousWake, thread, shared
<1>5. ASSUME NEW t \in Procs, NEW j, mine[t] = NoJob, mine' = [mine EXCEPT ![t] = j],
             UNCHANGED <<made, ran, arenas, failed, result>>
      PROVE  ContentsKept'
  <2>1. made[t] = {}
    BY <1>5 DEF ContentsKept
  <2> QED
    BY <1>t, <1>5, <2>1, ContentsFrame
<1>6. ASSUME NEW c \in Callers, Send(c)  PROVE ContentsKept'
  <2>1. mine[c] = NoJob /\ c \in Procs
    BY <1>t, <1>6 DEF ChunksInv, LInv, TypeInv, AtWork, Send, AtWorkStates,
                      ParticipantStates, Procs
  <2> QED
    BY <1>5, <1>6, <2>1 DEF Send
<1>7. ASSUME NEW w \in Workers, TakeTicket(w)  PROVE ContentsKept'
  <2>1. mine[w] = NoJob /\ w \in Procs
    BY <1>t, <1>7
       DEF ChunksInv, LInv, TypeInv, AtWork, TakeTicket, AtWorkStates,
                      ParticipantStates, Procs
  <2> QED
    BY <1>5, <1>7, <2>1 DEF TakeTicket, shared
<1>8. ASSUME NEW w \in Workers, Uncount(w) \/ Report(w)  PROVE ContentsKept'
  <2>1. CASE Uncount(w)
    BY <1>t, <2>1, ContentsFrame DEF Uncount, thread, shared
  <2>2. CASE Report(w)
    BY <2>2, FinishContents DEF Procs
  <2> QED
    BY <1>8, <2>1, <2>2
<1>9. CASE UNCHANGED vars
  BY <1>t, <1>9, ContentsFrame DEF vars, thread, shared
<1> QED
  BY <1>1, <1>2, <1>3, <1>4, <1>6, <1>7, <1>8, <1>9
     DEF Next, Over, CallerStep, WorkerStep, Procs

\* What a loop that succeeded gave its caller: every iteration's allocations.
KeptAll(j) == result[j] = Succeeded => kept[j] = 0..(count[j] - 1)

LEMMA StepKept ==
    ASSUME ChunksInv, NothingLeft, ContentsKept, [Next]_vars, NEW j \in Jobs,
           KeptAll(j)
    PROVE  KeptAll(j)'
<1>t. /\ result \in [Jobs -> Int] /\ count \in [Jobs -> Nat]
      /\ kept \in [Jobs -> SUBSET Nat] /\ ran \in [Jobs -> SUBSET Nat]
  BY StateTypes DEF ChunksInv, LInv
<1>1. CASE result[j] # Pending
  BY <1>1, OverStays DEF KeptAll
<1>2. CASE result[j] = Pending /\ result'[j] = Succeeded
  <2>0. result'[j] # result[j]
    BY <1>2 DEF Succeeded, Pending
  <2>1. ASSUME NEW c \in Callers, Begin(c)  PROVE KeptAll(j)'
    <3>n. PICK n \in Counts :
            \E B \in BadSets(n) : RunInline(c, n, B) \/ Reserve(c, n, B)
      BY <2>1 DEF Begin
    <3>1. PICK B \in BadSets(n) : RunInline(c, n, B) \/ Reserve(c, n, B)
      BY <3>n
    <3>2. RunInline(c, n, B)
      BY <2>0, <3>1 DEF Reserve
    <3>3. j = <<c, round[c] + 1>>
      BY <1>t, <2>0, <3>2 DEF RunInline
    <3>4. InOrder(n, B) = Succeeded
      BY <1>t, <1>2, <3>2, <3>3 DEF RunInline
    <3>5. B = {}
      <4>1. n \in Nat /\ B \subseteq Nat
        BY CountsAssumption DEF BadSets
      <4>2. B # {} => InOrder(n, B) \in B
        BY <4>1, InOrderType
      <4> QED
        BY <3>4, <4>1, <4>2 DEF Succeeded
    <3>6. /\ count'[j] = n /\ kept'[j] = ran'[j]
          /\ ran'[j] = {i \in 0..(n - 1) : \A k \in B : i < k}
      BY <1>t, <3>2, <3>3 DEF RunInline
    <3> QED
      BY <3>5, <3>6 DEF KeptAll
  <2>2. ASSUME NEW c \in Callers, Return(c) \/ ReturnFailing(c)  PROVE KeptAll(j)'
    <3>1. j = JobOf(c) /\ UNCHANGED <<count, ran>>
      BY <1>t, <2>0, <2>2 DEF Return, ReturnFailing, input, shared
    <3>2. failed[j] \/ next[j] >= count[j]
      BY <2>2, <3>1 DEF NothingLeft, Return, ReturnFailing
    <3>3. CASE Return(c)
      <4>1. WorkingOn(j) = {}
        BY <1>2, <3>1, <3>3, NobodyLeft DEF ChunksInv, Return, EveryoneDone
      <4>2. /\ failed[j] => failure[j].index \in Nat
            /\ ~failed[j] => ran[j] = 0..(count[j] - 1)
        BY <1>2, <3>2, <4>1, EndOutcome
      <4>3. ~failed[j]
        BY <1>t, <1>2, <3>1, <3>3, <4>2 DEF Return, Succeeded
      <4>4. UNION arenas[j] = ran[j]
        BY <1>2, <4>1, <4>3 DEF ContentsKept
      <4>5. kept'[j] = UNION arenas[j]
        BY <1>t, <3>1, <3>3, <4>3 DEF Return
      <4> QED
        BY <3>1, <4>2, <4>3, <4>4, <4>5 DEF KeptAll
    <3>4. CASE ReturnFailing(c)
      <4>1. failed[j]
        BY <3>1, <3>4 DEF NothingLeft, ReturnFailing
      <4>2. WorkingOn(j) = {c} /\ ~Running(c)
        BY <3>1, <3>4, LastOne DEF ChunksInv, ReturnFailing, Running
      <4>3. failure[j].index \in Nat
        BY <1>2, <4>1, <4>2, EndOutcome
      <4> QED
        BY <1>t, <1>2, <3>1, <3>4, <4>3 DEF ReturnFailing, Succeeded
    <3> QED
      BY <2>2, <3>3, <3>4
  <2>3. ASSUME NEW c \in Callers, CallerStep(c) \/ SpuriousWake(c)  PROVE KeptAll(j)'
    <3>1. Return(c) \/ ReturnFailing(c)
      BY <2>0, <2>3
         DEF CallerStep, StartThread, CountThread, Reserved, Send, Sleep,
         SpuriousWake, Participate, CheckFailed, TakeChunk, Iterate,
         LockGrowth, Grow,
         Leave, FailIteration
    <3> QED
      BY <2>2, <3>1
  <2>4. ASSUME NEW w \in Workers, WorkerStep(w)  PROVE FALSE
    BY <2>0, <2>4 DEF WorkerStep, TakeTicket, Uncount, Report, Participate,
       CheckFailed, TakeChunk, Iterate, LockGrowth, Grow, Leave, FailIteration
  <2>5. ~ UNCHANGED vars
    BY <2>0 DEF vars
  <2> QED
    BY <2>1, <2>3, <2>4, <2>5 DEF Next, Over
<1> QED
  BY <1>1, <1>2 DEF KeptAll

\* The whole inductive invariant: what the model checker checks as IInv.
AllInv == OutcomeInv /\ ContentsKept /\ \A j \in Jobs : KeptAll(j)

LEMMA AllAlways == Spec => []AllInv
<1>1. Init => AllInv
  <2> SUFFICES ASSUME Init PROVE AllInv
    OBVIOUS
  <2>1. OutcomeInv
    BY InitChunks DEF OutcomeInv, Init, NothingLeft, Outcome, Procs
  <2>2. ContentsKept /\ \A j \in Jobs : KeptAll(j)
    BY DEF Init, ContentsKept, KeptAll, WorkingOn, Succeeded, Pending
  <2> QED
    BY <2>1, <2>2 DEF AllInv
<1>2. AllInv /\ [Next]_vars => AllInv'
  BY StepChunks, StepLeft, StepOutcome, StepContents, StepKept
     DEF AllInv, OutcomeInv
<1> QED
  BY <1>1, <1>2, PTL DEF Spec

\* The whole inductive invariant: what the model checker checks as IInv.
THEOREM Invariant == Spec => []IInv
<1>1. AllInv /\ GrowthInv => IInv
  BY DEF AllInv, OutcomeInv, ChunksInv, Outcome, KeptAll, EarlierThan, IInv,
         LoopsOver, LowestFailureWins, EarlierIterationsRan, AllocationsKept
<1> QED
  BY <1>1, AllAlways, GrowthAlways, PTL
-----------------------------------------------------------------------------
(* The pool implements the plain loop. *)

\* What a loop returns is a plain loop's outcome.
LEMMA PlainOutcome ==
    ASSUME NEW n \in Nat, NEW B, B \subseteq 0..(n - 1)
    PROVE  InOrder(n, B) \in -1..n /\ Plain!Outcome(n, B, InOrder(n, B))
<1>1. B \subseteq Nat
  OBVIOUS
<1>2. CASE B = {}
  BY <1>2, InOrderType DEF Plain!Outcome, Plain!Succeeded, Succeeded
<1>3. CASE B # {}
  <2>1. /\ InOrder(n, B) \in B
        /\ \A k \in B : InOrder(n, B) <= k
    BY <1>1, <1>3, InOrderType
  <2>2. InOrder(n, B) \in -1..n
    <3>1. InOrder(n, B) \in 0..(n - 1)
      BY <2>1
    <3> QED
      BY <3>1
  <2>3. Plain!Outcome(n, B, InOrder(n, B))
    BY <2>1, Zenon DEF Plain!Outcome
  <2> QED
    BY <2>2, <2>3
<1> QED
  BY <1>2, <1>3

LEMMA BeginRefines ==
    ASSUME AllInv, NEW c \in Callers, Begin(c)
    PROVE  Plain!Next
<1>n. PICK n \in Counts :
        \E B \in BadSets(n) : RunInline(c, n, B) \/ Reserve(c, n, B)
  BY DEF Begin
<1>1. PICK B \in BadSets(n) : RunInline(c, n, B) \/ Reserve(c, n, B)
  BY <1>n
<1>2. n \in Nat /\ B \in SUBSET (0..(n - 1))
  BY CountsAssumption DEF BadSets
<1>3. PICK j : j = <<c, round[c] + 1>>
  OBVIOUS
<1>4. CASE RunInline(c, n, B)
  <2>1. j \in Jobs
    BY <1>3, <1>4, NextRound
       DEF RunInline, AllInv, OutcomeInv, ChunksInv
  <2>2. ran'[j] = Plain!Before(n, B)
    BY <1>3, <1>4, <2>1, StateTypes
       DEF RunInline, Plain!Before, AllInv, OutcomeInv, ChunksInv, LInv
  <2>3. /\ round[c] < Rounds
        /\ round' = [round EXCEPT ![c] = @ + 1]
        /\ count' = [count EXCEPT ![j] = n] /\ bad' = [bad EXCEPT ![j] = B]
        /\ result' = [result EXCEPT ![j] = InOrder(n, B)]
        /\ kept' = [kept EXCEPT ![j] = Plain!Before(n, B)]
    BY <1>3, <1>4, <2>2 DEF RunInline
  <2>4. InOrder(n, B) \in -1..n /\ Plain!Outcome(n, B, InOrder(n, B))
    BY <1>2, PlainOutcome
  <2>5. Plain!Begin(c, n)
    BY <1>2, <1>3, <2>3, <2>4 DEF Plain!Begin
  <2> QED
    BY <2>5 DEF Plain!Next
<1>5. CASE Reserve(c, n, B)
  <2>1. /\ round[c] < Rounds
        /\ round' = [round EXCEPT ![c] = @ + 1]
        /\ count' = [count EXCEPT ![j] = n] /\ bad' = [bad EXCEPT ![j] = B]
        /\ UNCHANGED <<kept, result>>
    BY <1>3, <1>5 DEF Reserve
  <2>2. Plain!Begin(c, n)
    BY <1>2, <1>3, <2>1 DEF Plain!Begin
  <2> QED
    BY <2>2 DEF Plain!Next
<1> QED
  BY <1>1, <1>4, <1>5

LEMMA EndRefines ==
    ASSUME AllInv, [Next]_vars, NEW c \in Callers, Return(c) \/ ReturnFailing(c)
    PROVE  Plain!Next
<1>t. ChunksInv /\ LInv /\ TypeInv /\ NothingLeft
  BY DEF AllInv, OutcomeInv, ChunksInv, LInv
<1>j. PICK j \in Jobs : j = JobOf(c)
  BY <1>t, ThisJob DEF Return, ReturnFailing
<1>1. /\ round[j[1]] >= j[2] /\ result[j] = Pending
      /\ j \in Plain!Jobs
  <2>1. result[j] = Pending
    BY <1>t, <1>j DEF LInv, Lifecycle, JobOf, Return, ReturnFailing
  <2>2. round[j[1]] = j[2] /\ j[2] \in Nat
    BY <1>t, <1>j, JobFacts DEF JobOf
  <2> QED
    BY <2>1, <2>2 DEF Jobs, Plain!Jobs
<1>2. UNCHANGED <<round, count, bad>>
  BY DEF Return, ReturnFailing, input
<1>3. result' = [result EXCEPT ![j] = result'[j]] /\ result'[j] # Pending
  <2>1. result' = [result EXCEPT ![j] = result'[j]]
    BY <1>t, <1>j, StateTypes DEF Return, ReturnFailing
  <2>2. pc'[c] = "idle"
    BY <1>t, <1>j, StateTypes DEF Return, ReturnFailing, Procs
  <2>3. LInv'
    BY <1>t, StepLInv
  <2>4. result'[j] # Pending
    BY <1>j, <1>2, <2>2, <2>3 DEF LInv, Lifecycle, JobOf
  <2> QED
    BY <2>1, <2>4
<1>4. /\ count[j] \in Nat /\ bad[j] \subseteq 0..(count[j] - 1)
      /\ failed[j] => bad[j] # {}
  BY <1>t, <1>1, StateTypes
     DEF ChunksInv, ChunksCovered, FailureRecorded
<1>5. result'[j] = InOrder(count[j], bad[j])
  <2>1. Outcome(j)'
    BY <1>t, StepOutcome DEF AllInv, OutcomeInv
  <2> QED
    BY <1>2, <1>3, <2>1 DEF Outcome
<1>6. result'[j] \in -1..count[j] /\ Plain!Outcome(count[j], bad[j], result'[j])
  BY <1>4, <1>5, PlainOutcome
<1>7. kept' = IF bad[j] = {} THEN [kept EXCEPT ![j] = 0..(count[j] - 1)] ELSE kept
  <2>1. CASE failed[j]
    BY <1>j, <1>4, <2>1 DEF Return, ReturnFailing
  <2>2. CASE ~failed[j]
    <3>1. Return(c) /\ kept' = [kept EXCEPT ![j] = UNION arenas[j]]
      BY <1>t, <1>j, <2>2 DEF Return, ReturnFailing, NothingLeft
    <3>2. bad[j] = {}
      <4>1. WorkingOn(j) = {} /\ next[j] >= count[j]
        BY <1>t, <1>1, <1>j, <2>2, <3>1, NobodyLeft
           DEF Return, EveryoneDone, NothingLeft
      <4> QED
        BY <1>t, <1>1, <2>2, <4>1, EndOutcome
    <3>3. KeptAll(j)' /\ result'[j] = Succeeded
      <4>1. KeptAll(j)'
        BY <1>t, StepKept DEF AllInv
      <4> QED
        BY <1>5, <3>2, <4>1 DEF InOrder
    <3>4. kept'[j] = 0..(count[j] - 1)
      BY <1>2, <3>3 DEF KeptAll
    <3>5. kept'[j] = UNION arenas[j]
      BY <1>t, <3>1, StateTypes
    <3> QED
      BY <3>1, <3>2, <3>4, <3>5
  <2> QED
    BY <2>1, <2>2
<1>8. Plain!End(j)
  BY <1>1, <1>2, <1>3, <1>6, <1>7 DEF Plain!End, Plain!Pending, Pending
<1> QED
  BY <1>1, <1>8 DEF Plain!Next

\* par.rs l.3-16: every step of the pool begins a plain loop, ends one with
\* its outcome, or is not visible.
THEOREM RefinesPlainFor == Spec => Plain!Init /\ [][Plain!Next]_(Plain!vars)
<1>1. Init => Plain!Init
  BY DEF Init, Plain!Init, Plain!Jobs, Jobs, Plain!Pending, Pending
<1>2. AllInv /\ [Next]_vars => [Plain!Next]_(Plain!vars)
  <2> SUFFICES ASSUME AllInv, [Next]_vars
               PROVE  Plain!Next \/ UNCHANGED Plain!vars
    OBVIOUS
  <2>1. ASSUME NEW t \in Procs, Participate(t)  PROVE UNCHANGED Plain!vars
    BY <2>1
       DEF Plain!vars, Participate, CheckFailed, TakeChunk, Iterate, LockGrowth,
       Grow, Leave, FailIteration, input
  <2>2. ASSUME NEW c \in Callers,
               \/ StartThread(c) \/ CountThread(c) \/ Reserved(c) \/ Send(c)
               \/ Sleep(c) \/ SpuriousWake(c)
        PROVE  UNCHANGED Plain!vars
    BY <2>2 DEF Plain!vars, StartThread, CountThread, Reserved, Send, Sleep,
       SpuriousWake, input
  <2>3. ASSUME NEW w \in Workers, TakeTicket(w) \/ Uncount(w) \/ Report(w)
        PROVE  UNCHANGED Plain!vars
    BY <2>3 DEF Plain!vars, TakeTicket, Uncount, Report, input
  <2>4. CASE UNCHANGED vars
    BY <2>4 DEF vars, input, Plain!vars
  <2> QED
    BY <2>1, <2>2, <2>3, <2>4, BeginRefines, EndRefines
       DEF Next, Over, CallerStep, WorkerStep, Procs
<1> QED
  BY <1>1, <1>2, AllAlways, PTL DEF Spec
=============================================================================
