------------------------------ MODULE PlainFor ------------------------------
(***************************************************************************)
(* What a `par for` promises: the loop gives what a plain `for` over       *)
(* 0..n-1 gives.  It succeeds when no iteration fails, and then the        *)
(* caller's arena holds what every iteration allocated; otherwise it       *)
(* reports the first failing iteration of the order a plain `for` runs in. *)
(* Threads, chunks and the pool are not visible here.                      *)
(***************************************************************************)
EXTENDS Integers

CONSTANTS Callers, Counts, Rounds

VARIABLES
    round,  \* how many loops each caller has begun
    count,  \* each loop's number of iterations
    bad,    \* each loop's failing iterations
    kept,   \* iterations whose allocations the caller's arena holds
    result  \* Pending, Succeeded, or the iteration reported

vars == <<round, count, bad, kept, result>>

Jobs      == Callers \X (1..Rounds)
Pending   == -2
Succeeded == -1

Init ==
    /\ round = [c \in Callers |-> 0]
    /\ count = [j \in Jobs |-> 0]
    /\ bad = [j \in Jobs |-> {}]
    /\ kept = [j \in Jobs |-> {}]
    /\ result = [j \in Jobs |-> Pending]

\* The iterations a plain `for` completes, and what it returns.
Before(n, B) == {i \in 0..(n - 1) : \A k \in B : i < k}

Outcome(n, B, r) ==
    \/ B = {} /\ r = Succeeded
    \/ r \in B /\ \A k \in B : r <= k

\* A loop begins; an inline one may be over in the same step.
Begin(c, n) ==
    /\ round[c] < Rounds
    /\ LET j == <<c, round[c] + 1>> IN
        /\ round' = [round EXCEPT ![c] = @ + 1]
        /\ count' = [count EXCEPT ![j] = n]
        /\ \E B \in SUBSET (0..(n - 1)) :
            /\ bad' = [bad EXCEPT ![j] = B]
            /\ \/ UNCHANGED <<kept, result>>
               \/ /\ \E r \in -1..n :
                      /\ Outcome(n, B, r)
                      /\ result' = [result EXCEPT ![j] = r]
                  /\ kept' = [kept EXCEPT ![j] = Before(n, B)]

\* A loop ends.  After a failure nothing is adopted: the program is over.
End(j) ==
    /\ round[j[1]] >= j[2] /\ result[j] = Pending
    /\ \E r \in -1..count[j] :
        /\ Outcome(count[j], bad[j], r)
        /\ result' = [result EXCEPT ![j] = r]
    /\ kept' = IF bad[j] = {} THEN [kept EXCEPT ![j] = 0..(count[j] - 1)] ELSE kept
    /\ UNCHANGED <<round, count, bad>>

Next ==
    \/ \E c \in Callers, n \in Counts : Begin(c, n)
    \/ \E j \in Jobs : End(j)

Spec == Init /\ [][Next]_vars /\ \A j \in Jobs : WF_vars(End(j))
=============================================================================
