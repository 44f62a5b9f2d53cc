----------------------------- MODULE TokenBucket -----------------------------
(***************************************************************************)
(* What the rate limiter promises to its callers, with no timer and no     *)
(* bookkeeping of elapsed time: a bucket that fills by itself, holds at    *)
(* most Burst, and pays Unit for each request it lets through, in the      *)
(* order in which the requests came.                                       *)
(***************************************************************************)
EXTENDS Integers, Sequences

CONSTANTS Callers,
          Burst, Unit, Rate,   \* capacity, price of a request, fill per tick
          MaxQueue

VARIABLES level, queue, status, open

bucketVars == <<level, queue, status, open>>

Statuses == {"idle", "waiting", "granted", "refused", "cancelled"}

BucketInit ==
    /\ level = Burst /\ queue = <<>> /\ open = TRUE
    /\ status = [c \in Callers |-> "idle"]

Least(a, b) == IF a <= b THEN a ELSE b

Fill == /\ level' = Least(Burst, level + Rate)
        /\ UNCHANGED <<queue, status, open>>

\* The wall clock is set back: permission to send is lost, never gained.
Leak == /\ level' \in Int /\ level' < level
        /\ UNCHANGED <<queue, status, open>>

\* n waiters can be paid for, and no more than n.
Affordable(n, amount) ==
    /\ n \in 0 .. Len(queue)
    /\ n > 0 => amount >= n * Unit
    /\ n < Len(queue) => amount - n * Unit < Unit

Head_(n) == {queue[i] : i \in 1 .. n}
Tail_(n) == SubSeq(queue, n + 1, Len(queue))
Granted(n) == [c \in Callers |-> IF c \in Head_(n) THEN "granted" ELSE status[c]]

Serve(n) ==
    /\ Affordable(n, level)
    /\ level' = level - n * Unit
    /\ queue' = Tail_(n)
    /\ status' = Granted(n)
    /\ UNCHANGED open

\* A request arrives when the first n waiters can be served: it is let through
\* only if nobody is left waiting before it.
Arrive(c, n) ==
    LET rest == level - n * Unit
    IN /\ open /\ status[c] # "waiting"
       /\ Affordable(n, level)
       /\ \/ /\ rest >= Unit /\ Tail_(n) = <<>>
             /\ level' = rest - Unit /\ queue' = <<>>
             /\ status' = [Granted(n) EXCEPT ![c] = "granted"]
          \/ /\ rest < Unit /\ Len(queue) - n < MaxQueue
             /\ level' = rest /\ queue' = Append(Tail_(n), c)
             /\ status' = [Granted(n) EXCEPT ![c] = "waiting"]
          \/ /\ rest < Unit /\ Len(queue) - n >= MaxQueue
             /\ level' = rest /\ queue' = Tail_(n)
             /\ status' = [Granted(n) EXCEPT ![c] = "refused"]
       /\ UNCHANGED open

TurnAway(c) ==
    /\ ~open /\ status[c] # "waiting"
    /\ status' = [status EXCEPT ![c] = "cancelled"]
    /\ UNCHANGED <<level, queue, open>>

Close ==
    /\ open' = FALSE /\ queue' = <<>>
    /\ status' = [c \in Callers |-> IF status[c] = "waiting" THEN "cancelled" ELSE status[c]]
    /\ UNCHANGED level

BucketNext ==
    \/ Fill \/ Leak \/ Close
    \/ \E n \in 0 .. Len(queue) : Serve(n)
    \/ \E c \in Callers : TurnAway(c) \/ \E n \in 0 .. Len(queue) : Arrive(c, n)

BucketSpec == BucketInit /\ [][BucketNext]_bucketVars

=============================================================================
