----------------------------- MODULE RateLimiter -----------------------------
(***************************************************************************)
(* The token bucket that all targets share: src/src/middleware/            *)
(* rate-limiter.ts.  Tokens are fractional in the code; here they are      *)
(* counted in units, Unit of them to a token, and time passes in ticks of  *)
(* Rate units each.  acquire(), the timer's callback and destroy() run     *)
(* without an await inside, so each is one step.                           *)
(***************************************************************************)
EXTENDS Integers, Sequences

CONSTANTS Callers,
          Burst,      \* maxTokens, in units
          Unit,       \* one token, in units
          Rate,       \* refillRate: units per tick of the clock
          MaxQueue,   \* maxQueue
          MaxBack     \* bound: by how many ticks in all the wall clock is set back

ASSUME LimiterAssumption ==
    /\ Unit \in Nat \ {0} /\ Rate \in Nat \ {0}
    /\ Burst \in Nat /\ Burst >= Unit
    /\ MaxQueue \in Nat /\ MaxBack \in Nat

VARIABLES
    tokens,       \* this.tokens
    elapsed,      \* Date.now() - this.lastRefill
    waitQueue,    \* this.waitQueue
    refillTimer,  \* is this.refillTimer set?
    destroyed,    \* this.destroyed
    status,       \* what acquire() did with each caller's promise
    back          \* ticks the clock was set back so far

vars == <<tokens, elapsed, waitQueue, refillTimer, destroyed, status, back>>

Statuses == {"idle", "waiting", "granted", "refused", "cancelled"}

TypeOK ==
    /\ tokens \in Int /\ tokens <= Burst
    /\ elapsed \in Int
    /\ waitQueue \in Seq(Callers)
    /\ refillTimer \in BOOLEAN /\ destroyed \in BOOLEAN
    /\ status \in [Callers -> Statuses]
    /\ back \in 0 .. MaxBack

Init ==
    /\ tokens = Burst /\ elapsed = 0
    /\ waitQueue = <<>> /\ refillTimer = FALSE /\ destroyed = FALSE
    /\ status = [c \in Callers |-> "idle"]
    /\ back = 0

----------------------------------------------------------------------------

Least(a, b) == IF a <= b THEN a ELSE b
Refilled == Least(Burst, tokens + elapsed * Rate)

\* The while loop of refill(): it wakes the first n waiters, one token each,
\* and stops at the end of the queue or of the tokens.
WakesNobody(n) == n = 0
Wakes(n) ==
    /\ n \in 0 .. Len(waitQueue)
    /\ n > 0 => Refilled >= n * Unit
    /\ n < Len(waitQueue) => Refilled - n * Unit < Unit

Woken(n) == {waitQueue[i] : i \in 1 .. n}
Left(n) == SubSeq(waitQueue, n + 1, Len(waitQueue))
Resolved(n) == [c \in Callers |-> IF c \in Woken(n) THEN "granted" ELSE status[c]]

Admits(c) == ~destroyed /\ status[c] # "waiting"
Full(n) == Len(Left(n)) >= MaxQueue

\* acquire(): refill() first, then a token, a refusal, or a place in the queue.
Acquire(c, n) ==
    LET rest == Refilled - n * Unit
    IN /\ Admits(c)
       /\ Wakes(n)
       /\ elapsed' = 0
       /\ \/ /\ rest >= Unit
             /\ tokens' = rest - Unit
             /\ waitQueue' = Left(n)
             /\ status' = [Resolved(n) EXCEPT ![c] = "granted"]
             /\ UNCHANGED refillTimer
          \/ /\ rest < Unit /\ Full(n)
             /\ tokens' = rest
             /\ waitQueue' = Left(n)
             /\ status' = [Resolved(n) EXCEPT ![c] = "refused"]
             /\ UNCHANGED refillTimer
          \/ /\ rest < Unit /\ ~Full(n)
             /\ tokens' = rest
             /\ waitQueue' = Append(Left(n), c)
             /\ status' = [Resolved(n) EXCEPT ![c] = "waiting"]
             /\ refillTimer' = TRUE
       /\ UNCHANGED <<destroyed, back>>

AcquireDestroyed(c) ==
    /\ destroyed /\ status[c] # "waiting"
    /\ status' = [status EXCEPT ![c] = "cancelled"]
    /\ UNCHANGED <<tokens, elapsed, waitQueue, refillTimer, destroyed, back>>

\* The interval's callback, which stops the interval once nobody waits.
RefillTickOnce(n) ==
    /\ refillTimer /\ refillTimer' = FALSE
    /\ Wakes(n)
    /\ elapsed' = 0 /\ tokens' = Refilled - n * Unit
    /\ waitQueue' = Left(n) /\ status' = Resolved(n)
    /\ UNCHANGED <<destroyed, back>>

RefillTick(n) ==
    /\ refillTimer
    /\ Wakes(n)
    /\ elapsed' = 0
    /\ tokens' = Refilled - n * Unit
    /\ waitQueue' = Left(n)
    /\ status' = Resolved(n)
    /\ refillTimer' = (Left(n) # <<>>)
    /\ UNCHANGED <<destroyed, back>>

Rejected == [c \in Callers |-> IF \E i \in 1 .. Len(waitQueue) : waitQueue[i] = c
                              THEN "cancelled" ELSE status[c]]

DestroyReleases ==
    /\ destroyed' = TRUE /\ refillTimer' = FALSE /\ waitQueue' = <<>>
    /\ status' = Resolved(Len(waitQueue))
    /\ UNCHANGED <<tokens, elapsed, back>>

DestroyLimiter ==
    /\ destroyed' = TRUE /\ refillTimer' = FALSE /\ waitQueue' = <<>>
    /\ status' = Rejected
    /\ UNCHANGED <<tokens, elapsed, back>>

\* Date.now() advances; past a full bucket it makes no difference.
TimePasses ==
    /\ tokens + elapsed * Rate <= Burst
    /\ elapsed' = elapsed + 1
    /\ UNCHANGED <<tokens, waitQueue, refillTimer, destroyed, status, back>>

\* Date.now() is a wall clock: it can be set back, and elapsed be negative.
ClockSetBack ==
    /\ back < MaxBack /\ back' = back + 1
    /\ elapsed' = elapsed - 1
    /\ UNCHANGED <<tokens, waitQueue, refillTimer, destroyed, status>>

Next ==
    \/ \E c \in Callers :
          AcquireDestroyed(c) \/ \E n \in 0 .. Len(waitQueue) : Acquire(c, n)
    \/ \E n \in 0 .. Len(waitQueue) : RefillTick(n)
    \/ DestroyLimiter \/ TimePasses \/ ClockSetBack

Spec == Init /\ [][Next]_vars

\* The interval fires as long as it is set, and time goes on.
Fairness == /\ WF_vars(\E n \in 0 .. Len(waitQueue) : RefillTick(n))
            /\ WF_vars(TimePasses)
FairSpec == Spec /\ Fairness

----------------------------------------------------------------------------
(* What must hold.                                                           *)

\* No waiter is stranded: while someone queues, the interval is armed to serve
\* them; and nobody is kept waiting beside a token that is there to be had.
NoStrandedWaiter ==
    waitQueue # <<>> => refillTimer /\ ~destroyed /\ tokens < Unit

\* The queue and the promises agree: each pending caller has one place.
WaitersAreQueued ==
    /\ \A c \in Callers : status[c] = "waiting" <=> \E i \in 1 .. Len(waitQueue) : waitQueue[i] = c
    /\ \A i, j \in 1 .. Len(waitQueue) : waitQueue[i] = waitQueue[j] => i = j

\* Backpressure: the queue never grows past its limit.
QueueBounded == Len(waitQueue) <= MaxQueue

\* Nobody overtakes: a newcomer is let through only past an empty queue, and a
\* waiter only together with all who came before it.
NoOvertaking ==
    [][\A c \in Callers : status[c] # "granted" /\ status'[c] = "granted" =>
          IF status[c] = "waiting"
          THEN \A i, j \in 1 .. Len(waitQueue) :
                  waitQueue[j] = c /\ i < j => status'[waitQueue[i]] = "granted"
          ELSE waitQueue' = <<>>]_vars

\* After destroy() no request is let through to a session being logged out.
NothingAfterDestroy ==
    [][destroyed => \A c \in Callers : status'[c] = "granted" => status[c] = "granted"]_vars

\* Every waiter is eventually served or cancelled, also after clock steps.
WaitersServed == \A c \in Callers : status[c] = "waiting" ~> status[c] # "waiting"

\* The lazy refills, the interval and the queue implement the plain bucket.
Bucket == INSTANCE TokenBucket WITH
              level <- Refilled, queue <- waitQueue, open <- ~destroyed

ImplementsBucket == Bucket!BucketSpec

=============================================================================
