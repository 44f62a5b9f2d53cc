-------------------------- MODULE RateLimiterProofs --------------------------
(***************************************************************************)
(* Theorems about RateLimiter, for every number of callers, capacity, rate *)
(* and queue limit, and for any amount of setting the clock back.          *)
(***************************************************************************)
EXTENDS RateLimiter, SequenceTheorems, TLAPS

USE DEF Admits, Full, Rejected

\* refill() leaves a whole number of units, at most a full bucket.
LEMMA RefilledType ==
    ASSUME TypeOK
    PROVE  Refilled \in Int /\ Refilled <= Burst
<1>1. elapsed * Rate \in Int BY LimiterAssumption DEF TypeOK
<1> QED BY <1>1, LimiterAssumption DEF TypeOK, Refilled, Least

\* What the loop of refill() leaves in the queue is its tail.
LEMMA LeftType ==
    ASSUME TypeOK, NEW n \in 0 .. Len(waitQueue)
    PROVE  /\ Left(n) \in Seq(Callers)
           /\ Len(Left(n)) = Len(waitQueue) - n
           /\ \A i \in 1 .. Len(Left(n)) : Left(n)[i] = waitQueue[i + n]
BY DEF TypeOK, Left

\* Nothing is left exactly when the loop reached the end of the queue.
LEMMA LeftEmpty ==
    ASSUME TypeOK, NEW n \in 0 .. Len(waitQueue)
    PROVE  Left(n) = <<>> <=> n = Len(waitQueue)
<1>1. Left(n) = <<>> <=> Len(Left(n)) = 0
  BY LeftType, EmptySeq, SeqEqual
<1> QED BY <1>1, LeftType DEF TypeOK

\* A caller parked behind the waiters that are left.
LEMMA ParkedType ==
    ASSUME TypeOK, NEW n \in 0 .. Len(waitQueue), NEW c \in Callers
    PROVE  /\ Append(Left(n), c) \in Seq(Callers)
           /\ Len(Append(Left(n), c)) = Len(waitQueue) - n + 1
           /\ Append(Left(n), c)[Len(waitQueue) - n + 1] = c
           /\ \A i \in 1 .. Len(waitQueue) - n : Append(Left(n), c)[i] = waitQueue[i + n]
           /\ Append(Left(n), c) # <<>>
<1>1. Left(n) \in Seq(Callers) /\ Len(Left(n)) = Len(waitQueue) - n
  BY LeftType
<1>2. Len(waitQueue) \in Nat BY DEF TypeOK
<1> DEFINE l == Left(n)
<1>3. \A i \in 1 .. Len(l) : l[i] = waitQueue[i + n] BY LeftType
<1>4. l \in Seq(Callers) /\ Len(l) = Len(waitQueue) - n BY <1>1
<1> HIDE DEF l
<1>5. /\ Append(l, c) \in Seq(Callers)
      /\ Len(Append(l, c)) = Len(l) + 1
      /\ Append(l, c)[Len(l) + 1] = c
      /\ \A i \in 1 .. Len(l) : Append(l, c)[i] = l[i]
  BY <1>4
<1>6. Append(l, c) # <<>> BY <1>4, <1>5, EmptySeq
<1> QED BY <1>2, <1>3, <1>4, <1>5, <1>6 DEF l

LEMMA ResolvedType ==
    ASSUME TypeOK, NEW n
    PROVE  Resolved(n) \in [Callers -> Statuses]
BY DEF TypeOK, Resolved, Statuses

\* The three ways in which acquire() leaves tokens, queue and timer are typed.
LEMMA AcquireType ==
    ASSUME TypeOK, NEW c \in Callers, NEW n \in 0 .. Len(waitQueue), Acquire(c, n)
    PROVE  TypeOK'
<1> USE LimiterAssumption
<1>1. n * Unit \in Int /\ n * Unit >= 0 OBVIOUS
<1>2. tokens' \in Int /\ tokens' <= Burst
  BY <1>1, RefilledType DEF Acquire
<1>3. waitQueue' \in Seq(Callers)
  <2>1. waitQueue' = Left(n) \/ waitQueue' = Append(Left(n), c)
    BY DEF Acquire
  <2>2. Left(n) \in Seq(Callers) /\ Append(Left(n), c) \in Seq(Callers)
    BY LeftType, ParkedType
  <2> QED BY <2>1, <2>2
<1>4. status' \in [Callers -> Statuses]
  BY ResolvedType DEF Acquire, Statuses
<1>5. refillTimer' \in BOOLEAN
  BY DEF Acquire, TypeOK
<1>6. elapsed' = 0 /\ destroyed' = destroyed /\ back' = back
  BY DEF Acquire
<1> QED BY <1>2, <1>3, <1>4, <1>5, <1>6 DEF TypeOK

LEMMA InitTyped == Init => TypeOK
<1> SUFFICES ASSUME Init PROVE TypeOK
  OBVIOUS
<1>1. tokens \in Int /\ tokens <= Burst /\ elapsed \in Int /\ back \in 0 .. MaxBack
  BY LimiterAssumption DEF Init
<1>2. waitQueue \in Seq(Callers)
  BY EmptySeq DEF Init
<1>3. refillTimer \in BOOLEAN /\ destroyed \in BOOLEAN
  BY DEF Init
<1>4. status \in [Callers -> Statuses]
  BY DEF Init, Statuses
<1> QED BY <1>1, <1>2, <1>3, <1>4 DEF TypeOK

LEMMA StepTyped == TypeOK /\ [Next]_vars => TypeOK'
<1> SUFFICES ASSUME TypeOK, [Next]_vars PROVE TypeOK'
  OBVIOUS
<1> USE LimiterAssumption
<1>1. CASE UNCHANGED vars
  BY <1>1 DEF vars, TypeOK
<1>2. ASSUME NEW c \in Callers, NEW n \in 0 .. Len(waitQueue), Acquire(c, n) PROVE TypeOK'
  BY <1>2, AcquireType
<1>3. ASSUME NEW c \in Callers, AcquireDestroyed(c) PROVE TypeOK'
  BY <1>3 DEF AcquireDestroyed, TypeOK, Statuses
<1>4. ASSUME NEW n \in 0 .. Len(waitQueue), RefillTick(n) PROVE TypeOK'
  <2>1. n * Unit \in Int /\ n * Unit >= 0 OBVIOUS
  <2>2. tokens' \in Int /\ tokens' <= Burst
    BY <1>4, <2>1, RefilledType DEF RefillTick
  <2> QED BY <1>4, <2>2, LeftType, ResolvedType DEF RefillTick, TypeOK
<1>5. CASE DestroyLimiter
  <2>1. waitQueue' \in Seq(Callers)
    BY <1>5, EmptySeq DEF DestroyLimiter
  <2>2. status' \in [Callers -> Statuses]
    BY <1>5 DEF DestroyLimiter, TypeOK, Statuses
  <2>3. refillTimer' \in BOOLEAN /\ destroyed' \in BOOLEAN
    BY <1>5 DEF DestroyLimiter
  <2>4. UNCHANGED <<tokens, elapsed, back>>
    BY <1>5 DEF DestroyLimiter
  <2> QED BY <2>1, <2>2, <2>3, <2>4 DEF TypeOK
<1>6. CASE TimePasses
  BY <1>6 DEF TimePasses, TypeOK
<1>7. CASE ClockSetBack
  BY <1>7 DEF ClockSetBack, TypeOK
<1> QED BY <1>1, <1>2, <1>3, <1>4, <1>5, <1>6, <1>7 DEF Next

\* The type invariant holds: no step leaves the bucket over-full or mistyped.
THEOREM TypeCorrect == Spec => []TypeOK
BY InitTyped, StepTyped, PTL DEF Spec

----------------------------------------------------------------------------
(* The queue.  NoStrandedWaiter and WaitersAreQueued are inductive together  *)
(* with the bound on the queue: a step that parks a caller must know that    *)
(* every other place is somebody else's.                                     *)

QueueInv == TypeOK /\ NoStrandedWaiter /\ WaitersAreQueued /\ QueueBounded

\* Waking the first n waiters leaves a queue that agrees with the promises.
LEMMA WakingAgrees ==
    ASSUME TypeOK, WaitersAreQueued, NEW n \in 0 .. Len(waitQueue)
    PROVE  /\ \A c \in Callers : Resolved(n)[c] = "waiting" <=>
                                    \E i \in 1 .. Len(Left(n)) : Left(n)[i] = c
           /\ \A i, j \in 1 .. Len(Left(n)) : Left(n)[i] = Left(n)[j] => i = j
<1> DEFINE q == waitQueue
<1>1. /\ Len(Left(n)) = Len(q) - n /\ Len(q) \in Nat
      /\ \A i \in 1 .. Len(q) - n : Left(n)[i] = q[i + n]
  BY LeftType DEF TypeOK
<1>2. \A i, j \in 1 .. Len(q) : q[i] = q[j] => i = j
  BY DEF WaitersAreQueued
<1>3. ASSUME NEW i \in 1 .. Len(Left(n)), NEW j \in 1 .. Len(Left(n)), Left(n)[i] = Left(n)[j]
      PROVE  i = j
  <2>1. i + n \in 1 .. Len(q) /\ j + n \in 1 .. Len(q) BY <1>1
  <2>2. q[i + n] = q[j + n] BY <1>1, <1>3
  <2> QED BY <1>2, <2>1, <2>2
<1>4. ASSUME NEW c \in Callers
      PROVE  Resolved(n)[c] = "waiting" <=> \E i \in 1 .. Len(Left(n)) : Left(n)[i] = c
  <2>1. Resolved(n)[c] = IF \E i \in 1 .. n : q[i] = c THEN "granted" ELSE status[c]
    BY DEF Resolved, Woken
  <2>2. status[c] = "waiting" <=> \E i \in 1 .. Len(q) : q[i] = c
    BY DEF WaitersAreQueued
  <2>3. CASE \E i \in 1 .. n : q[i] = c
    <3>1. Resolved(n)[c] # "waiting" BY <2>1, <2>3
    <3>2. ~ \E i \in 1 .. Len(q) - n : q[i + n] = c
      BY <1>1, <1>2, <2>3
    <3> QED BY <1>1, <3>1, <3>2
  <2>4. CASE ~ \E i \in 1 .. n : q[i] = c
    <3>1. Resolved(n)[c] = status[c] BY <2>1, <2>4
    <3>2. (\E i \in 1 .. Len(q) : q[i] = c) <=> (\E i \in 1 .. Len(q) - n : q[i + n] = c)
      <4>1. ASSUME NEW i \in 1 .. Len(q), q[i] = c
            PROVE  \E k \in 1 .. Len(q) - n : q[k + n] = c
        <5>1. i - n \in 1 .. Len(q) - n /\ q[(i - n) + n] = c
          BY <1>1, <2>4, <4>1
        <5> QED BY <5>1
      <4>2. ASSUME NEW i \in 1 .. Len(q) - n, q[i + n] = c
            PROVE  \E k \in 1 .. Len(q) : q[k] = c
        BY <1>1, <4>2
      <4> QED BY <4>1, <4>2
    <3> QED BY <1>1, <2>2, <3>1, <3>2
  <2> QED BY <2>3, <2>4
<1> QED BY <1>3, <1>4

\* acquire() keeps the queue in order, whichever way it ends.
LEMMA AcquireQueue ==
    ASSUME QueueInv, NEW c \in Callers, NEW n \in 0 .. Len(waitQueue), Acquire(c, n)
    PROVE  NoStrandedWaiter' /\ WaitersAreQueued' /\ QueueBounded'
<1> USE LimiterAssumption
<1>1. TypeOK /\ WaitersAreQueued BY DEF QueueInv
<1>2. Len(waitQueue) \in Nat BY <1>1 DEF TypeOK
<1>3. n * Unit \in Int /\ Refilled \in Int BY <1>1, RefilledType
<1>4. /\ Len(Left(n)) = Len(waitQueue) - n
      /\ Left(n) = <<>> <=> n = Len(waitQueue)
  BY <1>1, LeftType, LeftEmpty
<1>5. /\ \A d \in Callers : Resolved(n)[d] = "waiting" <=>
                               \E i \in 1 .. Len(Left(n)) : Left(n)[i] = d
      /\ \A i, j \in 1 .. Len(Left(n)) : Left(n)[i] = Left(n)[j] => i = j
  BY <1>1, WakingAgrees
<1>6. ~ \E i \in 1 .. Len(Left(n)) : Left(n)[i] = c
  <2>1. Resolved(n)[c] # "waiting" BY DEF Acquire, Resolved
  <2> QED BY <2>1, <1>5
<1>7. Resolved(n) \in [Callers -> Statuses] BY <1>1, ResolvedType
<1>8. Len(waitQueue) <= MaxQueue BY DEF QueueInv, QueueBounded
<1>9. CASE waitQueue' = Left(n) /\ \E r \in {"granted", "refused"} :
                                      status' = [Resolved(n) EXCEPT ![c] = r]
  <2>1. WaitersAreQueued'
    BY <1>5, <1>6, <1>7, <1>9 DEF WaitersAreQueued
  <2>2. QueueBounded' BY <1>2, <1>4, <1>8, <1>9 DEF QueueBounded
  <2>3. NoStrandedWaiter'
    <3> SUFFICES ASSUME Left(n) # <<>>
                 PROVE  refillTimer' /\ ~destroyed' /\ tokens' < Unit
      BY <1>9 DEF NoStrandedWaiter
    <3>1. Refilled - n * Unit < Unit BY <1>2, <1>4 DEF Acquire, Wakes
    <3>2. waitQueue # <<>> BY <1>1, <1>2, <1>4, EmptySeq DEF TypeOK
    <3>3. refillTimer BY <3>2 DEF QueueInv, NoStrandedWaiter
    <3>4. waitQueue' # Append(Left(n), c)
      BY <1>1, <1>2, <1>4, <1>9, ParkedType
    <3>5. tokens' = Refilled - n * Unit /\ UNCHANGED refillTimer
      BY <1>3, <3>1, <3>4 DEF Acquire
    <3> QED BY <3>1, <3>3, <3>5 DEF Acquire
  <2> QED BY <2>1, <2>2, <2>3
<1>10. CASE /\ waitQueue' = Append(Left(n), c) /\ Len(Left(n)) < MaxQueue
            /\ status' = [Resolved(n) EXCEPT ![c] = "waiting"]
            /\ refillTimer' = TRUE /\ tokens' = Refilled - n * Unit
            /\ Refilled - n * Unit < Unit
  <2> DEFINE l == Left(n)
             q == Append(Left(n), c)
  <2>1. /\ Len(q) = Len(l) + 1 /\ q[Len(l) + 1] = c /\ Len(l) \in Nat
        /\ \A i \in 1 .. Len(l) : q[i] = l[i]
    BY <1>1, <1>2, <1>4, ParkedType, LeftType
  <2>2. QueueBounded' BY <1>10, <2>1 DEF QueueBounded
  <2>3. NoStrandedWaiter' BY <1>10 DEF NoStrandedWaiter, Acquire
  <2>4. \A i, j \in 1 .. Len(q) : q[i] = q[j] => i = j
    <3> HIDE DEF q, l
    <3>1. \A i, j \in 1 .. Len(l) : l[i] = l[j] => i = j BY <1>5 DEF l
    <3>2. ~ \E i \in 1 .. Len(l) : l[i] = c BY <1>6 DEF l
    <3> QED BY <2>1, <3>1, <3>2
  <2>5. ASSUME NEW d \in Callers
        PROVE  status'[d] = "waiting" <=> \E i \in 1 .. Len(q) : q[i] = d
    <3> HIDE DEF q, l
    <3>1. Resolved(n)[d] = "waiting" <=> \E i \in 1 .. Len(l) : l[i] = d BY <1>5 DEF l
    <3>2. d # c => status'[d] = Resolved(n)[d] BY <1>7, <1>10
    <3>3. status'[c] = "waiting" BY <1>7, <1>10
    <3> QED BY <2>1, <3>1, <3>2, <3>3
  <2>6. WaitersAreQueued' BY <1>10, <2>4, <2>5 DEF WaitersAreQueued
  <2> QED BY <2>2, <2>3, <2>6
<1>11. ~Full(n) <=> Len(Left(n)) < MaxQueue BY <1>2, <1>4 DEF Full
<1> HIDE DEF Full
<1> QED BY <1>9, <1>10, <1>11 DEF Acquire

LEMMA QueueInvariant == Spec => []QueueInv
<1>1. Init => QueueInv
  <2>1. Init => waitQueue = <<>> /\ Len(waitQueue) = 0 BY EmptySeq DEF Init
  <2>2. Init => NoStrandedWaiter BY DEF Init, NoStrandedWaiter
  <2>3. Init => WaitersAreQueued BY <2>1 DEF Init, WaitersAreQueued
  <2>4. Init => QueueBounded BY <2>1, LimiterAssumption DEF QueueBounded
  <2> QED BY <2>2, <2>3, <2>4, InitTyped DEF QueueInv
<1>2. QueueInv /\ [Next]_vars => QueueInv'
  <2> SUFFICES ASSUME QueueInv, [Next]_vars PROVE QueueInv'
    OBVIOUS
  <2> USE LimiterAssumption
  <2>0. TypeOK' BY StepTyped DEF QueueInv
  <2>1. CASE UNCHANGED vars
    BY <2>0, <2>1 DEF vars, QueueInv, NoStrandedWaiter, WaitersAreQueued, QueueBounded
  <2>2. ASSUME NEW c \in Callers, NEW n \in 0 .. Len(waitQueue), Acquire(c, n) PROVE QueueInv'
    BY <2>0, <2>2, AcquireQueue DEF QueueInv
  <2>3. ASSUME NEW c \in Callers, AcquireDestroyed(c) PROVE QueueInv'
    <3>1. WaitersAreQueued'
      BY <2>3 DEF AcquireDestroyed, QueueInv, WaitersAreQueued, TypeOK
    <3> QED BY <2>0, <2>3, <3>1 DEF AcquireDestroyed, QueueInv, NoStrandedWaiter, QueueBounded
  <2>4. ASSUME NEW n \in 0 .. Len(waitQueue), RefillTick(n) PROVE QueueInv'
    <3>1. TypeOK /\ WaitersAreQueued /\ Len(waitQueue) \in Nat BY DEF QueueInv, TypeOK
    <3>2. Len(Left(n)) = Len(waitQueue) - n /\ (Left(n) = <<>> <=> n = Len(waitQueue))
      BY <3>1, LeftType, LeftEmpty
    <3>3. WaitersAreQueued' BY <2>4, <3>1, WakingAgrees DEF RefillTick, WaitersAreQueued
    <3>4. QueueBounded' BY <2>4, <3>1, <3>2 DEF RefillTick, QueueInv, QueueBounded
    <3>5. NoStrandedWaiter'
      <4> SUFFICES ASSUME Left(n) # <<>> PROVE refillTimer' /\ ~destroyed' /\ tokens' < Unit
        BY <2>4 DEF RefillTick, NoStrandedWaiter
      <4>1. waitQueue # <<>> BY <3>1, <3>2, EmptySeq DEF TypeOK
      <4>2. ~destroyed BY <4>1 DEF QueueInv, NoStrandedWaiter
      <4>3. n < Len(waitQueue) BY <3>1, <3>2
      <4> QED BY <2>4, <4>2, <4>3 DEF RefillTick, Wakes
    <3> QED BY <2>0, <3>3, <3>4, <3>5 DEF QueueInv
  <2>5. CASE DestroyLimiter
    <3>1. waitQueue' = <<>> /\ Len(waitQueue') = 0 BY <2>5, EmptySeq DEF DestroyLimiter
    <3>2. \A c \in Callers : status'[c] # "waiting"
      BY <2>5 DEF DestroyLimiter, QueueInv, WaitersAreQueued
    <3>3. WaitersAreQueued' BY <3>1, <3>2 DEF WaitersAreQueued
    <3> QED BY <2>0, <3>1, <3>3 DEF QueueInv, NoStrandedWaiter, QueueBounded
  <2>6. CASE TimePasses
    BY <2>0, <2>6 DEF TimePasses, QueueInv, NoStrandedWaiter, WaitersAreQueued, QueueBounded
  <2>7. CASE ClockSetBack
    BY <2>0, <2>7 DEF ClockSetBack, QueueInv, NoStrandedWaiter, WaitersAreQueued, QueueBounded
  <2> QED BY <2>1, <2>2, <2>3, <2>4, <2>5, <2>6, <2>7 DEF Next
<1> QED BY <1>1, <1>2, PTL DEF Spec

\* No waiter is stranded, the queue and the promises agree, and the queue keeps
\* to its limit, in every reachable state.
THEOREM QueueCorrect == Spec => [](NoStrandedWaiter /\ WaitersAreQueued /\ QueueBounded)
<1>1. Spec => []QueueInv
  BY QueueInvariant
<1>2. QueueInv => NoStrandedWaiter /\ WaitersAreQueued /\ QueueBounded
  BY DEF QueueInv
<1> QED BY <1>1, <1>2, PTL

\* refill() wakes a waiter only together with all who came before it.
LEMMA WokenInOrder ==
    ASSUME QueueInv, NEW n \in 0 .. Len(waitQueue), NEW c \in Woken(n)
    PROVE  \A i, j \in 1 .. Len(waitQueue) :
              waitQueue[j] = c /\ i < j => waitQueue[i] \in Woken(n)
<1>1. PICK k \in 1 .. n : waitQueue[k] = c
  BY DEF Woken
<1> TAKE i, j \in 1 .. Len(waitQueue)
<1> HAVE waitQueue[j] = c /\ i < j
<1>2. j = k
  BY <1>1 DEF QueueInv, WaitersAreQueued, TypeOK
<1> QED BY <1>1, <1>2 DEF Woken

\* Waiters are let through in the order in which they came, and no newcomer
\* before a waiter.
THEOREM OrderKept == Spec => NoOvertaking
<1> DEFINE Fair(c) == status[c] # "granted" /\ status'[c] = "granted" =>
              IF status[c] = "waiting"
              THEN \A i, j \in 1 .. Len(waitQueue) :
                      waitQueue[j] = c /\ i < j => status'[waitQueue[i]] = "granted"
              ELSE waitQueue' = <<>>
<1>1. ASSUME QueueInv, [Next]_vars PROVE \A c \in Callers : Fair(c)
  <2> SUFFICES ASSUME NEW c \in Callers, status[c] # "granted", status'[c] = "granted"
               PROVE  Fair(c)
    OBVIOUS
  <2> USE LimiterAssumption
  <2>1. TypeOK /\ WaitersAreQueued /\ Len(waitQueue) \in Nat
    BY <1>1 DEF QueueInv, TypeOK
  <2>2. \A i \in 1 .. Len(waitQueue) : waitQueue[i] \in Callers /\ status[waitQueue[i]] = "waiting"
    BY <2>1, ElementOfSeq DEF TypeOK, WaitersAreQueued
  <2>4. ASSUME NEW d \in Callers, NEW n \in 0 .. Len(waitQueue), Acquire(d, n) PROVE Fair(c)
    <3>1. CASE status[c] = "waiting"
      <4>1. \A w \in Callers \ {d} : status'[w] = Resolved(n)[w]
        BY <2>1, <2>4, ResolvedType DEF Acquire
      <4>2. c # d /\ \A i \in 1 .. Len(waitQueue) : waitQueue[i] \in Callers \ {d}
        BY <2>2, <2>4, <3>1 DEF Acquire
      <4>3. c \in Woken(n) BY <3>1, <4>1, <4>2 DEF Resolved
      <4>4. \A i, j \in 1 .. Len(waitQueue) :
               waitQueue[j] = c /\ i < j => waitQueue[i] \in Woken(n)
        BY <1>1, <4>3, WokenInOrder
      <4> QED BY <3>1, <4>1, <4>2, <4>4 DEF Resolved
    <3>2. CASE status[c] # "waiting"
      <4>1. Resolved(n)[c] = status[c]
        BY <2>2, <3>2 DEF Resolved, Woken
      <4>2. Refilled - n * Unit >= Unit /\ waitQueue' = Left(n)
        BY <1>1, <2>1, <2>4, <4>1, ResolvedType DEF Acquire
      <4>3. n = Len(waitQueue)
        BY <2>1, <2>4, <4>2, RefilledType DEF Acquire, Wakes
      <4> QED BY <2>1, <3>2, <4>2, <4>3, LeftEmpty
    <3> QED BY <3>1, <3>2
  <2>5. ASSUME NEW n \in 0 .. Len(waitQueue), RefillTick(n) PROVE Fair(c)
    <3>1. c \in Woken(n)
      BY <2>5 DEF RefillTick, Resolved
    <3>2. status[c] = "waiting" BY <2>2, <3>1 DEF Woken
    <3>3. \A i, j \in 1 .. Len(waitQueue) :
             waitQueue[j] = c /\ i < j => waitQueue[i] \in Woken(n)
      BY <1>1, <3>1, WokenInOrder
    <3> QED BY <2>2, <2>5, <3>2, <3>3 DEF RefillTick, Resolved
  <2>6. CASE UNCHANGED vars BY <2>6 DEF vars
  <2>7. ASSUME NEW d \in Callers, AcquireDestroyed(d) PROVE Fair(c)
    BY <2>1, <2>7 DEF AcquireDestroyed, TypeOK
  <2>8. CASE DestroyLimiter BY <2>8 DEF DestroyLimiter
  <2>9. CASE TimePasses BY <2>9 DEF TimePasses
  <2>10. CASE ClockSetBack BY <2>10 DEF ClockSetBack
  <2> QED BY <1>1, <2>4, <2>5, <2>6, <2>7, <2>8, <2>9, <2>10 DEF Next
<1>2. QueueInv /\ [Next]_vars => [\A c \in Callers : Fair(c)]_vars
  BY <1>1
<1> QED BY <1>2, QueueInvariant, PTL DEF Spec, NoOvertaking

\* After destroy() no request is let through.
THEOREM SilentOnceDestroyed == Spec => NothingAfterDestroy
<1>1. ASSUME QueueInv, [Next]_vars, destroyed, NEW c \in Callers, status'[c] = "granted"
      PROVE  status[c] = "granted"
  <2>1. Len(waitQueue) = 0 BY <1>1, EmptySeq DEF QueueInv, NoStrandedWaiter
  <2>2. ASSUME NEW n \in 0 .. Len(waitQueue), RefillTick(n) PROVE status[c] = "granted"
    BY <1>1, <2>1, <2>2 DEF RefillTick, Resolved, Woken
  <2>3. ASSUME NEW d \in Callers, NEW n \in 0 .. Len(waitQueue), Acquire(d, n) PROVE FALSE
    BY <1>1, <2>3 DEF Acquire
  <2>4. ASSUME NEW d \in Callers, AcquireDestroyed(d) PROVE status[c] = "granted"
    BY <1>1, <2>4 DEF AcquireDestroyed, QueueInv, TypeOK
  <2>5. CASE DestroyLimiter BY <1>1, <2>5 DEF DestroyLimiter
  <2>6. CASE UNCHANGED vars \/ TimePasses \/ ClockSetBack
    BY <1>1, <2>6 DEF vars, TimePasses, ClockSetBack
  <2> QED BY <1>1, <2>2, <2>3, <2>4, <2>5, <2>6 DEF Next
<1>2. QueueInv /\ [Next]_vars =>
         [destroyed => \A c \in Callers : status'[c] = "granted" => status[c] = "granted"]_vars
  BY <1>1
<1> QED BY <1>2, QueueInvariant, PTL DEF Spec, NothingAfterDestroy

----------------------------------------------------------------------------
(* The refinement.  The level of the abstract bucket is what refill() would  *)
(* leave if it ran now, so the lazy refill is no step of the bucket at all.  *)

\* Time that passes fills the bucket, which holds no more than Burst.
LEMMA TimeFills == TypeOK /\ TimePasses => Bucket!Fill
<1> SUFFICES ASSUME TypeOK, TimePasses PROVE Bucket!Fill
  OBVIOUS
<1> USE LimiterAssumption
<1>1. elapsed * Rate \in Int BY DEF TypeOK
<1>2. (elapsed + 1) * Rate = elapsed * Rate + Rate BY DEF TypeOK
<1>3. Refilled = tokens + elapsed * Rate
  BY <1>1 DEF TimePasses, TypeOK, Refilled, Least
<1>4. Refilled' = Least(Burst, Refilled + Rate)
  BY <1>1, <1>2, <1>3 DEF TimePasses, TypeOK, Refilled, Least
<1> QED BY <1>4 DEF Bucket!Fill, Bucket!Least, Least, TimePasses

\* Setting the clock back takes from the bucket, or makes no difference.
LEMMA ClockBackLeaks ==
    TypeOK /\ ClockSetBack => Bucket!Leak \/ UNCHANGED Bucket!bucketVars
<1> SUFFICES ASSUME TypeOK, ClockSetBack PROVE Bucket!Leak \/ UNCHANGED Bucket!bucketVars
  OBVIOUS
<1> USE LimiterAssumption
<1>1. elapsed * Rate \in Int BY DEF TypeOK
<1>2. (elapsed - 1) * Rate = elapsed * Rate - Rate BY DEF TypeOK
<1>3. Refilled' \in Int /\ Refilled' <= Refilled
  BY <1>1, <1>2 DEF ClockSetBack, TypeOK, Refilled, Least
<1>4. Refilled' = Refilled \/ Refilled' < Refilled BY <1>3, RefilledType
<1> QED BY <1>3, <1>4 DEF ClockSetBack, Bucket!Leak, Bucket!bucketVars

\* acquire() is one arrival at the bucket.
LEMMA AcquireArrives ==
    ASSUME QueueInv, NEW c \in Callers, NEW n \in 0 .. Len(waitQueue), Acquire(c, n)
    PROVE  Bucket!Arrive(c, n)
<1> USE LimiterAssumption
<1>1. TypeOK /\ Len(waitQueue) \in Nat BY DEF QueueInv, TypeOK
<1>2. n * Unit \in Int /\ Refilled \in Int BY <1>1, RefilledType
<1>3. Refilled' = tokens'
  <2>1. tokens' \in Int /\ tokens' <= Burst BY <1>1, AcquireType DEF TypeOK
  <2>2. elapsed' * Rate = 0 BY DEF Acquire
  <2> QED BY <2>1, <2>2 DEF Refilled, Least
<1>4. Bucket!Affordable(n, Refilled) BY DEF Acquire, Wakes, Bucket!Affordable
<1>5. Bucket!Granted(n) = Resolved(n) /\ Bucket!Tail_(n) = Left(n)
  BY DEF Bucket!Granted, Bucket!Head_, Bucket!Tail_, Resolved, Woken, Left
<1>6. Len(Left(n)) = Len(waitQueue) - n /\ (Left(n) = <<>> <=> n = Len(waitQueue))
  BY <1>1, LeftType, LeftEmpty
<1>7. Refilled - n * Unit >= Unit => Left(n) = <<>>
  BY <1>1, <1>2, <1>6 DEF Acquire, Wakes
<1> QED BY <1>2, <1>3, <1>4, <1>5, <1>6, <1>7 DEF Acquire, Bucket!Arrive

\* The timer's callback serves the waiters that the bucket can pay for.
LEMMA TickServes ==
    ASSUME QueueInv, NEW n \in 0 .. Len(waitQueue), RefillTick(n)
    PROVE  Bucket!Serve(n)
<1> USE LimiterAssumption
<1>1. TypeOK BY DEF QueueInv
<1>2. n * Unit \in Int /\ n * Unit >= 0 BY <1>1
<1>3. Refilled' = Refilled - n * Unit
  BY <1>1, <1>2, RefilledType DEF RefillTick, Refilled, Least
<1>4. Bucket!Affordable(n, Refilled) BY DEF RefillTick, Wakes, Bucket!Affordable
<1>5. Bucket!Granted(n) = Resolved(n) /\ Bucket!Tail_(n) = Left(n)
  BY DEF Bucket!Granted, Bucket!Head_, Bucket!Tail_, Resolved, Woken, Left
<1> QED BY <1>3, <1>4, <1>5 DEF RefillTick, Bucket!Serve

\* The limiter with its lazy refills and its interval implements the plain
\* bucket: what it lets through, and in which order, the bucket allows.
THEOREM LimiterImplementsBucket == Spec => ImplementsBucket
<1> USE LimiterAssumption
<1>1. Init => Bucket!BucketInit
  BY DEF Init, Bucket!BucketInit, Refilled, Least
<1>2. ASSUME QueueInv, [Next]_vars
      PROVE  [Bucket!BucketNext]_(Bucket!bucketVars)
  <2>1. TypeOK BY <1>2 DEF QueueInv
  <2>2. CASE UNCHANGED vars
    BY <2>2 DEF vars, Bucket!bucketVars, Refilled
  <2>3. ASSUME NEW c \in Callers, NEW n \in 0 .. Len(waitQueue), Acquire(c, n)
        PROVE  Bucket!BucketNext
    BY <1>2, <2>3, AcquireArrives DEF Bucket!BucketNext
  <2>4. ASSUME NEW c \in Callers, AcquireDestroyed(c) PROVE Bucket!TurnAway(c)
    BY <2>4 DEF AcquireDestroyed, Bucket!TurnAway, Refilled
  <2>5. ASSUME NEW n \in 0 .. Len(waitQueue), RefillTick(n) PROVE Bucket!BucketNext
    BY <1>2, <2>5, TickServes DEF Bucket!BucketNext
  <2>6. CASE DestroyLimiter
    <3>1. status' = [c \in Callers |-> IF status[c] = "waiting" THEN "cancelled" ELSE status[c]]
      BY <1>2, <2>6 DEF DestroyLimiter, QueueInv, WaitersAreQueued
    <3>2. Refilled' = Refilled BY <2>6 DEF DestroyLimiter, Refilled
    <3>3. Bucket!Close BY <2>6, <3>1, <3>2 DEF DestroyLimiter, Bucket!Close
    <3> QED BY <3>3 DEF Bucket!BucketNext
  <2>7. CASE TimePasses BY <2>1, <2>7, TimeFills DEF Bucket!BucketNext
  <2>8. CASE ClockSetBack BY <2>1, <2>8, ClockBackLeaks DEF Bucket!BucketNext
  <2>9. ASSUME NEW c \in Callers, AcquireDestroyed(c) PROVE Bucket!BucketNext
    BY <2>4, <2>9 DEF Bucket!BucketNext
  <2> QED BY <1>2, <2>2, <2>3, <2>5, <2>6, <2>7, <2>8, <2>9 DEF Next
<1> QED BY <1>1, <1>2, QueueInvariant, PTL DEF Spec, ImplementsBucket, Bucket!BucketSpec

=============================================================================
