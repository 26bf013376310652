------------------------- MODULE GroqManager_proofs -------------------------
(* Proofs about GroqManager: one drain() at a time, and what follows from it  *)
(* for the breaker and the spacing, for any number of callers and any         *)
(* settings; last, that the whole implements GroqService.                     *)
EXTENDS GroqManager, TLAPS

\* While the breaker is closed, consecutiveFailures counts the streak itself.
CountsStreak == circuitState = "CLOSED" => consecutiveFailures = streak

\* A drain() that waits for the spacing will have waited long enough.
WaitsEnough ==
  \A c \in Callers : drainer[c].at = "spacing" => sinceFinished + drainer[c].left >= MinInterval

\* A drain() that backs off has an attempt left.
MayRetry ==
  \A c \in Callers : drainer[c].at = "backoff" => drainer[c].attempt < MaxRetries

Inv ==
  TypeOK /\ OneDrainer /\ TripsOnStreak /\ BreakerAgrees /\ CountsStreak /\ WaitsEnough /\ MayRetry

LEMMA AtType ==
  ASSUME NEW where \in {"off", "spacing", "calling", "backoff", "settled"},
         NEW t \in Callers \cup {NoCaller}, NEW n \in 0..MaxRetries, NEW l \in Nat
  PROVE  /\ At(where, t, n, l) \in Drainer
         /\ At(where, t, n, l).at = where /\ At(where, t, n, l).left = l
BY DEF At, Drainer

LEMMA OffType == Off \in Drainer /\ Off.at = "off" /\ Off.left = 0
BY AtType, GroqAssumption DEF Off

LEMMA LeastType ==
  ASSUME NEW a \in Nat, NEW b \in Nat
  PROVE  Least(a, b) \in 0..b /\ (Least(a, b) = b <=> a >= b) /\ (a < b => Least(a, b) = a)
BY DEF Least

-----------------------------------------------------------------------------
(* Initially                                                                  *)

LEMMA InitInv == Init => Inv
<1> SUFFICES ASSUME Init PROVE Inv
  OBVIOUS
<1>1. TypeOK
  <2>1. pending \in [Priorities -> Seq(Callers)] /\ drainer \in [Callers -> Drainer]
    BY OffType DEF Init
  <2>2. circuitState \in States /\ draining \in BOOLEAN
    BY DEF Init, States
  <2>3. /\ consecutiveFailures \in 0..Threshold /\ streak \in 0..Threshold
        /\ sinceOpened \in 0..Cooldown /\ sinceFinished \in 0..MinInterval
    BY GroqAssumption DEF Init
  <2>. QED
    BY <2>1, <2>2, <2>3 DEF TypeOK
<1>2. \A c \in Callers : drainer[c].at = "off"
  BY OffType DEF Init
<1>3. OneDrainer
  BY <1>2 DEF Init, OneDrainer, Active
<1>. QED
  BY <1>1, <1>2, <1>3, GroqAssumption DEF Init, Inv, TripsOnStreak, BreakerAgrees, CountsStreak,
     WaitsEnough, MayRetry, Calling, InFlight

-----------------------------------------------------------------------------
(* A step of the only drain()                                                 *)

\* Where one coroutine goes to a record d and no other is active, the parts of the
\* invariant depend on d alone.
LEMMA Moves ==
  ASSUME Inv, NEW c \in Callers, \A e \in Callers : Active(e) => e = c,
         NEW d \in Drainer, drainer' = [drainer EXCEPT ![c] = d]
  PROVE  /\ drainer' \in [Callers -> Drainer]
         /\ drainer'[c] = d
         /\ \A e \in Callers : Active(e)' <=> e = c /\ d.at # "off"
         /\ \A e \in Callers : Calling(e)' <=> e = c /\ d.at \in InFlight
         /\ \A e \in Callers : drainer'[e].at \in {"spacing", "backoff"} => e = c
<1>1. drainer \in [Callers -> Drainer]
  BY DEF Inv, TypeOK
<1>2. drainer' \in [Callers -> Drainer] /\ drainer'[c] = d
  BY <1>1
<1>3. \A e \in Callers : e # c => drainer'[e] = drainer[e] /\ drainer[e].at = "off"
  BY <1>1 DEF Active
<1>. QED
  BY <1>2, <1>3 DEF Active, Calling, InFlight

LEMMA TakeStep ==
  ASSUME Inv, NEW c \in Callers, \A e \in Callers : Active(e) => e = c, ~Calling(c),
         NEW q \in [Priorities -> Seq(Callers)], Take(c, q),
         sinceFinished' \in 0..MinInterval
  PROVE  Inv'
<1>0. /\ pending \in [Priorities -> Seq(Callers)] /\ drainer \in [Callers -> Drainer]
      /\ \A e \in Callers : ~Calling(e)
  BY DEF Inv, TypeOK, Active, Calling, InFlight
<1>1. circuitState # "HALF_OPEN"
  BY <1>0 DEF Inv, BreakerAgrees
<1>2. CASE /\ \A r \in Priorities : q[r] = << >>
           /\ pending' = q /\ draining' = FALSE
           /\ drainer' = [drainer EXCEPT ![c] = Off] /\ UNCHANGED breaker
  <2>1. /\ drainer' \in [Callers -> Drainer] /\ Off.at = "off"
        /\ \A e \in Callers : ~Active(e)' /\ ~Calling(e)' /\ drainer'[e].at \notin {"spacing", "backoff"}
    BY <1>2, OffType, Moves DEF InFlight
  <2>2. TypeOK'
    BY <1>2, <2>1 DEF Inv, TypeOK, breaker
  <2>3. OneDrainer'
    BY <1>2, <2>1 DEF OneDrainer
  <2>. QED
    BY <1>1, <1>2, <2>1, <2>2, <2>3 DEF Inv, TripsOnStreak, BreakerAgrees, CountsStreak, WaitsEnough, MayRetry, breaker
<1>3. ASSUME NEW r \in Priorities, q[r] # << >>, pending' = [q EXCEPT ![r] = Tail(@)],
             draining' = TRUE, StartTask(c, Head(q[r]))
      PROVE  Inv'
  <2>1. q[r] \in Seq(Callers) /\ Head(q[r]) \in Callers /\ Tail(q[r]) \in Seq(Callers)
    BY <1>3
  <2>2. pending' \in [Priorities -> Seq(Callers)]
    BY <1>3, <2>1
  <2>. DEFINE t == Head(q[r])
              skip == At("settled", t, 0, 0)
              call == At("calling", t, 0, Timeout)
  <2>3. skip \in Drainer /\ skip.at = "settled" /\ call \in Drainer /\ call.at = "calling"
    BY <2>1, AtType, GroqAssumption
  <2>4. CASE drainer' = [drainer EXCEPT ![c] = skip] /\ UNCHANGED breaker
    <3>. HIDE DEF skip
    <3>1. /\ drainer' \in [Callers -> Drainer]
          /\ \A e \in Callers : (Active(e)' <=> e = c) /\ ~Calling(e)' /\ drainer'[e].at \notin {"spacing", "backoff"}
      BY <2>3, <2>4, Moves DEF InFlight
    <3>2. TypeOK'
      BY <1>3, <2>2, <2>4, <3>1 DEF Inv, TypeOK, breaker
    <3>3. OneDrainer'
      BY <1>3, <3>1 DEF OneDrainer
    <3>. QED
      BY <1>1, <2>4, <3>1, <3>2, <3>3 DEF Inv, TripsOnStreak, BreakerAgrees, CountsStreak, WaitsEnough, MayRetry, breaker
  <2>5. CASE /\ ~IsCircuitBlocking
             /\ drainer' = [drainer EXCEPT ![c] = call]
             /\ circuitState' = IF circuitState = "OPEN" THEN "HALF_OPEN" ELSE circuitState
             /\ UNCHANGED <<consecutiveFailures, sinceOpened, streak>>
    <3>. HIDE DEF call
    <3>1. /\ drainer' \in [Callers -> Drainer]
          /\ \A e \in Callers : (Active(e)' <=> e = c) /\ (Calling(e)' <=> e = c)
                                /\ drainer'[e].at \notin {"spacing", "backoff"}
      BY <2>3, <2>5, Moves DEF InFlight
    <3>2. circuitState' \in {"CLOSED", "HALF_OPEN"} /\ (circuitState' = "CLOSED" <=> circuitState = "CLOSED")
      BY <1>1, <2>5 DEF Inv, TypeOK, States
    <3>3. TypeOK'
      BY <1>3, <2>2, <2>5, <3>1, <3>2 DEF Inv, TypeOK, States
    <3>4. OneDrainer'
      BY <1>3, <3>1 DEF OneDrainer
    <3>. QED
      BY <2>5, <3>1, <3>2, <3>3, <3>4 DEF Inv, TripsOnStreak, BreakerAgrees, CountsStreak, WaitsEnough, MayRetry
  <2>. QED
    BY <1>3, <2>4, <2>5 DEF StartTask
<1>. QED
  BY <1>2, <1>3 DEF Take

LEMMA LoopStep ==
  ASSUME Inv, NEW c \in Callers, \A e \in Callers : Active(e) => e = c, ~Calling(c),
         NEW q \in [Priorities -> Seq(Callers)], NEW gap \in 0..MinInterval, Loop(c, q, gap),
         sinceFinished' = gap
  PROVE  Inv'
<1>1. CASE (\A r \in Priorities : q[r] = << >>) \/ gap >= MinInterval
  <2>1. ~((\E r \in Priorities : q[r] # << >>) /\ gap < MinInterval)
    BY <1>1, GroqAssumption
  <2>2. Take(c, q)
    BY <2>1 DEF Loop
  <2>. QED
    BY <2>2, TakeStep
<1>2. CASE ~((\A r \in Priorities : q[r] = << >>) \/ gap >= MinInterval)
  <2>. DEFINE d == At("spacing", NoCaller, 0, MinInterval - gap)
  <2>1. /\ gap < MinInterval /\ drainer' = [drainer EXCEPT ![c] = d]
        /\ pending' = q /\ draining' = TRUE /\ UNCHANGED breaker
    BY <1>2 DEF Loop
  <2>2. d \in Drainer /\ d.at = "spacing" /\ d.left = MinInterval - gap
    BY <2>1, AtType, GroqAssumption
  <2>. HIDE DEF d
  <2>3. /\ drainer' \in [Callers -> Drainer] /\ drainer'[c] = d
        /\ \A e \in Callers : /\ Active(e)' <=> e = c
                              /\ ~Calling(e)'
                              /\ drainer'[e].at = "spacing" => e = c
                              /\ drainer'[e].at # "backoff"
    BY <2>1, <2>2, Moves DEF InFlight
  <2>4. circuitState # "HALF_OPEN"
    BY DEF Inv, BreakerAgrees, Active, Calling, InFlight
  <2>5. TypeOK'
    BY <2>1, <2>3 DEF Inv, TypeOK, breaker
  <2>6. OneDrainer'
    BY <2>1, <2>3 DEF OneDrainer
  <2>7. WaitsEnough'
    BY <2>2, <2>3, GroqAssumption DEF WaitsEnough
  <2>. QED
    BY <2>1, <2>3, <2>4, <2>5, <2>6, <2>7 DEF Inv, TripsOnStreak, BreakerAgrees, CountsStreak, MayRetry, breaker
<1>. QED
  BY <1>1, <1>2

\* A request that settles leaves no call in flight.
LEMMA SettleStep ==
  ASSUME Inv, NEW c \in Callers, Settle(c), RecordCircuitSuccess \/ RecordCircuitFailure
  PROVE  Inv'
<1>. DEFINE d == At("settled", drainer[c].task, 0, 0)
<1>1. drainer[c] \in Drainer /\ Calling(c) /\ Active(c)
  BY DEF Inv, TypeOK, Settle, Calling, InFlight, Active
<1>2. d \in Drainer /\ d.at = "settled" /\ drainer' = [drainer EXCEPT ![c] = d]
  <2>1. drainer[c].task \in Callers \cup {NoCaller} /\ 0 \in 0..MaxRetries
    BY <1>1, GroqAssumption DEF Drainer
  <2>2. d \in Drainer /\ d.at = "settled"
    BY <2>1, AtType
  <2>. QED
    BY <2>2 DEF Settle
<1>3. \A e \in Callers : Active(e) => e = c
  BY <1>1 DEF Inv, OneDrainer
<1>. HIDE DEF d
<1>4. /\ drainer' \in [Callers -> Drainer]
      /\ \A e \in Callers : (Active(e)' <=> e = c) /\ ~Calling(e)' /\ drainer'[e].at \notin {"spacing", "backoff"}
  BY <1>2, <1>3, Moves DEF InFlight
<1>5. OneDrainer'
  BY <1>1, <1>4 DEF Inv, OneDrainer, Settle
<1>6. /\ circuitState \in {"CLOSED", "HALF_OPEN"}
      /\ consecutiveFailures \in 0..Threshold /\ streak \in 0..Threshold
      /\ circuitState = "CLOSED" => consecutiveFailures = streak /\ streak < Threshold
      /\ circuitState = "HALF_OPEN" => streak = Threshold
  BY <1>1, GroqAssumption DEF Inv, TypeOK, States, BreakerAgrees, TripsOnStreak, CountsStreak
<1>7. /\ circuitState' \in {"CLOSED", "OPEN"}
      /\ consecutiveFailures' \in 0..Threshold /\ streak' \in 0..Threshold /\ sinceOpened' \in 0..Cooldown
      /\ circuitState' = "CLOSED" <=> streak' < Threshold
      /\ circuitState' = "CLOSED" => consecutiveFailures' = streak'
  <2>1. CASE RecordCircuitSuccess
    BY <2>1, GroqAssumption DEF RecordCircuitSuccess, Inv, TypeOK
  <2>2. CASE RecordCircuitFailure
    BY <1>6, <2>2, GroqAssumption DEF RecordCircuitFailure, Least, Inv, TypeOK
  <2>. QED
    BY <2>1, <2>2
<1>8. TypeOK'
  BY <1>4, <1>7 DEF Inv, TypeOK, Settle, States
<1>. QED
  BY <1>4, <1>5, <1>7, <1>8 DEF Inv, TripsOnStreak, BreakerAgrees, CountsStreak, WaitsEnough, MayRetry

\* What is waited before an attempt is a natural number.
LEMMA DelayType ==
  ASSUME NEW k \in Nat, NEW n \in Delay(k)
  PROVE  n \in Nat
<1>. DEFINE base == MinInterval * (k + 1) * 2
            top == base + base \div 4
<1>1. base \in Nat /\ top \in Int
  BY GroqAssumption
<1>2. n \in RetryAfter \/ n \in base..top
  BY DEF Delay
<1>. HIDE DEF base, top
<1>3. CASE n \in RetryAfter
  BY <1>3, GroqAssumption
<1>4. CASE n \in base..top
  <2>1. n \in Int /\ n >= base
    BY <1>1, <1>4
  <2>. QED
    BY <1>1, <2>1
<1>. QED
  BY <1>2, <1>3, <1>4

\* An attempt that is followed by another keeps the call in flight.
LEMMA AttemptStep ==
  ASSUME Inv, NEW c \in Callers, Retry(c) \/ Resume(c)
  PROVE  Inv'
<1>1. /\ drainer[c].task \in Callers \cup {NoCaller} /\ drainer[c].attempt \in 0..MaxRetries
      /\ Calling(c) /\ Active(c)
  BY DEF Inv, TypeOK, Drainer, Retry, Resume, Calling, InFlight, Active
<1>2. \A e \in Callers : Active(e) => e = c
  BY <1>1 DEF Inv, OneDrainer
<1>3. PICK d \in Drainer : /\ d.at \in InFlight
                           /\ d.at = "backoff" => d.attempt < MaxRetries
                           /\ drainer' = [drainer EXCEPT ![c] = d]
  <2>1. CASE Retry(c)
    <3>1. PICK n \in Delay(drainer[c].attempt) :
            drainer' = [drainer EXCEPT ![c] = At("backoff", drainer[c].task, drainer[c].attempt, n)]
      BY <2>1 DEF Retry, Inv, TypeOK
    <3>2. n \in Nat /\ drainer[c].attempt < MaxRetries
      BY <1>1, <2>1, <3>1, DelayType DEF Retry
    <3>. DEFINE d == At("backoff", drainer[c].task, drainer[c].attempt, n)
    <3>3. d \in Drainer /\ d.at = "backoff"
      BY <1>1, <3>2, AtType
    <3>4. d.attempt < MaxRetries
      BY <3>2 DEF At
    <3>5. drainer' = [drainer EXCEPT ![c] = d]
      BY <3>1
    <3>. HIDE DEF d
    <3>. QED
      BY <3>3, <3>4, <3>5 DEF InFlight
  <2>2. CASE Resume(c)
    <3>0. Timeout \in Nat
      BY GroqAssumption
    <3>1. drainer' = [drainer EXCEPT ![c] = At("calling", drainer[c].task, drainer[c].attempt + 1, Timeout)]
      BY <2>2 DEF Resume, Inv, TypeOK
    <3>. DEFINE k == drainer[c].attempt + 1
                d == At("calling", drainer[c].task, k, Timeout)
    <3>2. k \in 0..MaxRetries
      BY <1>1, <2>2, GroqAssumption DEF Resume, Inv, MayRetry
    <3>4. drainer' = [drainer EXCEPT ![c] = d]
      BY <3>1
    <3>. HIDE DEF k
    <3>3. d \in Drainer /\ d.at = "calling"
      BY <1>1, <3>2, <3>0 DEF At, Drainer
    <3>. HIDE DEF d
    <3>. QED
      BY <3>3, <3>4 DEF InFlight
  <2>. QED
    BY <2>1, <2>2
<1>4. UNCHANGED <<pending, draining, breaker, sinceFinished>>
  BY DEF Retry, Resume
<1>5. /\ drainer' \in [Callers -> Drainer]
      /\ \A e \in Callers : /\ Active(e)' <=> e = c
                            /\ Calling(e)' <=> e = c
                            /\ drainer'[e].at # "spacing"
                            /\ drainer'[e].at = "backoff" => drainer'[e].attempt < MaxRetries
  BY <1>2, <1>3, Moves DEF InFlight
<1>6. TypeOK' /\ OneDrainer'
  BY <1>1, <1>4, <1>5 DEF Inv, TypeOK, OneDrainer, breaker
<1>. QED
  BY <1>1, <1>4, <1>5, <1>6 DEF Inv, TripsOnStreak, BreakerAgrees, CountsStreak, WaitsEnough, MayRetry, breaker

LEMMA EnqueueStep ==
  ASSUME Inv, NEW c \in Callers, NEW r \in Priorities, Enqueue(c, r)
  PROVE  Inv'
<1>. DEFINE q == [pending EXCEPT ![r] = Append(@, c)]
<1>1. q \in [Priorities -> Seq(Callers)]
  BY DEF Inv, TypeOK
<1>2. CASE draining
  <2>1. pending' = q /\ UNCHANGED <<draining, drainer, breaker, sinceFinished>>
    BY <1>2 DEF Enqueue
  <2>. HIDE DEF q
  <2>2. TypeOK'
    BY <1>1, <2>1 DEF Inv, TypeOK, breaker
  <2>3. OneDrainer'
    BY <1>2, <2>1 DEF Inv, OneDrainer, Active
  <2>. QED
    BY <2>1, <2>2, <2>3 DEF Inv, TripsOnStreak, BreakerAgrees, CountsStreak, WaitsEnough, MayRetry, Calling, breaker
<1>3. CASE ~draining
  <2>1. Loop(c, q, sinceFinished) /\ sinceFinished' = sinceFinished
    BY <1>3 DEF Enqueue
  <2>2. \A e \in Callers : ~Active(e)
    BY <1>3 DEF Inv, OneDrainer
  <2>3. ~Calling(c) /\ sinceFinished \in 0..MinInterval
    BY <2>2 DEF Active, Calling, InFlight, Inv, TypeOK
  <2>. HIDE DEF q
  <2>. QED
    BY <1>1, <2>1, <2>2, <2>3, LoopStep
<1>. QED
  BY <1>2, <1>3

\* The coroutine that takes a step is the only one.
LEMMA TheOne ==
  ASSUME Inv, NEW c \in Callers, drainer[c].at \in {"spacing", "settled"}
  PROVE  (\A e \in Callers : Active(e) => e = c) /\ ~Calling(c)
BY DEF Inv, OneDrainer, Active, Calling, InFlight

LEMMA TickStep ==
  ASSUME Inv, Tick
  PROVE  Inv'
<1>1. ASSUME NEW c \in Callers
      PROVE  /\ drainer'[c] \in Drainer /\ drainer'[c].at = drainer[c].at
             /\ drainer'[c].attempt = drainer[c].attempt
             /\ drainer'[c].left \in Nat /\ drainer'[c].left >= drainer[c].left - 1
  <2>. DEFINE l == IF drainer[c].left > 0 THEN drainer[c].left - 1 ELSE 0
  <2>1. drainer[c] \in Drainer
    BY DEF Inv, TypeOK
  <2>2. l \in Nat /\ l >= drainer[c].left - 1
    BY <2>1 DEF Drainer
  <2>3. drainer'[c] = At(drainer[c].at, drainer[c].task, drainer[c].attempt, l)
    BY DEF Tick
  <2>. HIDE DEF l
  <2>. QED
    BY <2>1, <2>2, <2>3 DEF At, Drainer
<1>2. drainer' \in [Callers -> Drainer]
  BY <1>1 DEF Tick
<1>3. /\ sinceFinished' \in 0..MinInterval /\ sinceOpened' \in 0..Cooldown
      /\ sinceFinished' = MinInterval \/ sinceFinished' = sinceFinished + 1
  BY GroqAssumption DEF Tick, Least, Inv, TypeOK
<1>4. UNCHANGED <<pending, draining, circuitState, consecutiveFailures, streak>>
  BY DEF Tick
<1>5. TypeOK'
  BY <1>2, <1>3, <1>4 DEF Inv, TypeOK
<1>6. \A c \in Callers : (Active(c)' <=> Active(c)) /\ (Calling(c)' <=> Calling(c))
  BY <1>1 DEF Active, Calling
<1>7. OneDrainer'
  BY <1>4, <1>6 DEF Inv, OneDrainer
<1>8. WaitsEnough'
  <2> SUFFICES ASSUME NEW c \in Callers, drainer'[c].at = "spacing"
               PROVE  sinceFinished' + drainer'[c].left >= MinInterval
    BY DEF WaitsEnough
  <2>1. /\ sinceFinished + drainer[c].left >= MinInterval
        /\ drainer[c].left \in Nat /\ sinceFinished \in Nat
    BY <1>1, GroqAssumption DEF Inv, WaitsEnough, TypeOK, Drainer
  <2>. QED
    BY <1>1, <1>3, <2>1, GroqAssumption
<1>9. MayRetry'
  BY <1>1 DEF Inv, MayRetry
<1>. QED
  BY <1>4, <1>5, <1>6, <1>7, <1>8, <1>9 DEF Inv, TripsOnStreak, BreakerAgrees, CountsStreak

LEMMA NextInv == Inv /\ [Next]_vars => Inv'
<1> SUFFICES ASSUME Inv, [Next]_vars PROVE Inv'
  OBVIOUS
<1>0. /\ pending \in [Priorities -> Seq(Callers)] /\ sinceFinished \in 0..MinInterval
      /\ 0 \in 0..MinInterval
  BY GroqAssumption DEF Inv, TypeOK
<1>1. ASSUME NEW c \in Callers, NEW r \in Priorities, Enqueue(c, r) PROVE Inv'
  BY <1>1, EnqueueStep
<1>2. ASSUME NEW c \in Callers, EndSpacing(c) PROVE Inv'
  BY <1>0, <1>2, TheOne, TakeStep DEF EndSpacing
<1>3. ASSUME NEW c \in Callers, Finish(c) PROVE Inv'
  BY <1>0, <1>3, TheOne, LoopStep DEF Finish
<1>4. ASSUME NEW c \in Callers, Abort(c) \/ Succeed(c) \/ Fail(c) PROVE Inv'
  BY <1>4, SettleStep DEF Abort, Succeed, Fail
<1>5. ASSUME NEW c \in Callers, Retry(c) \/ Resume(c) PROVE Inv'
  BY <1>5, AttemptStep
<1>6. CASE UNCHANGED vars
  <2>1. TypeOK' /\ OneDrainer'
    BY <1>6 DEF Inv, TypeOK, OneDrainer, Active, vars, breaker
  <2>. QED
    BY <1>6, <2>1 DEF Inv, TripsOnStreak, BreakerAgrees, CountsStreak, WaitsEnough, MayRetry, Calling, vars, breaker
<1>. QED
  BY <1>1, <1>2, <1>3, <1>4, <1>5, <1>6, TickStep DEF Next, Steps

\* Every variable keeps its type, and the capped measures their range.
THEOREM GroqTypeCorrect == Spec => []TypeOK
<1>1. Inv => TypeOK
  BY DEF Inv
<1>. QED
  BY <1>1, InitInv, NextInv, PTL DEF Spec

\* One drain() at a time, and none missing while requests wait.
THEOREM OneDrainerCorrect == Spec => []OneDrainer
<1>1. Inv => OneDrainer
  BY DEF Inv
<1>. QED
  BY <1>1, InitInv, NextInv, PTL DEF Spec

\* The breaker is closed exactly while the streak of failures is short of the threshold.
THEOREM StreakDecides == Spec => []TripsOnStreak
<1>1. Inv => TripsOnStreak
  BY DEF Inv
<1>. QED
  BY <1>1, InitInv, NextInv, PTL DEF Spec

\* HALF_OPEN has its trial in flight, and nothing is in flight when OPEN.
THEOREM BreakerCorrect == Spec => []BreakerAgrees
<1>1. Inv => BreakerAgrees
  BY DEF Inv
<1>. QED
  BY <1>1, InitInv, NextInv, PTL DEF Spec

-----------------------------------------------------------------------------
(* What a step may do                                                         *)

\* What a start at the head of the queue does to its coroutine.
LEMMA TakeStarts ==
  ASSUME Inv, NEW c \in Callers, \A e \in Callers : Active(e) => e = c, ~Calling(c),
         NEW q, Take(c, q)
  PROVE  /\ \A e \in Callers : e # c => drainer'[e] = drainer[e]
         /\ drainer'[c].left = 0 \/ drainer'[c].at = "calling"
         /\ Configured /\ drainer'[c].at = "settled" => circuitState = "OPEN" /\ sinceOpened < Cooldown
<1>1. drainer \in [Callers -> Drainer] /\ circuitState # "HALF_OPEN"
  BY DEF Inv, TypeOK, BreakerAgrees, Active, Calling, InFlight
<1>2. CASE drainer' = [drainer EXCEPT ![c] = Off]
  BY <1>1, <1>2, OffType
<1>3. ASSUME NEW t, StartTask(c, t)
      PROVE  \/ drainer' = [drainer EXCEPT ![c] = At("settled", t, 0, 0)] /\ (~Configured \/ IsCircuitBlocking)
             \/ drainer' = [drainer EXCEPT ![c] = At("calling", t, 0, Timeout)]
  BY <1>3 DEF StartTask
<1>4. ASSUME NEW t, StartTask(c, t)
      PROVE  /\ \A e \in Callers : e # c => drainer'[e] = drainer[e]
             /\ drainer'[c].left = 0 \/ drainer'[c].at = "calling"
             /\ Configured /\ drainer'[c].at = "settled" => IsCircuitBlocking
  BY <1>1, <1>3, <1>4 DEF At
<1>. QED
  BY <1>1, <1>2, <1>4 DEF Take, IsCircuitBlocking

LEMMA LoopStarts ==
  ASSUME Inv, NEW c \in Callers, \A e \in Callers : Active(e) => e = c, ~Calling(c),
         NEW q, NEW gap \in 0..MinInterval, Loop(c, q, gap)
  PROVE  /\ \A e \in Callers : e # c => drainer'[e] = drainer[e]
         /\ drainer'[c].at = "settled" => drainer'[c].left = 0
         /\ Configured /\ drainer'[c].at = "settled" => circuitState = "OPEN" /\ sinceOpened < Cooldown
         /\ drainer'[c].at \in InFlight => gap = MinInterval
<1>1. CASE gap < MinInterval /\ drainer' = [drainer EXCEPT ![c] = At("spacing", NoCaller, 0, MinInterval - gap)]
  BY <1>1 DEF At, Inv, TypeOK, InFlight
<1>2. CASE Take(c, q) /\ gap >= MinInterval
  BY <1>2, TakeStarts, GroqAssumption
<1>3. CASE drainer' = [drainer EXCEPT ![c] = Off]
  BY <1>3, OffType DEF Inv, TypeOK, InFlight
<1>. QED
  BY <1>1, <1>2, <1>3 DEF Loop, Take

\* A step leaves a coroutine where it is, or starts it by the rules.
Starts(c) ==
  /\ drainer'[c].at = "settled" => drainer'[c].left = 0
  /\ Configured /\ drainer[c].at # "calling" /\ drainer'[c].at = "settled" /\ drainer'[c] # drainer[c]
       => circuitState = "OPEN" /\ sinceOpened < Cooldown
  /\ Calling(c)' /\ ~Calling(c) => sinceFinished = MinInterval

\* A settled request has no timer left.
Rests == \A c \in Callers : drainer[c].at = "settled" => drainer[c].left = 0

LEMMA NextStarts ==
  ASSUME Inv, Rests, [Next]_vars, NEW e \in Callers
  PROVE  Starts(e)
<1>0. /\ drainer \in [Callers -> Drainer] /\ drainer[e] \in Drainer
      /\ sinceFinished \in 0..MinInterval /\ 0 \in 0..MinInterval
  BY GroqAssumption DEF Inv, TypeOK
<1>1. ASSUME drainer'[e] = drainer[e] PROVE Starts(e)
  BY <1>1 DEF Rests, Starts, Calling
<1>2. ASSUME NEW c \in Callers, NEW r \in Priorities, Enqueue(c, r) PROVE Starts(e)
  <2>1. CASE draining
    BY <1>1, <1>2, <2>1 DEF Enqueue
  <2>2. CASE ~draining
    <3>1. /\ \A d \in Callers : Active(d) => d = c
          /\ ~Calling(c)
      BY <2>2 DEF Inv, OneDrainer, Active, Calling, InFlight
    <3>2. PICK q : Loop(c, q, sinceFinished)
      BY <1>2, <2>2 DEF Enqueue
    <3>. QED
      BY <1>0, <1>1, <3>1, <3>2, LoopStarts DEF Starts, Calling
  <2>. QED
    BY <2>1, <2>2
<1>3. ASSUME NEW c \in Callers, EndSpacing(c) PROVE Starts(e)
  <2>1. /\ (\A d \in Callers : Active(d) => d = c) /\ ~Calling(c)
        /\ Take(c, pending)
    BY <1>3, TheOne DEF EndSpacing
  <2>2. sinceFinished = MinInterval
    BY <1>0, <1>3, GroqAssumption DEF EndSpacing, Inv, WaitsEnough
  <2>3. CASE e # c
    BY <1>1, <2>1, <2>3, TakeStarts
  <2>4. CASE e = c
    BY <2>1, <2>2, <2>4, TakeStarts DEF Starts
  <2>. QED
    BY <2>3, <2>4
<1>4. ASSUME NEW c \in Callers, Finish(c) PROVE Starts(e)
  <2>1. /\ (\A d \in Callers : Active(d) => d = c) /\ ~Calling(c)
        /\ Loop(c, pending, 0)
    BY <1>4, TheOne DEF Finish
  <2>2. CASE e # c
    BY <1>0, <1>1, <2>1, <2>2, LoopStarts
  <2>3. CASE e = c
    <3>1. Calling(c)' => sinceFinished = MinInterval
      BY <1>0, <2>1, LoopStarts, GroqAssumption DEF Calling
    <3>. QED
      BY <1>0, <2>1, <2>3, <3>1, LoopStarts DEF Starts
  <2>. QED
    BY <2>2, <2>3
<1>5. ASSUME NEW c \in Callers, Abort(c) \/ Succeed(c) \/ Fail(c) PROVE Starts(e)
  <2>1. /\ drainer' = [drainer EXCEPT ![c] = At("settled", drainer[c].task, 0, 0)]
        /\ drainer[c].at = "calling"
    BY <1>5 DEF Abort, Succeed, Fail, Settle
  <2>2. CASE e # c
    BY <1>0, <1>1, <2>1, <2>2
  <2>3. CASE e = c
    BY <1>0, <2>1, <2>3 DEF At, Starts, Calling, InFlight
  <2>. QED
    BY <2>2, <2>3
<1>6. ASSUME NEW c \in Callers, Retry(c) \/ Resume(c) PROVE Starts(e)
  <2>1. PICK d : /\ drainer' = [drainer EXCEPT ![c] = d]
                 /\ d.at \in InFlight
    BY <1>6 DEF Retry, Resume, At, InFlight
  <2>2. Calling(c)
    BY <1>6 DEF Retry, Resume, Calling, InFlight
  <2>3. CASE e # c
    BY <1>0, <1>1, <2>1, <2>3
  <2>4. CASE e = c
    BY <1>0, <2>1, <2>2, <2>4 DEF Starts, InFlight
  <2>. QED
    BY <2>3, <2>4
<1>7. ASSUME Tick PROVE Starts(e)
  <2>1. drainer'[e].at = drainer[e].at
    BY <1>7 DEF Tick, At
  <2>2. CASE drainer[e].at = "settled"
    <3>1. drainer[e].left = 0
      BY <2>2 DEF Rests
    <3>2. drainer'[e] = At(drainer[e].at, drainer[e].task, drainer[e].attempt, 0)
      BY <1>7, <3>1 DEF Tick
    <3>3. drainer'[e] = drainer[e]
      BY <1>0, <3>1, <3>2 DEF At, Drainer
    <3>. QED
      BY <1>1, <3>3
  <2>. QED
    BY <2>1, <2>2 DEF Starts, Calling
<1>8. CASE UNCHANGED vars
  BY <1>1, <1>8 DEF vars
<1>. QED
  BY <1>2, <1>3, <1>4, <1>5, <1>6, <1>7, <1>8 DEF Next, Steps

LEMMA InvAlways == Spec => [](Inv /\ Rests)
<1>1. Init => Rests
  BY OffType DEF Init, Rests
<1>2. Inv /\ Rests /\ [Next]_vars => Rests'
  BY NextStarts DEF Rests, Starts
<1>. QED
  BY <1>1, <1>2, InitInv, NextInv, PTL DEF Spec

\* Requests are spaced, although drain() computes its wait once.
THEOREM SpacedCorrect == Spec => Spaced
<1>1. Inv /\ Rests /\ [Next]_vars
        => [\A c \in Callers : Calling(c)' /\ ~Calling(c) => sinceFinished = MinInterval]_vars
  BY NextStarts DEF Starts
<1>. QED
  BY <1>1, InvAlways, PTL DEF Spec, Spaced

\* A configured client falls back without a call only during a cooldown.
THEOREM SkipsAreCooling == Spec => SkipsOnlyCooling
<1>1. Inv /\ Rests /\ [Next]_vars
        => [\A c \in Callers :
              /\ Configured
              /\ drainer[c].at # "calling"
              /\ drainer'[c].at = "settled" /\ drainer'[c] # drainer[c]
              => circuitState = "OPEN" /\ sinceOpened < Cooldown]_vars
  BY NextStarts DEF Starts
<1>. QED
  BY <1>1, InvAlways, PTL DEF Spec, SkipsOnlyCooling


-----------------------------------------------------------------------------
(* The service                                                                *)

\* What is in flight is the request of a caller.
TasksAreCallers == \A c \in Callers : Calling(c) => drainer[c].task \in Callers

ServiceInv == Inv /\ Rests /\ TasksAreCallers

LEMMA AtFields ==
  ASSUME NEW where, NEW t, NEW n, NEW l
  PROVE  At(where, t, n, l).at = where /\ At(where, t, n, l).task = t
BY DEF At

\* A coroutine that goes to a call is given a caller's request.
Given(c) ==
  \E d : drainer' = [drainer EXCEPT ![c] = d] /\ (d.at \in InFlight => d.task \in Callers)

LEMMA GivenAt ==
  ASSUME NEW c, NEW where, NEW t, NEW n, NEW l, where \in InFlight => t \in Callers,
         drainer' = [drainer EXCEPT ![c] = At(where, t, n, l)]
  PROVE  Given(c)
<1>. DEFINE d == At(where, t, n, l)
<1>1. d.at = where /\ d.task = t /\ drainer' = [drainer EXCEPT ![c] = d]
  BY DEF At
<1>. HIDE DEF d
<1>. QED
  BY <1>1 DEF Given

\* What a coroutine is at after it has taken a request or found none.
LEMMA TakeTask ==
  ASSUME NEW c \in Callers, NEW q \in [Priorities -> Seq(Callers)], Take(c, q)
  PROVE  Given(c)
<1>1. CASE drainer' = [drainer EXCEPT ![c] = Off]
  BY <1>1, OffType DEF Given, InFlight
<1>2. ASSUME NEW r \in Priorities, q[r] # << >>, StartTask(c, Head(q[r]))
      PROVE  Given(c)
  <2>. DEFINE t == Head(q[r])
  <2>1. t \in Callers
    <3>1. q[r] \in Seq(Callers)
      OBVIOUS
    <3>. QED
      BY <1>2, <3>1
  <2>2. CASE drainer' = [drainer EXCEPT ![c] = At("settled", t, 0, 0)]
    BY <2>1, <2>2, GivenAt
  <2>3. CASE drainer' = [drainer EXCEPT ![c] = At("calling", t, 0, Timeout)]
    BY <2>1, <2>3, GivenAt
  <2>. QED
    BY <1>2, <2>2, <2>3 DEF StartTask
<1>. QED
  BY <1>1, <1>2 DEF Take

LEMMA LoopTask ==
  ASSUME NEW c \in Callers, NEW q \in [Priorities -> Seq(Callers)], NEW gap, Loop(c, q, gap)
  PROVE  Given(c)
<1>1. CASE Take(c, q)
  BY <1>1, TakeTask
<1>2. CASE drainer' = [drainer EXCEPT ![c] = At("spacing", NoCaller, 0, MinInterval - gap)]
  BY <1>2, GivenAt DEF InFlight
<1>. QED
  BY <1>1, <1>2 DEF Loop

LEMMA TasksNext == ServiceInv /\ [Next]_vars => TasksAreCallers'
<1> SUFFICES ASSUME ServiceInv, [Next]_vars PROVE TasksAreCallers'
  OBVIOUS
<1>0. /\ drainer \in [Callers -> Drainer] /\ pending \in [Priorities -> Seq(Callers)]
      /\ TasksAreCallers
  BY DEF ServiceInv, Inv, TypeOK
<1>1. ASSUME NEW c \in Callers, Given(c)
      PROVE  TasksAreCallers'
  BY <1>0, <1>1 DEF TasksAreCallers, Calling, Given
<1>2. ASSUME drainer' = drainer PROVE TasksAreCallers'
  BY <1>0, <1>2 DEF TasksAreCallers, Calling
<1>3. ASSUME NEW c \in Callers, NEW r \in Priorities, Enqueue(c, r) PROVE TasksAreCallers'
  <2>1. [pending EXCEPT ![r] = Append(@, c)] \in [Priorities -> Seq(Callers)]
    BY <1>0
  <2>2. CASE draining
    BY <1>2, <1>3, <2>2 DEF Enqueue
  <2>3. CASE ~draining
    BY <1>1, <1>3, <2>1, <2>3, LoopTask DEF Enqueue
  <2>. QED
    BY <2>2, <2>3
<1>4. ASSUME NEW c \in Callers, EndSpacing(c) \/ Finish(c) PROVE TasksAreCallers'
  BY <1>0, <1>1, <1>4, TakeTask, LoopTask DEF EndSpacing, Finish
<1>5. ASSUME NEW c \in Callers, Abort(c) \/ Succeed(c) \/ Fail(c) PROVE TasksAreCallers'
  BY <1>1, <1>5, GivenAt DEF Abort, Succeed, Fail, Settle, InFlight
<1>6. ASSUME NEW c \in Callers, Retry(c) \/ Resume(c) PROVE TasksAreCallers'
  <2>1. drainer[c].task \in Callers
    BY <1>0, <1>6 DEF Retry, Resume, TasksAreCallers, Calling, InFlight
  <2>2. PICK where, n, l : drainer' = [drainer EXCEPT ![c] = At(where, drainer[c].task, n, l)]
    BY <1>6 DEF Retry, Resume
  <2>. QED
    BY <1>1, <2>1, <2>2, GivenAt
<1>7. ASSUME Tick PROVE TasksAreCallers'
  BY <1>0, <1>7, AtFields DEF Tick, TasksAreCallers, Calling
<1>. QED
  BY <1>2, <1>3, <1>4, <1>5, <1>6, <1>7 DEF Next, Steps, vars

LEMMA ServiceInvNext == ServiceInv /\ [Next]_vars => ServiceInv'
<1>1. Inv /\ Rests /\ [Next]_vars => Rests'
  BY NextStarts DEF Rests, Starts
<1>. QED
  BY <1>1, NextInv, TasksNext DEF ServiceInv

LEMMA ServiceInvInit == Init => ServiceInv
<1>1. Init => Rests /\ TasksAreCallers
  BY OffType DEF Init, Rests, TasksAreCallers, Calling, InFlight
<1>. QED
  BY <1>1, InitInv DEF ServiceInv

\* Who is served, before a step and after it.
ServesOne ==
  /\ \A c \in Callers : Calling(c) => Serving = drainer[c].task /\ Serving # NoCaller
  /\ (\A c \in Callers : ~Calling(c)) => Serving = NoCaller

LEMMA Served == ServiceInv => ServesOne
<1> SUFFICES ASSUME ServiceInv PROVE ServesOne
  OBVIOUS
<1>1. \A c, d \in Callers : Calling(c) /\ Calling(d) => c = d
  BY DEF ServiceInv, Inv, OneDrainer, Calling, Active, InFlight
<1>2. ASSUME NEW c \in Callers, Calling(c)
      PROVE  Serving = drainer[c].task /\ Serving # NoCaller
  <2>1. c = CHOOSE d \in Callers : Calling(d)
    BY <1>1, <1>2
  <2>2. drainer[c].task \in Callers
    BY <1>2 DEF ServiceInv, TasksAreCallers
  <2>. QED
    BY <1>2, <2>1, <2>2, GroqAssumption DEF Serving
<1>. QED
  BY <1>2 DEF Serving, ServesOne

LEMMA ServedNext == ServiceInv' => ServesOne'
BY Served, PTL

\* The state of the breaker says no more than the streak and whether someone is served.
VerdictFits == circuitState = Service!Verdict

LEMMA VerdictHolds == ServiceInv => VerdictFits
<1> SUFFICES ASSUME ServiceInv PROVE VerdictFits
  OBVIOUS
<1>1. /\ circuitState \in {"CLOSED", "OPEN", "HALF_OPEN"} /\ streak \in 0..Threshold
      /\ circuitState = "CLOSED" <=> streak < Threshold
      /\ Threshold \in Nat
  BY GroqAssumption DEF ServiceInv, Inv, TypeOK, TripsOnStreak, States
<1>2. streak = Threshold <=> circuitState # "CLOSED"
  BY <1>1
<1>3. circuitState = "HALF_OPEN" => Serving # NoCaller
  BY Served DEF ServesOne, ServiceInv, Inv, BreakerAgrees
<1>4. circuitState = "OPEN" => Serving = NoCaller
  BY Served DEF ServesOne, ServiceInv, Inv, BreakerAgrees
<1>. QED
  BY <1>1, <1>2, <1>3, <1>4 DEF VerdictFits, Service!Verdict, Service!Tripped

LEMMA VerdictNext == ServiceInv' => VerdictFits'
BY VerdictHolds, PTL

\* A request at the head of the queue is served, or turned away; or the queue is empty.
LEMMA TakeServes ==
  ASSUME ServiceInv, ServiceInv', NEW c \in Callers, \A e \in Callers : Active(e) => e = c,
         ~Calling(c), NEW q \in [Priorities -> Seq(Callers)], Take(c, q)
  PROVE  /\ Serving = NoCaller /\ streak' = streak
         /\ \/ /\ \A r \in Priorities : q[r] = << >>
               /\ pending' = q /\ Serving' = NoCaller
            \/ \E r \in Priorities :
                 /\ q[r] # << >> /\ \A s \in Priorities : s < r => q[s] = << >>
                 /\ pending' = [q EXCEPT ![r] = Tail(@)]
                 /\ \/ Configured /\ Serving' = Head(q[r])
                    \/ (~Configured \/ streak = Threshold) /\ Serving' = NoCaller
<1>0. drainer \in [Callers -> Drainer] /\ \A e \in Callers : ~Calling(e)
  BY DEF ServiceInv, Inv, TypeOK, Active, Calling, InFlight
<1>1. Serving = NoCaller
  BY <1>0, Served DEF ServesOne
<1>2. streak' = streak
  BY DEF Take, StartTask, breaker
<1>3. ASSUME NEW d, drainer' = [drainer EXCEPT ![c] = d]
      PROVE  Serving' = IF d.at \in InFlight THEN d.task ELSE NoCaller
  <2>1. drainer'[c] = d /\ \A e \in Callers : e # c => drainer'[e] = drainer[e]
    BY <1>0, <1>3
  <2>2. \A e \in Callers : Calling(e)' <=> e = c /\ d.at \in InFlight
    BY <1>0, <2>1 DEF Calling
  <2>. QED
    BY <2>1, <2>2, ServedNext DEF ServesOne
<1>4. CASE /\ \A r \in Priorities : q[r] = << >>
           /\ pending' = q /\ drainer' = [drainer EXCEPT ![c] = Off]
  <2>1. Serving' = NoCaller
    BY <1>3, <1>4, OffType DEF InFlight
  <2>. QED
    BY <1>1, <1>2, <1>4, <2>1
<1>5. ASSUME NEW r \in Priorities, q[r] # << >>, StartTask(c, Head(q[r]))
      PROVE  \/ Configured /\ Serving' = Head(q[r])
             \/ (~Configured \/ streak = Threshold) /\ Serving' = NoCaller
  <2>. DEFINE t == Head(q[r])
  <2>1. CASE drainer' = [drainer EXCEPT ![c] = At("settled", t, 0, 0)] /\ (~Configured \/ IsCircuitBlocking)
    <3>. DEFINE d == At("settled", t, 0, 0)
    <3>0. d.at = "settled" /\ drainer' = [drainer EXCEPT ![c] = d]
      BY <2>1, AtFields
    <3>. HIDE DEF d
    <3>1. Serving' = NoCaller
      BY <1>3, <3>0 DEF InFlight
    <3>2. IsCircuitBlocking => streak = Threshold
      BY GroqAssumption DEF IsCircuitBlocking, ServiceInv, Inv, TypeOK, TripsOnStreak
    <3>. QED
      BY <2>1, <3>1, <3>2
  <2>2. CASE drainer' = [drainer EXCEPT ![c] = At("calling", t, 0, Timeout)] /\ Configured
    <3>. DEFINE d == At("calling", t, 0, Timeout)
    <3>0. d.at = "calling" /\ d.task = t /\ drainer' = [drainer EXCEPT ![c] = d]
      BY <2>2, AtFields
    <3>. HIDE DEF d
    <3>1. Serving' = t
      BY <1>3, <3>0 DEF InFlight
    <3>. QED
      BY <2>2, <3>1
  <2>. QED
    BY <1>5, <2>1, <2>2 DEF StartTask
<1>. QED
  BY <1>1, <1>2, <1>4, <1>5 DEF Take

\* So too at the head of drain()'s loop, or it waits for the spacing.
LEMMA LoopServes ==
  ASSUME ServiceInv, ServiceInv', NEW c \in Callers, \A e \in Callers : Active(e) => e = c,
         ~Calling(c), NEW q \in [Priorities -> Seq(Callers)], NEW gap, Loop(c, q, gap)
  PROVE  /\ Serving = NoCaller /\ streak' = streak
         /\ \/ pending' = q /\ Serving' = NoCaller
            \/ \E r \in Priorities :
                 /\ q[r] # << >> /\ \A s \in Priorities : s < r => q[s] = << >>
                 /\ pending' = [q EXCEPT ![r] = Tail(@)]
                 /\ \/ Configured /\ Serving' = Head(q[r])
                    \/ (~Configured \/ streak = Threshold) /\ Serving' = NoCaller
<1>1. CASE Take(c, q)
  BY <1>1, TakeServes
<1>2. CASE /\ drainer' = [drainer EXCEPT ![c] = At("spacing", NoCaller, 0, MinInterval - gap)]
           /\ pending' = q /\ UNCHANGED breaker
  <2>1. drainer \in [Callers -> Drainer] /\ \A e \in Callers : ~Calling(e)
    BY DEF ServiceInv, Inv, TypeOK, Active, Calling, InFlight
  <2>2. \A e \in Callers : ~Calling(e)'
    BY <1>2, <2>1, AtFields DEF Calling, InFlight
  <2>. QED
    BY <1>2, <2>1, <2>2, Served, ServedNext DEF ServesOne, breaker
<1>. QED
  BY <1>1, <1>2 DEF Loop

ServiceStep == Service!ServiceNext \/ UNCHANGED Service!service

\* Where the breaker is follows from the rest of a step.
LEMMA ServiceSteps ==
  ASSUME ServiceInv, ServiceInv',
         \/ \E c \in Callers : Service!ServeAtOnce(c) \/ \E r \in Priorities : Service!Join(c, r)
         \/ \E r \in Priorities : Service!Serve(r) \/ Service!TurnAway(r)
         \/ Service!Answer
         \/ UNCHANGED <<pending, Serving, streak>>
  PROVE  ServiceStep
<1>1. circuitState' = Service!Verdict'
  BY VerdictNext DEF VerdictFits
<1>2. CASE UNCHANGED <<pending, Serving, streak>>
  <2>1. circuitState = Service!Verdict
    BY VerdictHolds DEF VerdictFits
  <2>2. circuitState' = circuitState
    BY <1>1, <1>2, <2>1 DEF Service!Verdict, Service!Tripped
  <2>. QED
    BY <1>2, <2>2 DEF ServiceStep, Service!service
<1>. QED
  BY <1>1, <1>2 DEF ServiceStep, Service!ServiceNext

LEMMA EnqueueServes ==
  ASSUME ServiceInv, ServiceInv', NEW c \in Callers, NEW r \in Priorities, Enqueue(c, r)
  PROVE  ServiceStep
<1>. DEFINE q == [pending EXCEPT ![r] = Append(@, c)]
<1>0. pending \in [Priorities -> Seq(Callers)] /\ q \in [Priorities -> Seq(Callers)]
  BY DEF ServiceInv, Inv, TypeOK
<1>1. ~Service!InLine(c) /\ Serving # c
  <2>1. ~Waiting(c)
    BY DEF Enqueue
  <2>2. ~Service!InLine(c)
    BY <2>1 DEF Waiting, Service!InLine
  <2>3. \A d \in Callers : Calling(d) => drainer[d].task # c
    BY <2>1 DEF Waiting
  <2>4. Serving # c
    BY <2>3, Served, GroqAssumption DEF ServesOne
  <2>. QED
    BY <2>2, <2>4
<1>2. ASSUME pending' = q, UNCHANGED <<Serving, streak>>
      PROVE  ServiceStep
  <2>1. Service!Join(c, r)
    BY <1>1, <1>2 DEF Service!Join
  <2>. QED
    BY <2>1, ServiceSteps
<1>3. CASE draining
  <2>1. pending' = q /\ UNCHANGED <<drainer, breaker>>
    BY <1>3 DEF Enqueue
  <2>2. Serving' = Serving /\ streak' = streak
    BY <2>1 DEF Serving, Calling, breaker
  <2>. QED
    BY <1>2, <2>1, <2>2
<1>4. CASE ~draining
  <2>1. /\ \A s \in Priorities : pending[s] = << >>
        /\ \A e \in Callers : ~Active(e)
    BY <1>4 DEF ServiceInv, Inv, OneDrainer
  <2>2. Loop(c, q, sinceFinished) /\ ~Calling(c)
    BY <1>4, <2>1 DEF Enqueue, Active, Calling, InFlight
  <2>3. q[r] = <<c>> /\ \A s \in Priorities \ {r} : q[s] = << >>
    <3>1. Append(<< >>, c) = <<c>>
      OBVIOUS
    <3>. QED
      BY <1>0, <2>1, <3>1
  <2>. HIDE DEF q
  <2>4. /\ Serving = NoCaller /\ streak' = streak
        /\ \/ pending' = q /\ Serving' = NoCaller
           \/ \E s \in Priorities :
                /\ q[s] # << >>
                /\ pending' = [q EXCEPT ![s] = Tail(@)]
                /\ \/ Configured /\ Serving' = Head(q[s])
                   \/ Serving' = NoCaller
    <3>1. \A e \in Callers : Active(e) => e = c
      BY <2>1
    <3>. QED
      BY <1>0, <2>2, <3>1, LoopServes
  <2>5. CASE pending' = q /\ Serving' = NoCaller
    BY <1>2, <2>4, <2>5 DEF q
  <2>6. ASSUME NEW s \in Priorities, q[s] # << >>, pending' = [q EXCEPT ![s] = Tail(@)],
               \/ Configured /\ Serving' = Head(q[s])
               \/ Serving' = NoCaller
        PROVE  ServiceStep
    <3>1. s = r
      BY <2>3, <2>6
    <3>2. Head(q[r]) = c /\ Tail(q[r]) = << >>
      BY <2>3
    <3>3. pending' = pending
      <4>1. pending' = [q EXCEPT ![r] = << >>]
        BY <2>6, <3>1, <3>2
      <4>2. \A u \in Priorities : pending'[u] = << >>
        BY <1>0, <2>3, <4>1
      <4>3. pending' \in [Priorities -> {<< >>}] /\ pending \in [Priorities -> {<< >>}]
        BY <1>0, <2>1, <4>1, <4>2
      <4>. QED
        BY <4>3
    <3>4. CASE Configured /\ Serving' = c
      <4>1. Service!ServeAtOnce(c)
        BY <2>1, <2>4, <3>3, <3>4 DEF Service!ServeAtOnce, Service!Nobody
      <4>. QED
        BY <4>1, ServiceSteps
    <3>5. CASE Serving' = NoCaller
      BY <2>4, <3>3, <3>5, ServiceSteps
    <3>. QED
      BY <2>6, <3>1, <3>2, <3>4, <3>5
  <2>. QED
    BY <2>4, <2>5, <2>6
<1>. QED
  BY <1>3, <1>4

LEMMA DrainServes ==
  ASSUME ServiceInv, ServiceInv', NEW c \in Callers, EndSpacing(c) \/ Finish(c)
  PROVE  ServiceStep
<1>0. pending \in [Priorities -> Seq(Callers)]
  BY DEF ServiceInv, Inv, TypeOK
<1>1. (\A e \in Callers : Active(e) => e = c) /\ ~Calling(c)
  BY TheOne DEF EndSpacing, Finish, ServiceInv
<1>2. /\ Serving = NoCaller /\ streak' = streak
      /\ \/ pending' = pending /\ Serving' = NoCaller
         \/ \E r \in Priorities :
              /\ pending[r] # << >> /\ \A s \in Priorities : s < r => pending[s] = << >>
              /\ pending' = [pending EXCEPT ![r] = Tail(@)]
              /\ \/ Configured /\ Serving' = Head(pending[r])
                 \/ (~Configured \/ streak = Threshold) /\ Serving' = NoCaller
  <2>1. CASE EndSpacing(c)
    <3>1. Take(c, pending)
      BY <2>1 DEF EndSpacing
    <3>. QED
      BY <1>0, <1>1, <3>1, TakeServes
  <2>2. CASE Finish(c)
    <3>1. Loop(c, pending, 0)
      BY <2>2 DEF Finish
    <3>. QED
      BY <1>0, <1>1, <3>1, LoopServes
  <2>. QED
    BY <2>1, <2>2
<1>3. CASE pending' = pending /\ Serving' = NoCaller
  BY <1>2, <1>3, ServiceSteps
<1>4. ASSUME NEW r \in Priorities,
             pending[r] # << >>, \A s \in Priorities : s < r => pending[s] = << >>,
             pending' = [pending EXCEPT ![r] = Tail(@)],
             \/ Configured /\ Serving' = Head(pending[r])
             \/ (~Configured \/ streak = Threshold) /\ Serving' = NoCaller
      PROVE  ServiceStep
  <2>1. Service!IsNext(r) /\ Service!Leaves(r)
    BY <1>4 DEF Service!IsNext, Service!Leaves
  <2>2. Service!Serve(r) \/ Service!TurnAway(r)
    BY <1>2, <1>4, <2>1 DEF Service!Serve, Service!TurnAway, Service!Tripped
  <2>. QED
    BY <2>2, ServiceSteps
<1>. QED
  BY <1>2, <1>3, <1>4

LEMMA SettleServes ==
  ASSUME ServiceInv, ServiceInv', NEW c \in Callers, Settle(c),
         RecordCircuitSuccess \/ RecordCircuitFailure
  PROVE  ServiceStep
<1>1. /\ drainer \in [Callers -> Drainer] /\ Calling(c)
      /\ \A e \in Callers : Calling(e) => e = c
  BY DEF ServiceInv, Inv, TypeOK, OneDrainer, Settle, Calling, InFlight, Active
<1>2. Serving # NoCaller
  BY <1>1, Served DEF ServesOne
<1>3. /\ drainer' = [drainer EXCEPT ![c] = At("settled", drainer[c].task, 0, 0)]
      /\ pending' = pending
  BY DEF Settle
<1>4. \A e \in Callers : ~Calling(e)'
  BY <1>1, <1>3, AtFields DEF Calling, InFlight
<1>5. Serving' = NoCaller
  BY <1>4, ServedNext DEF ServesOne
<1>6. streak' \in {0, IF streak = Threshold THEN streak ELSE streak + 1}
  <2>1. streak \in 0..Threshold /\ Threshold \in Nat
    BY GroqAssumption DEF ServiceInv, Inv, TypeOK
  <2>2. CASE RecordCircuitSuccess
    BY <2>2 DEF RecordCircuitSuccess
  <2>3. CASE RecordCircuitFailure
    BY <2>1, <2>3 DEF RecordCircuitFailure, Least
  <2>. QED
    BY <2>2, <2>3
<1>7. Service!Answer
  BY <1>2, <1>3, <1>5, <1>6 DEF Service!Answer, Service!Tripped
<1>. QED
  BY <1>7, ServiceSteps

\* Attempts and the clock change nothing of the service.
LEMMA AttemptServes ==
  ASSUME ServiceInv, ServiceInv', Tick \/ \E c \in Callers : Retry(c) \/ Resume(c)
  PROVE  ServiceStep
<1>0. drainer \in [Callers -> Drainer]
  BY DEF ServiceInv, Inv, TypeOK
<1>1. pending' = pending /\ streak' = streak
  BY DEF Tick, Retry, Resume, breaker
<1>2. \A e \in Callers : (Calling(e)' <=> Calling(e)) /\ drainer'[e].task = drainer[e].task
  <2>1. CASE Tick
    BY <2>1, AtFields DEF Tick, Calling
  <2>2. ASSUME NEW c \in Callers, Retry(c) \/ Resume(c)
        PROVE  \A e \in Callers : (Calling(e)' <=> Calling(e)) /\ drainer'[e].task = drainer[e].task
    <3>1. PICK where, n, l :
            /\ where \in InFlight
            /\ drainer' = [drainer EXCEPT ![c] = At(where, drainer[c].task, n, l)]
      BY <2>2 DEF Retry, Resume, InFlight
    <3>2. Calling(c)
      BY <2>2 DEF Retry, Resume, Calling, InFlight
    <3>. QED
      BY <1>0, <3>1, <3>2, AtFields DEF Calling
  <2>. QED
    BY <2>1, <2>2
<1>3. Serving' = Serving
  <2>1. CASE \A e \in Callers : ~Calling(e)
    BY <1>2, <2>1, Served, ServedNext DEF ServesOne
  <2>2. ASSUME NEW e \in Callers, Calling(e)
        PROVE  Serving' = Serving
    BY <1>2, <2>2, Served, ServedNext DEF ServesOne
  <2>. QED
    BY <2>1, <2>2
<1>. QED
  BY <1>1, <1>3, ServiceSteps

\* The coroutines, timers, attempts and the breaker implement the service, for any number
\* of callers and any settings: what the agents rely on when they await chat().
THEOREM ServiceImplemented == Spec => ImplementsService
<1>1. ASSUME ServiceInv, ServiceInv', [Next]_vars
      PROVE  ServiceStep
  <2>1. CASE UNCHANGED vars
    <3>1. UNCHANGED <<pending, Serving, streak>>
      BY <2>1 DEF vars, breaker, Serving, Calling
    <3>. QED
      BY <1>1, <3>1, ServiceSteps
  <2>2. ASSUME NEW c \in Callers, NEW r \in Priorities, Enqueue(c, r) PROVE ServiceStep
    BY <1>1, <2>2, EnqueueServes
  <2>3. ASSUME NEW c \in Callers, EndSpacing(c) \/ Finish(c) PROVE ServiceStep
    BY <1>1, <2>3, DrainServes
  <2>4. ASSUME NEW c \in Callers, Abort(c) \/ Succeed(c) \/ Fail(c) PROVE ServiceStep
    BY <1>1, <2>4, SettleServes DEF Abort, Succeed, Fail
  <2>5. ASSUME Tick \/ \E c \in Callers : Retry(c) \/ Resume(c) PROVE ServiceStep
    BY <1>1, <2>5, AttemptServes
  <2>. QED
    BY <1>1, <2>1, <2>2, <2>3, <2>4, <2>5 DEF Next, Steps
<1>2. Init => Service!ServiceInit
  <2> SUFFICES ASSUME Init PROVE Service!ServiceInit
    OBVIOUS
  <2>1. \A c \in Callers : ~Calling(c)
    BY OffType DEF Init, Calling, InFlight
  <2>2. Serving = NoCaller
    BY <2>1 DEF Serving
  <2>. QED
    BY <2>2 DEF Init, Service!ServiceInit
<1>3. ServiceInv /\ ServiceInv' /\ [Next]_vars => [Service!ServiceNext]_(Service!service)
  BY <1>1 DEF ServiceStep
<1>. QED
  BY <1>2, <1>3, ServiceInvInit, ServiceInvNext, PTL DEF Spec, ImplementsService, Service!ServiceSpec

=============================================================================
