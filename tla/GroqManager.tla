---------------------------- MODULE GroqManager ----------------------------
(* The client every agent of the supervisor calls Groq through                *)
(* (ai-supervisor/services/groq.service.ts): the priority queue, the          *)
(* coroutine that drains it one call at a time with a minimum spacing, the    *)
(* bounded retries and the circuit breaker.                                   *)
(*                                                                            *)
(* enqueue() starts drain() without awaiting it, so a coroutine is named by   *)
(* the caller whose request started it, and `draining` alone keeps them from  *)
(* running together. An action goes from one await to the next.               *)
EXTENDS Integers, Sequences

CONSTANTS
  Callers,      \* requests that may be outstanding at the same time
  Priorities,   \* the ranks in use; PRIORITY_ORDER ranks critical 0 .. low 3
  Configured,   \* is GROQ_API_KEY set?
  MaxRetries, MinInterval, Timeout, Threshold, Cooldown,  \* the settings
  RetryAfter,   \* delays a Retry-After header may ask for
  NoCaller

ASSUME GroqAssumption ==
  /\ Priorities \subseteq 0..3
  /\ Configured \in BOOLEAN
  /\ MaxRetries \in Nat /\ MinInterval \in Nat /\ Timeout \in Nat /\ Cooldown \in Nat
  /\ Threshold \in Nat \ {0}
  /\ RetryAfter \subseteq Nat
  /\ NoCaller \notin Callers

VARIABLES
  pending,              \* per rank, the waiting callers in order of arrival
  draining,
  drainer,              \* per caller, the drain() its request has started
  circuitState,
  consecutiveFailures,
  sinceOpened,          \* Date.now() - circuitOpenedAt, up to Cooldown
  sinceFinished,        \* Date.now() - lastCallFinishedAt, up to MinInterval
  streak                \* history: failed requests since the last success, up to Threshold

breaker == <<circuitState, consecutiveFailures, sinceOpened, streak>>
vars == <<pending, draining, drainer, breaker, sinceFinished>>

States == {"CLOSED", "OPEN", "HALF_OPEN"}
At(where, task, attempt, left) ==
  [at |-> where, task |-> task, attempt |-> attempt, left |-> left]
Off == At("off", NoCaller, 0, 0)
InFlight == {"calling", "backoff"}

Least(a, b) == IF a < b THEN a ELSE b

Active(c) == drainer[c].at # "off"
Calling(c) == drainer[c].at \in InFlight

\* A caller awaits chat() or chatJSON().
Waiting(c) ==
  \/ \E r \in Priorities : \E i \in 1..Len(pending[r]) : pending[r][i] = c
  \/ \E d \in Callers : Calling(d) /\ drainer[d].task = c

Init ==
  /\ pending = [r \in Priorities |-> << >>]
  /\ draining = FALSE
  /\ drainer = [c \in Callers |-> Off]
  /\ circuitState = "CLOSED"
  /\ consecutiveFailures = 0
  /\ sinceOpened = Cooldown
  /\ sinceFinished = MinInterval
  /\ streak = 0

-----------------------------------------------------------------------------
(* The breaker                                                                *)

IsCircuitBlocking ==
  \/ circuitState = "OPEN" /\ sinceOpened < Cooldown
  \/ circuitState = "HALF_OPEN"

\* Faulty variant: a successful trial does not close the breaker.
ResetOnly ==
  /\ consecutiveFailures' = 0
  /\ streak' = 0
  /\ UNCHANGED <<circuitState, sinceOpened>>

RecordCircuitSuccess ==
  /\ consecutiveFailures' = 0
  /\ circuitState' = "CLOSED"
  /\ streak' = 0
  /\ UNCHANGED sinceOpened

\* Faulty variant: a failed trial counts on.
CountTrials ==
  LET n == consecutiveFailures + 1
      trips == circuitState = "HALF_OPEN" \/ n >= Threshold
  IN /\ consecutiveFailures' = n
     /\ circuitState' = IF trips THEN "OPEN" ELSE circuitState
     /\ sinceOpened' = IF trips THEN 0 ELSE sinceOpened
     /\ streak' = Least(streak + 1, Threshold)

RecordCircuitFailure ==
  LET n == consecutiveFailures + 1
      trips == circuitState = "HALF_OPEN" \/ n >= Threshold
  IN /\ consecutiveFailures' = IF circuitState = "HALF_OPEN" THEN consecutiveFailures ELSE n
     /\ circuitState' = IF trips THEN "OPEN" ELSE circuitState
     /\ sinceOpened' = IF trips THEN 0 ELSE sinceOpened
     /\ streak' = Least(streak + 1, Threshold)

-----------------------------------------------------------------------------
(* The queue                                                                  *)

\* attemptWithRetry() up to its first await: no call, or the first attempt.
StartTask(c, t) ==
  \/ /\ ~Configured \/ IsCircuitBlocking
     /\ drainer' = [drainer EXCEPT ![c] = At("settled", t, 0, 0)]
     /\ UNCHANGED breaker
  \/ /\ Configured /\ ~IsCircuitBlocking
     /\ drainer' = [drainer EXCEPT ![c] = At("calling", t, 0, Timeout)]
     /\ circuitState' = IF circuitState = "OPEN" THEN "HALF_OPEN" ELSE circuitState
     /\ UNCHANGED <<consecutiveFailures, sinceOpened, streak>>

\* Faulty variant: the array is not sorted.
TakeUnsorted(c, q) ==
  \/ /\ \A r \in Priorities : q[r] = << >>
     /\ pending' = q
     /\ draining' = FALSE
     /\ drainer' = [drainer EXCEPT ![c] = Off]
     /\ UNCHANGED breaker
  \/ \E r \in Priorities :
       /\ q[r] # << >>
       /\ pending' = [q EXCEPT ![r] = Tail(@)]
       /\ draining' = TRUE
       /\ StartTask(c, Head(q[r]))

\* The sorted array q without its first request, which starts; or the loop ends.
Take(c, q) ==
  \/ /\ \A r \in Priorities : q[r] = << >>
     /\ pending' = q
     /\ draining' = FALSE
     /\ drainer' = [drainer EXCEPT ![c] = Off]
     /\ UNCHANGED breaker
  \/ \E r \in Priorities :
       /\ q[r] # << >>
       /\ \A s \in Priorities : s < r => q[s] = << >>
       /\ pending' = [q EXCEPT ![r] = Tail(@)]
       /\ draining' = TRUE
       /\ StartTask(c, Head(q[r]))

\* Faulty variant: the wait is as long as the time that has passed.
LoopBackwards(c, q, gap) ==
  \/ /\ \E r \in Priorities : q[r] # << >>
     /\ gap < MinInterval
     /\ drainer' = [drainer EXCEPT ![c] = At("spacing", NoCaller, 0, gap)]
     /\ pending' = q
     /\ draining' = TRUE
     /\ UNCHANGED breaker
  \/ /\ (\A r \in Priorities : q[r] = << >>) \/ gap >= MinInterval
     /\ Take(c, q)

\* The head of drain()'s loop, when the last request finished `gap` ago.
Loop(c, q, gap) ==
  \/ /\ \E r \in Priorities : q[r] # << >>
     /\ gap < MinInterval
     /\ drainer' = [drainer EXCEPT ![c] = At("spacing", NoCaller, 0, MinInterval - gap)]
     /\ pending' = q
     /\ draining' = TRUE
     /\ UNCHANGED breaker
  \/ /\ (\A r \in Priorities : q[r] = << >>) \/ gap >= MinInterval
     /\ Take(c, q)

\* Faulty variants: drain() is not guarded by draining; the newest of a rank goes first.
EnqueueUnguarded(c, r) ==
  /\ ~Waiting(c)
  /\ Loop(c, [pending EXCEPT ![r] = Append(@, c)], sinceFinished)
  /\ UNCHANGED sinceFinished
EnqueueInFront(c, r) ==
  LET q == [pending EXCEPT ![r] = <<c>> \o @]
  IN /\ ~Waiting(c)
     /\ IF draining
          THEN pending' = q /\ UNCHANGED <<draining, drainer, breaker>>
          ELSE Loop(c, q, sinceFinished)
     /\ UNCHANGED sinceFinished

\* chat(): the request joins the queue, behind those of its rank.
Enqueue(c, r) ==
  LET q == [pending EXCEPT ![r] = Append(@, c)]
  IN /\ ~Waiting(c)
     /\ IF draining
          THEN pending' = q /\ UNCHANGED <<draining, drainer, breaker>>
          ELSE Loop(c, q, sinceFinished)
     /\ UNCHANGED sinceFinished

EndSpacing(c) ==
  /\ drainer[c].at = "spacing" /\ drainer[c].left = 0
  /\ Take(c, pending)
  /\ UNCHANGED sinceFinished

\* The request is settled: its caller resumes, then drain() does.
Finish(c) ==
  /\ drainer[c].at = "settled"
  /\ sinceFinished' = 0
  /\ Loop(c, pending, 0)

-----------------------------------------------------------------------------
(* The attempts of a request                                                  *)

Settle(c) ==
  /\ drainer[c].at = "calling"
  /\ drainer' = [drainer EXCEPT ![c] = At("settled", drainer[c].task, 0, 0)]
  /\ UNCHANGED <<pending, draining, sinceFinished>>

Succeed(c) == Settle(c) /\ RecordCircuitSuccess

\* A 4xx other than 429 or an empty completion; or the last attempt failed.
Fail(c) == Settle(c) /\ RecordCircuitFailure

\* Faulty variant: a timeout is not recorded.
AbortQuietly(c) == drainer[c].left = 0 /\ Settle(c) /\ UNCHANGED breaker

\* The abort of callOnce()'s controller, which is not retried either.
Abort(c) == drainer[c].left = 0 /\ Settle(c) /\ RecordCircuitFailure

\* What is waited before the next attempt: Retry-After, or the backoff with its jitter.
Delay(attempt) ==
  LET base == MinInterval * (attempt + 1) * 2
  IN RetryAfter \cup base..(base + base \div 4)

\* 429, 5xx, or a network error.
Retry(c) ==
  /\ drainer[c].at = "calling"
  /\ drainer[c].attempt < MaxRetries
  /\ \E d \in Delay(drainer[c].attempt) :
       drainer' = [drainer EXCEPT ![c] = At("backoff", @.task, @.attempt, d)]
  /\ UNCHANGED <<pending, draining, breaker, sinceFinished>>

Resume(c) ==
  /\ drainer[c].at = "backoff" /\ drainer[c].left = 0
  /\ drainer' = [drainer EXCEPT ![c] = At("calling", @.task, @.attempt + 1, Timeout)]
  /\ UNCHANGED <<pending, draining, breaker, sinceFinished>>

\* Time passes. Timers count down; what is measured is capped where it stops mattering.
Tick ==
  /\ \/ sinceFinished < MinInterval
     \/ sinceOpened < Cooldown
     \/ \E c \in Callers : drainer[c].left > 0
  /\ sinceFinished' = Least(sinceFinished + 1, MinInterval)
  /\ sinceOpened' = Least(sinceOpened + 1, Cooldown)
  /\ drainer' = [c \in Callers |->
                  At(drainer[c].at, drainer[c].task, drainer[c].attempt,
                     IF drainer[c].left > 0 THEN drainer[c].left - 1 ELSE 0)]
  /\ UNCHANGED <<pending, draining, circuitState, consecutiveFailures, streak>>

Steps(c) == EndSpacing(c) \/ Finish(c) \/ Abort(c) \/ Resume(c)

Next ==
  \/ \E c \in Callers : \E r \in Priorities : Enqueue(c, r)
  \/ \E c \in Callers : Steps(c) \/ Succeed(c) \/ Fail(c) \/ Retry(c)
  \/ Tick

\* Timers fire, including the abort of a call; Groq's answers and new requests are not forced.
Fairness == WF_vars(Tick) /\ \A c \in Callers : WF_vars(Steps(c))

Spec == Init /\ [][Next]_vars
FairSpec == Spec /\ Fairness

-----------------------------------------------------------------------------
(* Properties                                                                 *)

Drainer == [at : {"off", "spacing", "calling", "backoff", "settled"},
            task : Callers \cup {NoCaller}, attempt : 0..MaxRetries, left : Nat]

\* Types, and the range of every capped measure.
TypeOK ==
  /\ pending \in [Priorities -> Seq(Callers)]
  /\ draining \in BOOLEAN
  /\ drainer \in [Callers -> Drainer]
  /\ circuitState \in States
  /\ consecutiveFailures \in 0..Threshold
  /\ sinceOpened \in 0..Cooldown
  /\ sinceFinished \in 0..MinInterval
  /\ streak \in 0..Threshold

\* Two drain() never run together, draining tells whether one does, and no request is
\* left in the queue without one: enqueue() and the end of drain()'s loop lose no wake-up.
OneDrainer ==
  /\ \A c, d \in Callers : Active(c) /\ Active(d) => c = d
  /\ draining <=> \E c \in Callers : Active(c)
  /\ (\E r \in Priorities : pending[r] # << >>) => draining

\* The breaker is closed exactly while fewer than Threshold requests in a row have failed,
\* whatever trials, trips and cooldowns happened in between.
TripsOnStreak == circuitState = "CLOSED" <=> streak < Threshold

\* HALF_OPEN lasts only while its trial is in flight, so the breaker cannot be stuck in it;
\* and no attempt runs while the breaker is OPEN, though retries do not consult it.
BreakerAgrees ==
  /\ circuitState = "HALF_OPEN" => \E c \in Callers : Calling(c)
  /\ (\E c \in Callers : Calling(c)) => circuitState # "OPEN"

\* A request starts only when MinInterval has passed since the last one finished, though
\* drain() does not look at the clock again after the wait it computed before.
Spaced ==
  [][\A c \in Callers : Calling(c)' /\ ~Calling(c) => sinceFinished = MinInterval]_vars

\* A request falls back without a call only during the cooldown: the branch that turns
\* others away while a trial is in flight is never what decides.
SkipsOnlyCooling ==
  [][\A c \in Callers :
       /\ Configured
       /\ drainer[c].at # "calling"
       /\ drainer'[c].at = "settled" /\ drainer'[c] # drainer[c]
       => circuitState = "OPEN" /\ sinceOpened < Cooldown]_vars

\* The request with Groq, between its first attempt and its answer.
Serving ==
  IF \E c \in Callers : Calling(c) THEN drainer[CHOOSE c \in Callers : Calling(c)].task
  ELSE NoCaller
Service == INSTANCE GroqService WITH line <- pending, serving <- Serving, breaker <- circuitState

\* Every step of the queue, of the coroutines and of the breaker is a step of the service
\* that the agents rely on, or none: requests are served one at a time, by rank and in
\* order, none is lost or served twice, and one that is turned away finds the breaker open.
ImplementsService == Service!ServiceSpec

\* A critical request is answered, whatever keeps arriving: those of its rank are served
\* in order, every attempt is bounded by the timeout, and retries are bounded.
Top == CHOOSE r \in Priorities : \A s \in Priorities : r <= s
Urgent(c) == \E i \in 1..Len(pending[Top]) : pending[Top][i] = c
UrgentServed == \A c \in Callers : Urgent(c) ~> ~Waiting(c)

\* A trial decides: the breaker leaves HALF_OPEN.
TrialDecides == circuitState = "HALF_OPEN" ~> circuitState # "HALF_OPEN"
=============================================================================
