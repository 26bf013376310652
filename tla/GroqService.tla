---------------------------- MODULE GroqService ----------------------------
(***************************************************************************)
(* What the client of Groq promises the agents, without its coroutines,    *)
(* timers, attempts and delays: one request is served at a time, the most  *)
(* urgent first and those of a rank in the order they came; nobody leaves  *)
(* the line but to be served, or to be turned away while the breaker is    *)
(* open; and what the breaker does is a matter of how many requests in a   *)
(* row have failed, and of whether one is being served.                    *)
(***************************************************************************)
EXTENDS Integers, Sequences

CONSTANTS Callers, Priorities, Configured, Threshold, NoCaller

VARIABLES
  line,      \* per rank, the callers who wait, in order of arrival
  serving,   \* the caller whose request is with Groq, if any
  streak,    \* the requests that have failed in a row, up to Threshold
  breaker

service == <<line, serving, streak, breaker>>

ServiceInit ==
  /\ line = [r \in Priorities |-> << >>]
  /\ serving = NoCaller
  /\ streak = 0
  /\ breaker = "CLOSED"

Tripped == streak = Threshold

Nobody == \A r \in Priorities : line[r] = << >>

InLine(c) == \E r \in Priorities : \E i \in 1..Len(line[r]) : line[r][i] = c

\* Rank r is the most urgent of those that wait.
IsNext(r) == line[r] # << >> /\ \A s \in Priorities : s < r => line[s] = << >>

Leaves(r) == line' = [line EXCEPT ![r] = Tail(@)]

Join(c, r) ==
  /\ ~InLine(c) /\ serving # c
  /\ line' = [line EXCEPT ![r] = Append(@, c)]
  /\ UNCHANGED <<serving, streak>>

Serve(r) ==
  /\ Configured /\ serving = NoCaller
  /\ IsNext(r) /\ Leaves(r)
  /\ serving' = Head(line[r])
  /\ UNCHANGED streak

\* With nobody in line, a caller need not join it.
ServeAtOnce(c) ==
  /\ Configured /\ serving = NoCaller /\ Nobody
  /\ serving' = c
  /\ UNCHANGED <<line, streak>>

TurnAway(r) ==
  /\ ~Configured \/ Tripped
  /\ serving = NoCaller
  /\ IsNext(r) /\ Leaves(r)
  /\ UNCHANGED <<serving, streak>>

Answer ==
  /\ serving # NoCaller /\ serving' = NoCaller
  /\ streak' \in {0, IF Tripped THEN streak ELSE streak + 1}
  /\ UNCHANGED line

\* Closed until it trips; then half open while a request tries, and open otherwise.
Verdict == IF ~Tripped THEN "CLOSED" ELSE IF serving = NoCaller THEN "OPEN" ELSE "HALF_OPEN"

ServiceNext ==
  /\ \/ \E c \in Callers : ServeAtOnce(c) \/ \E r \in Priorities : Join(c, r)
     \/ \E r \in Priorities : Serve(r) \/ TurnAway(r)
     \/ Answer
  /\ breaker' = Verdict'

ServiceSpec == ServiceInit /\ [][ServiceNext]_service
=============================================================================
