----------------------------- MODULE MCSupervisor -----------------------------
(***************************************************************************)
(* Values for checking Supervisor: one service, an NRO with two FDTs in    *)
(* the first of two zones; an administrator, cron and a manager who ask.   *)
(***************************************************************************)
EXTENDS Supervisor

CONSTANTS spike, s1, n1, f1, f2, z1, z2, fr, admin, cron, chief

Row == <<s1, n1, f1, f2>>
InOneZone == [s \in {n1, f1, f2} |-> z1]
UnderOne == [f \in {f1, f2} |-> n1]
Sizes == [s \in {s1, n1, f1, f2} |->
  CASE s = s1 -> 1 [] s = n1 -> 300 [] s = f1 -> 32 [] OTHER -> 64]

\* The service is down, the first FDT at 29 of 32 ports and the NRO at 84 %, below its
\* warning; the NRO may come to be full, and the second FDT as well.
LevelsSome == [s \in {s1, n1, f1, f2} |->
  CASE s = s1 -> {0, 1} [] s = n1 -> {252, 300} [] s = f1 -> {29} [] OTHER -> {4, 50}]
LevelsAtFirst == [s \in {s1, n1, f1, f2} |->
  CASE s = s1 -> 1 [] s = n1 -> 252 [] s = f1 -> 29 [] OTHER -> 4]

\* Both FDTs below the NRO are nearly full.
LevelsCrowded == [LevelsAtFirst EXCEPT ![f2] = 60]

Cluster(contracts, inside, distance, ease) ==
  [contracts |-> contracts, inside |-> inside, distance |-> distance, ease |-> ease]
Clusters == [s \in {n1, f1, f2} |->
  CASE s = n1 -> <<Cluster(9, FALSE, 30, 20), Cluster(6, TRUE, -1, 15), Cluster(3, TRUE, 20, 30)>>
    [] s = f1 -> <<Cluster(1, TRUE, 9, 20), Cluster(9, TRUE, 9, 10), Cluster(7, TRUE, 2, 25)>>
    [] OTHER -> << >>]

\* A suggestion to an agent other than ZoneHealthAgent, whose own words stand.
Words == {[zone |-> None, action |-> "REBOOT", area |-> ByName(z1), priority |-> "URGENT"]}

Strange == {[of |-> x, type |-> spike] : x \in {f1, z1}}

Want(kinds, inTurn, scope) == [kinds |-> kinds, inTurn |-> inTurn, scope |-> scope, lang |-> fr]
Wishes == [c \in {admin, cron, chief} |->
  CASE c = admin -> {Want(<<"analysis", "anomaly">>, FALSE, None)}
    [] c = cron -> {Want(<<"anomaly", "analysis">>, TRUE, None)}
    [] OTHER -> {Want(<<"anomaly">>, FALSE, z1), Want(<<"report">>, FALSE, z1)}]
=============================================================================
