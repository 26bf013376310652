------------------------------ MODULE AlertEngine ------------------------------
(***************************************************************************)
(* AlertEngineService and the five-minute tier of the scheduler, which     *)
(* nothing keeps from running twice at once: cron and a button start it.   *)
(*                                                                         *)
(* Snapshots are written along the way and left out: what is computed from *)
(* them, forecasts and anomalies, may come out either way here.            *)
(***************************************************************************)
EXTENDS SupervisorTasks

VARIABLE alerts   \* ai alerts, in the order they were created

NRO_WARNING_PCT == 85

\* What an alert is about: its source and entityId.
Alert(about, of, zone) == [about |-> about, of |-> of, zone |-> zone]
Abouts == {"level", "predicted", "complaints"}

AlertType == \A j \in DOMAIN alerts :
  /\ alerts[j].about \in Abouts /\ alerts[j].of \in Watched \cup {None}
  /\ alerts[j].zone \in Scopes /\ alerts[j].active \in BOOLEAN

AlertInit == alerts = << >>

\* At or above this much an alert is due.
Breach(s, v) ==
  \/ s \in Services /\ v > 0
  \/ s \in Nros /\ AtLeast(NRO_WARNING_PCT, v, Total[s])
  \/ s \in Fdts /\ AtLeast(FDT_CRITICAL_PCT, v, Total[s])

ActiveAlerts(about, of) ==
  {j \in DOMAIN alerts : alerts[j].active /\ alerts[j].about = about /\ alerts[j].of = of}

-----------------------------------------------------------------------------
(* The five-minute tier.                                                      *)

\* @Cron and POST run/health-check.
StartHealth == \E t \in Free :
  /\ Spend(1)
  /\ LET alone == \A u \in Tasks : task[u].kind = "health" => ~Running(u)
     IN  task' = [u \in Tasks |->
           IF u = t THEN [NewRun("health", None, None, "check") EXCEPT !.calm = alone]
           ELSE [task[u] EXCEPT !.calm = FALSE]]
  /\ UNCHANGED <<level, alerts>>

\* The services are gone through before the NROs and FDTs are read.
WatchPc(i) == IF i > Len(Watch) THEN "raise"
              ELSE IF i = Cardinality(Services) + 1 THEN "read" ELSE "watch"

SeesNow(t, what) == [s \in Watched |-> IF s \in what THEN level[s] ELSE task[t].seen[s]]

CheckServices(t) ==
  /\ At(t, "check")
  /\ Set(t, [task[t] EXCEPT !.seen = SeesNow(t, Services), !.pc = WatchPc(1)])
  /\ UNCHANGED <<level, spent, alerts>>

ReadSites(t) ==
  /\ At(t, "read") /\ task[t].kind = "health"
  /\ Set(t, [task[t] EXCEPT !.seen = SeesNow(t, Sites), !.pc = "watch"])
  /\ UNCHANGED <<level, spent, alerts>>

\* Faulty variant: a filter that matches no stored entityId.
ResolveNone(s) == UNCHANGED alerts

\* resolve: every active alert about it.
Resolve(s) ==
  alerts' = [j \in DOMAIN alerts |->
    IF j \in ActiveAlerts("level", s) THEN [alerts[j] EXCEPT !.active = FALSE] ELSE alerts[j]]

\* An alert is collected or, when there is nothing to raise, resolved.
WatchOne(t) == LET i == task[t].i
                   s == Watch[i]
               IN
  /\ At(t, "watch")
  /\ LET last == WatchPc(i + 1) = "raise"
         next == [task[t] EXCEPT !.i = IF last THEN 1 ELSE i + 1, !.pc = WatchPc(i + 1),
                                 !.seen = IF last THEN Unseen ELSE @]
     IN  IF Breach(s, task[t].seen[s])
         THEN /\ Set(t, [next EXCEPT !.due =
                   Append(@, Alert("level", s, IF s \in Services THEN None ELSE ZoneOf[s]))])
              /\ UNCHANGED alerts
         ELSE Set(t, next) /\ Resolve(s)
  /\ UNCHANGED <<level, spent>>

HealthStep(t) == CheckServices(t) \/ ReadSites(t) \/ WatchOne(t)

-----------------------------------------------------------------------------
(* raise, for whichever run has alerts due.                                   *)

AfterRaise == [health |-> "done", analysis |-> "plan", report |-> "write"]

\* One that is active already is not raised, nor told, again.
FindAlert(t) == LET due == task[t].due IN
  /\ At(t, "raise")
  /\ Set(t, IF due = << >> THEN [task[t] EXCEPT !.pc = AfterRaise[task[t].kind]]
            ELSE IF ActiveAlerts(Head(due).about, Head(due).of) # {}
            THEN [task[t] EXCEPT !.due = Tail(due)]
            ELSE [task[t] EXCEPT !.pc = "create"])
  /\ UNCHANGED <<level, spent, alerts>>

\* ... and broadcast to the room of its zone, or to everybody.
CreateAlert(t) == LET a == Head(task[t].due) IN
  /\ At(t, "create")
  /\ alerts' = Append(alerts, [about |-> a.about, of |-> a.of, zone |-> a.zone,
                               active |-> TRUE, told |-> {"room"}, dropped |-> FALSE])
  /\ Set(t, [task[t] EXCEPT !.doc = Len(alerts) + 1,
               !.pc = IF a.zone = None THEN "tellAdmin" ELSE "tellZone"])
  /\ UNCHANGED <<level, spent>>

Hears(t, who) == alerts' = [alerts EXCEPT ![task[t].doc].told = @ \cup {who}]
NextAlert(t) == Set(t, [task[t] EXCEPT !.pc = "raise", !.due = Tail(@), !.doc = 0])

\* Faulty variant: an alert of a zone is for its manager alone.
TellManagerOnly(t) ==
  /\ At(t, "tellZone") /\ Hears(t, "manager") /\ NextAlert(t)
  /\ UNCHANGED <<level, spent>>

\* notifyZoneManager.
TellManager(t) ==
  /\ At(t, "tellZone") /\ Hears(t, "manager")
  /\ Set(t, [task[t] EXCEPT !.pc = "tellAdmin"])
  /\ UNCHANGED <<level, spent>>

\* notifyAdmin.
TellAdmins(t) ==
  /\ At(t, "tellAdmin") /\ Hears(t, "admin") /\ NextAlert(t)
  /\ UNCHANGED <<level, spent>>

RaiseStep(t) == FindAlert(t) \/ CreateAlert(t) \/ TellManager(t) \/ TellAdmins(t)

\* The run ends between an alert and its notices.
Telling(t) == task[t].pc \in {"tellZone", "tellAdmin"}
DropNotices(runs) ==
  alerts' = [j \in DOMAIN alerts |->
    IF \E t \in runs : Telling(t) /\ task[t].doc = j
    THEN [alerts[j] EXCEPT !.dropped = TRUE] ELSE alerts[j]]

-----------------------------------------------------------------------------
(* When a five-minute tier ends, the active alerts are about the services,   *)
(* NROs and FDTs over their thresholds and no others, whatever crashes,      *)
(* failures and overlapping tiers have left before it: provided that neither *)
(* the network nor another tier moved while it ran.                          *)
AlertsMirror == \A t \in Tasks :
  At(t, "done") /\ task[t].kind = "health" /\ task[t].calm =>
    \A s \in Watched : ActiveAlerts("level", s) # {} <=> Breach(s, level[s])

(* Every alert that was created is told to the administrators, and to the    *)
(* manager of its zone if it has one, by the run that created it: nobody     *)
(* tells it later, as an active alert is not raised again.  (The alert a run *)
(* was telling when it failed is the exception.)                             *)
AlertsAreTold == \A j \in DOMAIN alerts :
  \/ {"room", "admin"} \cup (IF alerts[j].zone = None THEN {} ELSE {"manager"}) \subseteq alerts[j].told
  \/ alerts[j].dropped
  \/ \E t \in Tasks : Telling(t) /\ task[t].doc = j
=============================================================================
