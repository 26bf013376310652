---------------------------- MODULE SupervisorTasks ----------------------------
(***************************************************************************)
(* What the parts of the AI supervisor share: the network they watch and   *)
(* the asynchronous runs that are underway in the process, each between    *)
(* two of its awaited calls.                                               *)
(***************************************************************************)
EXTENDS Planner

CONSTANTS
  Services,         \* what HealthMonitoringAgent checks
  Nros, Fdts, Zones,
  Watch,            \* all of them in the order they are gone through, services first
  ZoneOf, ParentOf, \* regionId of NROs and FDTs; nroId of FDTs
  Total,            \* maxCapacity, nbPortsTotal; of no use for a service
  Levels, Level0,   \* what each may come to use (a service: 1 when down), and uses at first
  Layout,           \* the clusters of the contracts of NROs and FDTs
  Langs,
  Tasks,            \* room for runs
  MaxSpent          \* bound on what happens: a request counts by the runs it asks for, all else 1

ASSUME SupervisorAssumption ==
  /\ None \notin Services \cup Nros \cup Fdts \cup Zones \cup Tasks
  /\ {Watch[i] : i \in DOMAIN Watch} = Services \cup Nros \cup Fdts
  /\ \A i \in DOMAIN Watch : Watch[i] \in Services <=> i <= Cardinality(Services)
  /\ Watch \in Seq(Services \cup Nros \cup Fdts)

\* Every one has an id of its own; an NRO or FDT may be in no zone.
ASSUME NetworkAssumption ==
  /\ IsFiniteSet(Services) /\ IsFiniteSet(Nros) /\ IsFiniteSet(Fdts) /\ IsFiniteSet(Zones)
  /\ Services \cap (Nros \cup Fdts) = {} /\ Nros \cap Fdts = {}
  /\ ZoneOf \in [Nros \cup Fdts -> Zones \cup {None}]
  /\ Level0 \in [Services \cup Nros \cup Fdts -> Nat]
  /\ \A s \in Services \cup Nros \cup Fdts : Levels[s] \subseteq Nat
  /\ \A s \in Nros \cup Fdts : Total[s] \in Nat /\ Layout[s] \in Seq(ClusterType)

ASSUME MaxSpentAssumption == MaxSpent \in Nat

VARIABLES
  level,   \* the load, the ports in use, the services' state
  task,    \* the runs
  spent

taskVars == <<level, task, spent>>

Sites == Nros \cup Fdts
Watched == Services \cup Sites
Scopes == Zones \cup {None}      \* None: the whole network

Kinds == {"health", "analysis", "anomaly", "report"}
Pcs == {"idle", "done", "failed", "check", "read", "watch", "raise", "create", "tellZone", "tellAdmin",
        "look", "predict", "plan", "ingest", "add", "scan", "match", "insert", "zones",
        "join", "wait", "complaints", "write"}

Unseen == [s \in Watched |-> 0]

\* due: alerts to raise; plan: recommendations to store; i: how far in what is gone
\* through; on: the run it waits for; calm (history): it has had the five-minute tier and
\* the network to itself; doc: the alert it tells of, or the recommendations there were;
\* verdict: the anomaly it stores; hot: NROs predicted to saturate; from: the
\* scope of the analysis a report was given.
IdleTask == [kind |-> "none", pc |-> "idle", scope |-> None, lang |-> None, i |-> 1,
             seen |-> Unseen, due |-> << >>, plan |-> << >>, on |-> None,
             calm |-> FALSE, doc |-> 0, verdict |-> None, hot |-> {},
             from |-> None]

TaskType ==
  /\ level \in [Watched -> Nat] /\ spent \in 0..MaxSpent
  /\ \A t \in Tasks :
       /\ task[t].pc \in Pcs /\ task[t].scope \in Scopes
       /\ task[t].pc = "idle" <=> task[t].kind = "none"
       /\ task[t].kind \in Kinds \cup {"none"} /\ task[t].hot \subseteq Nros

TaskInit ==
  /\ level = Level0 /\ task = [t \in Tasks |-> IdleTask]
  /\ spent = 0

Spend(n) == spent + n <= MaxSpent /\ spent' = spent + n

At(t, pc) == task[t].pc = pc
Running(t) == task[t].pc \notin {"idle", "done", "failed"}
Set(t, rec) == task' = [task EXCEPT ![t] = rec]
Free == {t \in Tasks : At(t, "idle")}

\* The sites of its scope, NROs first, each in the order in which find() returns them; and
\* the zones.
InScope(s, z) == z = None \/ ZoneOf[s] = z
Within(sites, z) == SetToSeq({s \in sites : InScope(s, z)})
RoundOf == [z \in Scopes |-> Within(Nros, z) \o Within(Fdts, z)]
Round(t) == RoundOf[task[t].scope]
ZonesIn(t) == {z \in Zones : task[t].scope \in {None, z}}
ZonesOf(t) == SetToSeq(ZonesIn(t))

Site(s, seen) == [used |-> seen[s], total |-> Total[s]]
Siblings(f) == {Site(g, level) : g \in {h \in Fdts : h # f /\ ParentOf[h] = ParentOf[f]}}

NewRun(kind, scope, lang, pc) ==
  [IdleTask EXCEPT !.kind = kind, !.scope = scope, !.lang = lang, !.pc = pc]

\* Contracts come and go, services fall and rise.
NetworkChanges == \E s \in Watched : \E v \in Levels[s] \ {level[s]} :
  /\ Spend(1) /\ level' = [level EXCEPT ![s] = v]
  /\ task' = [t \in Tasks |-> [task[t] EXCEPT !.calm = FALSE]]
=============================================================================
