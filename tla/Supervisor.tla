------------------------------ MODULE Supervisor ------------------------------
(***************************************************************************)
(* SupervisorSchedulerService and the controller: cron, administrators and *)
(* zone managers ask for analyses, anomaly runs and reports; those who ask *)
(* for the same one while it runs share it.                                *)
(*                                                                         *)
(* A run is one promise.  It is in inFlight until it settles, which is     *)
(* when whoever awaits it goes on.                                         *)
(***************************************************************************)
EXTENDS AlertEngine, Anomalies

CONSTANTS
  Askers,     \* cron and the controller's requests that may be in progress
  Requests    \* what each may ask: [kinds, inTurn, scope, lang]

Askable == {"analysis", "anomaly", "report"}

ASSUME RequestAssumption == \A c \in Askers : Requests[c] \subseteq
  [kinds : Seq(Askable), inTurn : BOOLEAN, scope : Scopes, lang : Langs]

VARIABLES
  inFlight,   \* per kind of run, scope and language: the run to share
  asker,      \* who waits, for what and for which runs
  reports     \* history: the scope of each report stored, and of the analysis in it

ownVars == <<inFlight, asker, reports>>
storeVars == <<alerts, recs, anomalies>>
vars == <<taskVars, storeVars, ownVars>>

Keys == Kinds \X Scopes \X Langs
Quiet == [at |-> "idle", kinds |-> << >>, inTurn |-> FALSE, on |-> {}, scope |-> None, lang |-> None,
          wants |-> {}]

TypeOK ==
  /\ TaskType /\ AlertType /\ RecType /\ AnomalyType
  /\ inFlight \in [Keys -> Tasks \cup {None}]
  /\ \A c \in Askers : asker[c].at \in {"idle", "waiting"} /\ asker[c].on \subseteq Tasks
  /\ \A r \in reports : r.scope \in Scopes /\ r.from \in Scopes

Init ==
  /\ TaskInit /\ AlertInit /\ RecInit /\ AnomalyInit
  /\ inFlight = [k \in Keys |-> None]
  /\ asker = [c \in Askers |-> Quiet] /\ reports = {}

-----------------------------------------------------------------------------
(* Sharing runs.                                                              *)

\* Faulty variant: one map for the scheduler's analyses and reports.
SharedKey(kind, scope, lang) == <<IF kind = "report" THEN "analysis" ELSE kind, scope, lang>>

\* The scheduler's two maps and the anomaly service's own, each by scope and language.
KeyOf(kind, scope, lang) == <<kind, scope, lang>>

FirstPc == [analysis |-> "look", anomaly |-> "read", report |-> "join"]

\* Looked up and entered without an await between: t is the run to wait for.
Share(kind, scope, lang, t) == LET k == KeyOf(kind, scope, lang) IN
  /\ t = IF inFlight[k] # None THEN inFlight[k] ELSE CHOOSE u \in Free : TRUE
  /\ inFlight' = [inFlight EXCEPT ![k] = t]

Started(kind, scope, lang, t) ==
  IF inFlight[KeyOf(kind, scope, lang)] # None THEN task[t]
  ELSE NewRun(kind, scope, lang, FirstPc[kind])

\* Cron and POST run/analysis, run/anomalies, run/report.  The scope is the account's.
Ask(c) == \E r \in Requests[c] :
  /\ asker[c].at = "idle" /\ Spend(Len(r.kinds))
  /\ asker' = [asker EXCEPT ![c] =
       [at |-> "waiting", kinds |-> r.kinds, inTurn |-> r.inTurn, on |-> {},
        scope |-> r.scope, lang |-> r.lang, wants |-> {r.kinds[i] : i \in DOMAIN r.kinds}]]
  /\ UNCHANGED <<level, task, inFlight, reports>> /\ UNCHANGED storeVars

\* run/analysis calls both services before it waits, and here something may come between the
\* two calls; cron's hour takes them in turn.
Call(c) == LET a == asker[c] IN
  /\ a.kinds # << >> /\ (a.inTurn => a.on = {})
  /\ Free # {} \/ inFlight[KeyOf(Head(a.kinds), a.scope, a.lang)] # None
  /\ \E t \in Tasks :
       /\ Share(Head(a.kinds), a.scope, a.lang, t)
       /\ Set(t, Started(Head(a.kinds), a.scope, a.lang, t))
       /\ asker' = [asker EXCEPT ![c].kinds = Tail(@), ![c].on = @ \cup {t}]
  /\ UNCHANGED <<level, spent, reports>> /\ UNCHANGED storeVars

\* buildDailyReport begins with the analysis of its scope.
JoinAnalysis(t) == LET r == task[t] IN
  /\ At(t, "join")
  /\ Free # {} \/ inFlight[KeyOf("analysis", r.scope, r.lang)] # None
  /\ \E u \in Tasks :
       /\ Share("analysis", r.scope, r.lang, u)
       /\ task' = [task EXCEPT ![u] = Started("analysis", r.scope, r.lang, u),
                               ![t] = [r EXCEPT !.pc = "wait", !.on = u]]
  /\ UNCHANGED <<level, spent, asker, reports>> /\ UNCHANGED storeVars

-----------------------------------------------------------------------------
(* The full analysis.  Its audit of the topology and its explanations change *)
(* nothing that is kept here.                                                *)

OnlyTask == UNCHANGED <<level, spent>> /\ UNCHANGED storeVars /\ UNCHANGED ownVars

\* Its reads, and what the agents make of them: each has the model's suggestions or its own
\* words, whatever the others have.
Look(t) == LET seen == SeesNow(t, Sites) IN
  /\ At(t, "look")
  /\ \E zones \in ZoneHealth(t, seen), fdts \in FdtCapacity(t, seen) :
       Set(t, [task[t] EXCEPT !.seen = seen, !.plan = zones \o fdts, !.pc = "predict"])
  /\ OnlyTask

PREDICTION_MIN_LOAD_PCT == 40
Predictable(t) == {s \in Nros : InScope(s, task[t].scope)
                                /\ AtLeast(PREDICTION_MIN_LOAD_PCT, task[t].seen[s], Total[s])}

\* Which of the loaded NROs reach 90 % in 90 days, and for which of them the trend is sure
\* enough to raise an alert.
Predict(t) ==
  /\ At(t, "predict")
  /\ \E hot \in SUBSET Predictable(t) : \E sure \in SUBSET hot :
       LET nros == SetToSeq(sure)
       IN  Set(t, [task[t] EXCEPT !.hot = hot, !.pc = IF sure = {} THEN "plan" ELSE "raise",
                     !.due = [i \in DOMAIN nros |-> Alert("predicted", nros[i], ZoneOf[nros[i]])]])
  /\ OnlyTask

GroundOf == [s \in Sites |-> Ground(Layout[s])]

PlanFor(t, s) ==
  IF s \in Nros
  THEN PlanNro(s, Site(s, task[t].seen), ZoneOf[s], GroundOf[s], IF s \in task[t].hot THEN 90 ELSE 0)
  ELSE PlanFdt(s, Site(s, task[t].seen), ZoneOf[s], GroundOf[s], Siblings(s))

\* Site after site: as it was read at first, its siblings as they are.
Plan(t) == LET i == task[t].i IN
  /\ At(t, "plan")
  /\ IF i > Len(Round(t)) THEN Set(t, [task[t] EXCEPT !.pc = "ingest", !.i = 1, !.seen = Unseen, !.hot = {}])
     ELSE \E p \in {PlanFor(t, Round(t)[i])} :
            Set(t, [task[t] EXCEPT !.i = i + 1, !.plan = @ \o SetToSeq(p)])
  /\ OnlyTask

AnalysisStep(t) == Look(t) \/ Predict(t) \/ Plan(t)

-----------------------------------------------------------------------------
(* The daily report, when its analysis is there.                              *)

\* ComplaintIntelligenceAgent: the model's suggestions, or none; an alert for everybody
\* when there are half as many complaints again.
AnalyzeComplaints(t) ==
  /\ At(t, "complaints")
  /\ \E advice \in Suggested \cup {<< >>}, surge \in BOOLEAN :
       Set(t, [task[t] EXCEPT !.plan = advice, !.pc = "ingest",
                 !.due = IF surge THEN <<Alert("complaints", None, None)>> ELSE << >>])
  /\ OnlyTask

\* ExecutiveReportService.build; its ranking and its words are left out.
WriteReport(t) ==
  /\ At(t, "write")
  /\ reports' = reports \cup {[scope |-> task[t].scope, from |-> task[t].from]}
  /\ Set(t, [task[t] EXCEPT !.pc = "done"])
  /\ UNCHANGED <<level, spent, inFlight, asker>> /\ UNCHANGED storeVars

-----------------------------------------------------------------------------
(* How runs end.                                                              *)

\* An awaited call of any run throws.
Throws(t) ==
  /\ Running(t) /\ task[t].pc \notin {"join", "wait"} /\ Spend(1)
  /\ DropNotices({t}) /\ Set(t, [task[t] EXCEPT !.pc = "failed"])
  /\ UNCHANGED <<level, recs, anomalies>> /\ UNCHANGED ownVars

\* Faulty variant: then for finally.
FreedOnSuccess(t) ==
  inFlight' = [k \in Keys |-> IF inFlight[k] = t /\ At(t, "done") THEN None ELSE inFlight[k]]

\* .finally deletes the key of the run.
Freed(t) == inFlight' = [k \in Keys |-> IF inFlight[k] = t THEN None ELSE inFlight[k]]

\* Who awaits t: one failure answers run/analysis; cron's hour goes on after one.
Answered(c, t) == LET a == asker[c] IN
  IF t \notin a.on THEN a
  ELSE IF (At(t, "failed") /\ ~a.inTurn) \/ (a.kinds = << >> /\ a.on = {t})
  THEN Quiet ELSE [a EXCEPT !.on = @ \ {t}]

\* A report goes on with the analysis it awaited, or fails with it.
Resumed(u, t) == LET r == task[u] IN
  IF u = t THEN IdleTask
  ELSE IF r.pc = "wait" /\ r.on = t
  THEN [r EXCEPT !.pc = IF At(t, "failed") THEN "failed" ELSE "complaints",
                 !.on = None, !.from = task[t].scope]
  ELSE r

Settle(t) ==
  /\ task[t].pc \in {"done", "failed"} /\ Freed(t)
  /\ asker' = [c \in Askers |-> Answered(c, t)]
  /\ task' = [u \in Tasks |-> Resumed(u, t)]
  /\ UNCHANGED <<level, spent, reports>> /\ UNCHANGED storeVars

\* The process dies and is started again; the collections stay.
Crash ==
  /\ Spend(1) /\ task # [t \in Tasks |-> IdleTask]
  /\ DropNotices(Tasks) /\ task' = [t \in Tasks |-> IdleTask]
  /\ inFlight' = [k \in Keys |-> None] /\ asker' = [c \in Askers |-> Quiet]
  /\ UNCHANGED <<level, recs, anomalies, reports>>

-----------------------------------------------------------------------------
OwnStep(t) == JoinAnalysis(t) \/ AnalysisStep(t) \/ AnalyzeComplaints(t) \/ WriteReport(t) \/ Settle(t)

Step(t) ==
  \/ OwnStep(t)
  \/ (HealthStep(t) \/ RaiseStep(t)) /\ UNCHANGED <<recs, anomalies>> /\ UNCHANGED ownVars
  \/ IngestStep(t) /\ UNCHANGED <<alerts, anomalies>> /\ UNCHANGED ownVars
  \/ DetectStep(t) /\ UNCHANGED alerts /\ UNCHANGED ownVars

Work == (\E t \in Tasks : Step(t)) \/ (\E c \in Askers : Call(c))

Next ==
  \/ Work
  \/ \E c \in Askers : Ask(c)
  \/ (StartHealth \/ (NetworkChanges /\ UNCHANGED alerts))
       /\ UNCHANGED <<recs, anomalies>> /\ UNCHANGED ownVars
  \/ (ReviewRecommendation \/ TwelveHoursGoBy)
       /\ UNCHANGED <<alerts, anomalies>> /\ UNCHANGED ownVars
  \/ ReviewAnomaly /\ UNCHANGED alerts /\ UNCHANGED ownVars
  \/ (\E t \in Tasks : Throws(t)) \/ Crash

Spec == Init /\ [][Next]_vars

\* The event loop goes on with what is runnable.
FairSpec == Spec /\ WF_vars(Work)

-----------------------------------------------------------------------------
(* Whoever waits waits for a run that is underway, of a kind, scope and      *)
(* language that was asked for: nobody is given an answer that was there     *)
(* before the question, or one about another zone; and a report is built on  *)
(* an analysis of its own scope.                                             *)
AnswersFit ==
  /\ \A c \in Askers : \A t \in asker[c].on :
       /\ task[t].kind \in asker[c].wants
       /\ task[t].scope = asker[c].scope /\ task[t].lang = asker[c].lang
  /\ \A t \in Tasks : At(t, "wait") =>
       task[task[t].on].kind = "analysis" /\ task[task[t].on].lang = task[t].lang
  /\ \A r \in reports : r.scope = r.from

(* Everyone who asks is answered, whatever fails: no run waits for itself,   *)
(* or for one that nobody will settle.                                       *)
AsksEnd == (\E c \in Askers : asker[c].at = "waiting") ~> (\A c \in Askers : asker[c].at = "idle")

(* "Every proposal comes back as a Recommendation with status PENDING"        *)
(* (infrastructure-planner.agent.ts:37): an analysis that is done with a     *)
(* proposal for a saturated NRO or FDT leaves a pending recommendation about *)
(* that NRO or FDT.                                                          *)
ProposalsArePending == [][\A t \in Tasks :
  LET plan == task[t].plan IN
  (/\ At(t, "ingest") /\ plan # << >> /\ Head(plan).site # None
   /\ task'[t].pc = "ingest" /\ task'[t].plan = Tail(plan))
    => \E r \in recs' : r.site = Head(plan).site /\ r.status = "PENDING"]_vars
=============================================================================
