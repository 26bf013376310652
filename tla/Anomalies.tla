------------------------------- MODULE Anomalies -------------------------------
(***************************************************************************)
(* AnomalyDetectionService: NROs, FDTs and then zones are assessed against *)
(* their history, what is unusual is stored under a fingerprint and        *)
(* recommended for review; administrators and managers review it.          *)
(*                                                                         *)
(* What an assessment finds is open here: it depends on a week's snapshots.*)
(***************************************************************************)
EXTENDS Recommendations

CONSTANT Unusual   \* what may look unusual: [of, type]

ASSUME UnusualAssumption == \A u \in Unusual : u.of \in Sites \cup Zones

VARIABLE anomalies   \* ai anomalies, in the order they were inserted

Reviewed == {"ACKNOWLEDGED", "RESOLVED", "FALSE_POSITIVE"}

AnomalyType == \A j \in DOMAIN anomalies :
  /\ anomalies[j].of \in Sites \cup Zones
  /\ anomalies[j].status \in Reviewed \cup {"DETECTED", "NORMAL"}

AnomalyInit == anomalies = << >>

\* The fingerprint: what it is about and of which type.
Matching(v) == {j \in DOMAIN anomalies : anomalies[j].of = v.of /\ anomalies[j].type = v.type}
Detected(v) == {j \in Matching(v) : anomalies[j].status = "DETECTED"}

\* INVESTIGATE an NRO or FDT, ADMIN_REVIEW a zone; how urgent, the score decides.
Recommend(v) ==
  IF v.of \in Zones THEN Proposal("ADMIN_REVIEW", ByName(v.of), v.of, None, "MEDIUM", None)
  ELSE Proposal("INVESTIGATE", v.of, ZoneOf[v.of], None, "MEDIUM", None)

\* The same list that the zones' pass goes through.
FoundIn(t, z) == Cardinality({i \in DOMAIN task[t].plan :
  task[t].plan[i].action = "INVESTIGATE" /\ task[t].plan[i].zone = z})

-----------------------------------------------------------------------------
(* A run.                                                                     *)

\* The reads it begins with.
ReadAll(t) ==
  /\ At(t, "read") /\ task[t].kind = "anomaly"
  /\ Set(t, [task[t] EXCEPT !.pc = "scan"])
  /\ UNCHANGED <<level, spent, recs, anomalies>>

Verdict(u, status) == [of |-> u.of, type |-> u.type, status |-> status]

\* detectOne: too little history, nothing unusual, or a score of 20 and more.  The sites
\* before the next anomaly are passed over in one step.
Assess(t) ==
  /\ At(t, "scan")
  /\ \/ Set(t, [task[t] EXCEPT !.pc = "zones", !.i = 1])
     \/ \E i \in task[t].i..Len(Round(t)), u \in Unusual :
          /\ u.of = Round(t)[i]
          /\ Set(t, [task[t] EXCEPT !.pc = "match", !.i = i, !.verdict = Verdict(u, "DETECTED")])
  /\ UNCHANGED <<level, spent, recs, anomalies>>

\* A zone: history enough, and two anomalies in it or a score of 40; with two its own
\* assessment may be NORMAL.
AssessZone(t) ==
  /\ At(t, "zones")
  /\ \/ Set(t, [task[t] EXCEPT !.pc = "ingest", !.i = 1])
     \/ \E i \in task[t].i..Len(ZonesOf(t)), u \in Unusual, s \in {"DETECTED", "NORMAL"} :
          /\ u.of = ZonesOf(t)[i]
          /\ s = "NORMAL" => FoundIn(t, ZonesOf(t)[i]) >= 2
          /\ Set(t, [task[t] EXCEPT !.pc = "match", !.i = i, !.verdict = Verdict(u, s)])
  /\ UNCHANGED <<level, spent, recs, anomalies>>

Stored(t) == LET v == task[t].verdict IN
  Set(t, [task[t] EXCEPT !.pc = IF v.of \in Zones THEN "zones" ELSE "scan", !.i = @ + 1,
                         !.verdict = None, !.plan = Append(@, Recommend(v))])

\* Faulty variant: the filter names the fingerprint only.
MatchAnyStatus(t) == LET v == task[t].verdict IN
  /\ At(t, "match")
  /\ IF Matching(v) # {}
     THEN /\ \E j \in Matching(v) : anomalies' = [anomalies EXCEPT ![j].status = v.status]
          /\ Stored(t)
     ELSE Set(t, [task[t] EXCEPT !.pc = "insert"]) /\ UNCHANGED anomalies
  /\ UNCHANGED <<level, spent, recs>>

\* findOneAndUpdate({fingerprint, status: DETECTED}), which updates in one go ...
MatchAnomaly(t) == LET v == task[t].verdict IN
  /\ At(t, "match")
  /\ IF Detected(v) # {}
     THEN /\ \E j \in Detected(v) : anomalies' = [anomalies EXCEPT ![j].status = v.status]
          /\ Stored(t)
     ELSE Set(t, [task[t] EXCEPT !.pc = "insert"]) /\ UNCHANGED anomalies
  /\ UNCHANGED <<level, spent, recs>>

\* Faulty variant: no unique index.
InsertAnyway(t) == LET v == task[t].verdict IN
  /\ At(t, "insert")
  /\ anomalies' = Append(anomalies, [of |-> v.of, type |-> v.type, status |-> v.status])
  /\ Stored(t)
  /\ UNCHANGED <<level, spent, recs>>

\* ... and inserts later what it has not found: the index on fingerprints of DETECTED
\* anomalies lets one through, and the other run fails.
InsertAnomaly(t) == LET v == task[t].verdict IN
  /\ At(t, "insert")
  /\ IF v.status = "DETECTED" /\ Detected(v) # {}
     THEN Set(t, [task[t] EXCEPT !.pc = "failed"]) /\ UNCHANGED anomalies
     ELSE /\ anomalies' = Append(anomalies, [of |-> v.of, type |-> v.type, status |-> v.status])
          /\ Stored(t)
  /\ UNCHANGED <<level, spent, recs>>

DetectStep(t) == ReadAll(t) \/ Assess(t) \/ AssessZone(t) \/ MatchAnomaly(t) \/ InsertAnomaly(t)

\* acknowledge, resolve and markFalsePositive, whatever the status is.
ReviewAnomaly == \E j \in DOMAIN anomalies, s \in Reviewed :
  /\ Spend(1) /\ anomalies' = [anomalies EXCEPT ![j].status = s]
  /\ UNCHANGED <<level, task, recs>>

-----------------------------------------------------------------------------
(* However many runs detect it at once, an anomaly is listed as DETECTED     *)
(* once.                                                                     *)
OneDetected == \A j, k \in DOMAIN anomalies :
  LET a == anomalies[j]
      b == anomalies[k]
  IN  (a.of = b.of /\ a.type = b.type /\ a.status = "DETECTED" /\ b.status = "DETECTED") => j = k

(* What was reviewed is not detected again: a run that has assessed it before *)
(* or during the review writes another document.                             *)
ReviewsStand == [][\A j \in DOMAIN anomalies :
  anomalies[j].status \in Reviewed => anomalies'[j].status \in Reviewed]_anomalies
=============================================================================
