---------------------------- MODULE Recommendations ----------------------------
(***************************************************************************)
(* RecommendationsService: recommendations of every agent go through       *)
(* ingest, one after the other; administrators approve or dismiss them.    *)
(***************************************************************************)
EXTENDS SupervisorTasks

CONSTANTS
  Suggestions   \* what the language model may suggest: [zone, action, area, priority]; zone
                \* is where ZoneHealthAgent gets it, None if that agent does not

VARIABLE recs   \* ai recommendations, each with how many there were before of its action and area

Actions == {"CREATE_NRO", "CREATE_FDT", "SPLIT_ZONE", "MOVE_CONTRACTS", "INCREASE_CAPACITY",
            "DEPLOY_EQUIPMENT", "INVESTIGATE", "ADMIN_REVIEW"}
Priorities == {"URGENT", "HIGH", "MEDIUM", "LOW"}

RecType ==
  \A r \in recs :
    /\ r.action \in Actions /\ r.priority \in Priorities
    /\ r.zone \in Scopes /\ r.site \in Watched \cup {None} /\ r.nth \in Nat
    /\ r.status \in {"PENDING", "APPROVED", "DISMISSED"} /\ r.old \in BOOLEAN

RecInit == recs = {}

-----------------------------------------------------------------------------
(* What the agents recommend.                                                 *)

\* Faulty variant: the model's words are stored as they come.
RawSuggestion(s, zone) == Proposal(s.action, s.area, zone, None, s.priority, None)

\* normalizeRecommendation: the model's answer is no enum.
NormalizeRecommendation(s, zone) ==
  Proposal(IF s.action \in Actions THEN s.action ELSE "ADMIN_REVIEW", s.area, zone, None,
           IF s.priority \in Priorities THEN s.priority ELSE "MEDIUM", None)

\* TopologyAgent, GeospatialAgent, FdtCapacityAgent and ComplaintIntelligenceAgent name
\* no zone in what the model suggests.
Suggested == {<<NormalizeRecommendation(s, None)>> : s \in Suggestions}

\* ZoneHealthAgent by itself: a word on each zone with a full FDT, and on each with a full
\* NRO.  (It reads their stored status, which says PLEIN or SATURATED from 100 % on.)
ZoneAdvice(zones, seen) ==
  LET full(kind, z) == \E s \in kind : ZoneOf[s] = z /\ AtLeast(100, seen[s], Total[s])
      words == SetToSeq({<<z, "CREATE_FDT">> : z \in {y \in zones : full(Fdts, y)}}
                        \cup {<<z, "INCREASE_CAPACITY">> : z \in {y \in zones : full(Nros, y)}})
  IN  [i \in DOMAIN words |-> Proposal(words[i][2], ByName(words[i][1]), words[i][1], None, "HIGH", None)]

\* The model's answer takes the place of its own words for the zones it speaks of: for none
\* or for one here.
ZoneHealth(t, seen) ==
  {ZoneAdvice(ZonesIn(t), seen)}
    \cup {<<NormalizeRecommendation(s, s.zone)>> \o ZoneAdvice(ZonesIn(t) \ {s.zone}, seen) :
             s \in {x \in Suggestions : x.zone \in ZonesIn(t)}}

\* FdtCapacityAgent when the model does not answer: a word on each FDT over 70 %.
FdtAdvice(t, seen) ==
  LET fdts == SetToSeq({f \in Fdts : /\ InScope(f, task[t].scope)
                                     /\ AtLeast(FDT_WARNING_PCT, seen[f], Total[f])})
      word(f) == IF AtLeast(FDT_CRITICAL_PCT, seen[f], Total[f])
                 THEN Proposal("CREATE_FDT", ByName(ZoneOf[f]), ZoneOf[f], None, "URGENT", None)
                 ELSE Proposal("DEPLOY_EQUIPMENT", ByName(ZoneOf[f]), ZoneOf[f], None, "MEDIUM", None)
  IN  [i \in DOMAIN fdts |-> word(fdts[i])]

\* FdtCapacityAgent.  What the model suggests to TopologyAgent and GeospatialAgent is alike.
FdtCapacity(t, seen) == {FdtAdvice(t, seen)} \cup Suggested

-----------------------------------------------------------------------------
(* ingest.                                                                    *)

Alike(r) == {q \in recs : q.action = r.action /\ q.area = r.area}

\* Faulty variant: $lte for $gte in the window.
OldDuplicates(r) == {q \in Alike(r) : q.status = "PENDING" /\ q.old}

\* Pending ones of the last twelve hours with its action and area, whatever their site.
\* (ingest fixes the hour once for all of them; the window is taken at each look here, which
\* may store a twin of one that has grown old during an ingest.)
Duplicates(r) == {q \in Alike(r) : q.status = "PENDING" /\ ~q.old}

AfterIngest == [analysis |-> "done", anomaly |-> "done", report |-> "raise"]

FindDuplicate(t) == LET plan == task[t].plan IN
  /\ At(t, "ingest")
  /\ Set(t, IF plan = << >> THEN [task[t] EXCEPT !.pc = AfterIngest[task[t].kind]]
            ELSE IF Duplicates(Head(plan)) # {} THEN [task[t] EXCEPT !.plan = Tail(plan)]
            ELSE [task[t] EXCEPT !.pc = "add", !.doc = Cardinality(Alike(Head(plan)))])
  /\ UNCHANGED <<level, spent, recs>>

\* looked (history): how many were alike when it was looked for.
CreateRecommendation(t) == LET r == Head(task[t].plan) IN
  /\ At(t, "add")
  /\ recs' = recs \cup {[action |-> r.action, area |-> r.area, zone |-> r.zone, site |-> r.site,
                         priority |-> r.priority, why |-> r.why, status |-> "PENDING", old |-> FALSE,
                         nth |-> Cardinality(Alike(r)), looked |-> task[t].doc]}
  /\ Set(t, [task[t] EXCEPT !.pc = "ingest", !.plan = Tail(@), !.doc = 0])
  /\ UNCHANGED <<level, spent>>

IngestStep(t) == FindDuplicate(t) \/ CreateRecommendation(t)

\* setStatus: PATCH recommendations/:id/approve and /reject, whatever the status is.
ReviewRecommendation == \E r \in recs, s \in {"APPROVED", "DISMISSED"} :
  /\ Spend(1) /\ recs' = (recs \ {r}) \cup {[r EXCEPT !.status = s]}
  /\ UNCHANGED <<level, task>>

TwelveHoursGoBy ==
  /\ \E r \in recs : ~r.old
  /\ Spend(1)
  /\ recs' = {[r EXCEPT !.old = TRUE] : r \in recs}
  /\ UNCHANGED <<level, task>>

-----------------------------------------------------------------------------
(* Two pending recommendations of the last twelve hours with the same action *)
(* and area come only from two ingests of which the second had looked before *)
(* the first wrote: hourly runs, reviews and the passing of the window add   *)
(* none.                                                                     *)
NoTwins == \A a, b \in recs :
  (/\ a.action = b.action /\ a.area = b.area /\ a.nth < b.nth
   /\ a.status = "PENDING" /\ b.status = "PENDING" /\ ~a.old /\ ~b.old) => b.looked <= a.nth

StaysBelow(p) == 10 * (p.to.used * p.of + p.from.used * p.moved) < 9 * p.to.total * p.of

(* No stored proposal makes matters worse: contracts are to move only where  *)
(* the FDT that takes them stays below its critical 90 %, in ports and not   *)
(* in rounded percent, if it has ports at all (simulateRedistribution takes  *)
(* one that has none for empty); a new site is to stand inside the zone,     *)
(* away from its like, and among at least five contracts.                    *)
PlansAreSafe == \A r \in recs : LET p == r.why IN
  /\ r.action = "MOVE_CONTRACTS" /\ p # None /\ p.to.total > 0 => StaysBelow(p)
  /\ r.action \in {"CREATE_NRO", "CREATE_FDT"} /\ p # None =>
       p.inside /\ p.distance \notin 0..4 /\ p.contracts > 4
=============================================================================
