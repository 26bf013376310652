--------------------------- MODULE Supervisor_proofs ---------------------------
(***************************************************************************)
(* The AI supervisor, for any network, any number of runs that overlap in  *)
(* every order, and whatever the agents find.                              *)
(***************************************************************************)
EXTENDS Supervisor, FiniteSetTheorems, TLAPS

-----------------------------------------------------------------------------
(* What is kept, by type.                                                     *)

SiteType == [used : Nat, total : Nat]
MoveType == [from : SiteType, to : SiteType, moved : Nat, of : Nat]
Areas == ({"name", "id"} \X Scopes) \cup Sites \cup {s.area : s \in Suggestions}
Why == ClusterType \cup MoveType \cup {None}

ProposalType == [action : Actions, area : Areas, zone : Scopes, site : Sites \cup {None},
                 priority : Priorities, why : Why]
\* A proposal that PlansAreSafe has nothing against.
SafeProposal(p) ==
  /\ p.action = "MOVE_CONTRACTS" /\ p.why # None /\ p.why.to.total > 0 => StaysBelow(p.why)
  /\ p.action \in {"CREATE_NRO", "CREATE_FDT"} /\ p.why # None =>
       p.why.inside /\ p.why.distance \notin 0..4 /\ p.why.contracts > 4

Sensible == {p \in ProposalType : SafeProposal(p)}

AlertDue == [about : Abouts, of : Watched \cup {None}, zone : Scopes]
AlertDoc == [about : Abouts, of : Watched \cup {None}, zone : Scopes, active : BOOLEAN,
             told : SUBSET {"room", "manager", "admin"}, dropped : BOOLEAN]
Types == {u.type : u \in Unusual}
VerdictType == [of : Sites \cup Zones, type : Types, status : {"DETECTED", "NORMAL"}]
AnomalyDoc == [of : Sites \cup Zones, type : Types, status : Reviewed \cup {"DETECTED", "NORMAL"}]

RunType ==
  [kind : Kinds \cup {"none"}, pc : Pcs, scope : Scopes, lang : Langs \cup {None},
   i : Nat \ {0}, seen : [Watched -> Nat], due : Seq(AlertDue), plan : Seq(Sensible),
   on : Tasks \cup {None}, calm : BOOLEAN, doc : Nat, verdict : VerdictType \cup {None},
   hot : SUBSET Nros, from : Scopes]

AskerType == [at : {"idle", "waiting"}, kinds : Seq(Askable), inTurn : BOOLEAN, on : SUBSET Tasks,
              scope : Scopes, lang : Langs \cup {None}, wants : SUBSET Askable]

\* The points a run of each kind comes to.
PcOf(kind) ==
  CASE kind = "none" -> {"idle"}
    [] kind = "health" -> {"check", "read", "watch", "raise", "create", "tellZone", "tellAdmin",
                           "done", "failed"}
    [] kind = "analysis" -> {"look", "predict", "raise", "create", "tellZone", "tellAdmin", "plan",
                             "ingest", "add", "done", "failed"}
    [] kind = "anomaly" -> {"read", "scan", "match", "insert", "zones", "ingest", "add", "done",
                            "failed"}
    [] kind = "report" -> {"join", "wait", "complaints", "ingest", "add", "raise", "create",
                           "tellZone", "tellAdmin", "write", "done", "failed"}

\* After its analysis has come back, a report has the analysis of its scope.
Built == {"complaints", "ingest", "add", "raise", "create", "tellZone", "tellAdmin", "write"}

Sound(r) ==
  /\ r.pc \in PcOf(r.kind)
  /\ r.pc = "check" => r.i = 1
  /\ r.kind = "health" /\ r.pc \in {"read", "watch"} => r.i \in DOMAIN Watch
  /\ r.pc = "add" => r.plan # << >>
  /\ r.pc \in {"create", "tellZone", "tellAdmin"} => r.due # << >>
  /\ r.pc \in {"match", "insert"} => r.verdict \in VerdictType
  /\ r.kind \in Askable => r.lang \in Langs
  /\ r.kind = "report" /\ r.pc \in Built => r.from = r.scope

RunsOK == task \in [Tasks -> RunType] /\ \A t \in Tasks : Sound(task[t])

-----------------------------------------------------------------------------
(* Sets in some order.                                                        *)

LEMMA SetToSeqType ==
  ASSUME NEW S, IsFiniteSet(S)
  PROVE  SetToSeq(S) \in Seq(S)
<1>1. Cardinality(S) \in Nat
  BY FS_CardinalityType
<1>2. \E f \in [1..Cardinality(S) -> S] : IsInjective(f)
  <2>1. ExistsBijection(1..Cardinality(S), S)
    BY FS_CardinalityType
  <2>. QED
    BY <2>1 DEF ExistsBijection, Bijection, Injection
<1>3. SetToSeq(S) \in [1..Cardinality(S) -> S]
  BY <1>2 DEF SetToSeq
<1>. QED
  BY <1>1, <1>3

LEMMA AppendType ==
  ASSUME NEW S, NEW q \in Seq(S), NEW x \in S
  PROVE  Append(q, x) \in Seq(S)
OBVIOUS

LEMMA TailType ==
  ASSUME NEW S, NEW q \in Seq(S), q # << >>
  PROVE  Head(q) \in S /\ Tail(q) \in Seq(S)
OBVIOUS

LEMMA ConcatType ==
  ASSUME NEW S, NEW q \in Seq(S), NEW r \in Seq(S)
  PROVE  q \o r \in Seq(S)
OBVIOUS

LEMMA NetworkFacts ==
  /\ Sites \subseteq Watched /\ None \notin Watched
  /\ \A z \in Scopes : RoundOf[z] \in Seq(Sites)
  /\ \A s \in Sites : ZoneOf[s] \in Scopes
  /\ \A t \in Tasks : task[t].scope \in Scopes => Round(t) \in Seq(Sites)
<1>1. \A z : Within(Nros, z) \in Seq(Nros) /\ Within(Fdts, z) \in Seq(Fdts)
  <2>. TAKE z
  <2>1. \A kind : IsFiniteSet(kind) => Within(kind, z) \in Seq({s \in kind : InScope(s, z)})
    BY SetToSeqType, FS_Subset DEF Within
  <2>2. \A kind : Seq({s \in kind : InScope(s, z)}) \subseteq Seq(kind)
    OBVIOUS
  <2>. QED
    BY <2>1, <2>2, NetworkAssumption
<1>2. \A z : Within(Nros, z) \in Seq(Sites) /\ Within(Fdts, z) \in Seq(Sites)
  BY <1>1 DEF Sites
<1>3. \A z \in Scopes : RoundOf[z] \in Seq(Sites)
  BY <1>2, ConcatType DEF RoundOf
<1>. QED
  BY <1>3, NetworkAssumption, SupervisorAssumption DEF Sites, Watched, Scopes, Round

-----------------------------------------------------------------------------
(* What the planner proposes.                                                 *)

\* A finite set that is ordered has a best element: the one with the fewest before it.
LEMMA BestExists ==
  ASSUME NEW S, IsFiniteSet(S), S # {}, NEW R,
         \A x, y \in S : <<x, y>> \in R \/ <<y, x>> \in R,
         \A x, y, z \in S : <<x, y>> \in R /\ <<y, z>> \in R => <<x, z>> \in R
  PROVE  \E x \in S : \A y \in S : <<x, y>> \in R
<1>. DEFINE Before(x) == {y \in S : <<x, y>> \notin R}
            Ranks == {Cardinality(Before(x)) : x \in S}
<1>1. ASSUME NEW x \in S
      PROVE  Before(x) \subseteq S /\ IsFiniteSet(Before(x)) /\ Cardinality(Before(x)) \in Nat
  <2>1. Before(x) \in SUBSET S
    OBVIOUS
  <2>2. IsFiniteSet(Before(x))
    BY <2>1, FS_Subset
  <2>. QED
    BY <2>1, <2>2, FS_CardinalityType
<1>. HIDE DEF Before
<1>2. Ranks \subseteq Nat /\ Ranks # {}
  BY <1>1
<1>3. \E n \in Ranks : \A m \in Ranks : n <= m
  <2>. HIDE DEF Ranks
  <2>1. PICK n \in Ranks : \A m \in Ranks : ~(<<m, n>> \in OpToRel(<, Nat))
    BY <1>2, NatLessThanWellFounded, WFMin
  <2>2. \A m \in Ranks : ~(m < n)
    <3>1. \A a, b \in Nat : a < b => <<a, b>> \in OpToRel(<, Nat)
      BY DEF OpToRel
    <3>. QED
      BY <2>1, <1>2, <3>1
  <2>3. \A m \in Ranks : m \in Nat
    BY <1>2
  <2>4. \A m \in Ranks : n <= m
    BY <2>2, <2>3, n \in Ranks
  <2>. QED
    BY <2>4
<1>4. PICK x \in S : \A y \in S : Cardinality(Before(x)) <= Cardinality(Before(y))
  BY <1>3
<1>5. SUFFICES ASSUME NEW y \in S, <<x, y>> \notin R PROVE FALSE
  BY <1>4
<1>. USE DEF Before
<1>6. <<y, x>> \in R /\ <<y, y>> \in R
  BY <1>5
<1>7. Before(y) \subseteq Before(x)
  <2>. SUFFICES ASSUME NEW z \in S, <<y, z>> \notin R, <<x, z>> \in R PROVE FALSE
    OBVIOUS
  <2>. QED
    BY <1>6
<1>8. Before(y) # Before(x)
  BY <1>5, <1>6
<1>9. Cardinality(Before(y)) < Cardinality(Before(x))
  <2>. HIDE DEF Before
  <2>1. Before(y) \in SUBSET Before(x) /\ IsFiniteSet(Before(x))
    BY <1>1, <1>7
  <2>2. /\ Cardinality(Before(y)) <= Cardinality(Before(x))
        /\ Cardinality(Before(y)) # Cardinality(Before(x))
    BY <2>1, <1>8, FS_Subset
  <2>. QED
    BY <2>2, <1>1
<1>. HIDE DEF Before
<1>. QED
  BY <1>1, <1>4, <1>9

LEMMA ContractsType ==
  ASSUME NEW clusters \in Seq(ClusterType)
  PROVE  /\ Contracts(clusters) \in Nat
         /\ \A i \in DOMAIN clusters : clusters[i].contracts > 0 => Contracts(clusters) > 0
<1>. DEFINE P(i) == {i} \X (1..clusters[i].contracts)
            Parts == {P(i) : i \in DOMAIN clusters}
<1>1. \A i \in DOMAIN clusters : clusters[i].contracts \in Nat
  <2>1. \A i \in DOMAIN clusters : clusters[i] \in ClusterType
    OBVIOUS
  <2>. QED
    BY <2>1 DEF ClusterType
<1>2. ASSUME NEW i \in DOMAIN clusters PROVE IsFiniteSet(P(i))
  <2>1. IsFiniteSet({i})
    BY FS_Singleton
  <2>2. IsFiniteSet(1..clusters[i].contracts)
    BY <1>1, FS_Interval
  <2>. QED
    BY <2>1, <2>2, FS_Product
<1>3. IsFiniteSet(Parts)
  <2>1. IsFiniteSet(DOMAIN clusters)
    BY FS_Interval
  <2>2. [i \in DOMAIN clusters |-> P(i)] \in Surjection(DOMAIN clusters, Parts)
    BY DEF Surjection
  <2>. QED
    BY <2>1, <2>2, FS_Surjection
<1>4. IsFiniteSet(UNION Parts)
  BY <1>2, <1>3, FS_UNION
<1>5. ASSUME NEW i \in DOMAIN clusters, clusters[i].contracts > 0 PROVE UNION Parts # {}
  <2>1. <<i, 1>> \in P(i) /\ P(i) \in Parts
    BY <1>1, <1>5
  <2>. QED
    BY <2>1
<1>6. Contracts(clusters) = Cardinality(UNION Parts)
  BY DEF Contracts
<1>. HIDE DEF Parts
<1>7. Cardinality(UNION Parts) \in Nat /\ (Cardinality(UNION Parts) = 0 <=> UNION Parts = {})
  BY <1>4, FS_CardinalityType, FS_EmptySet
<1>8. (\E i \in DOMAIN clusters : clusters[i].contracts > 0) => Contracts(clusters) > 0
  <2>1. (\E i \in DOMAIN clusters : clusters[i].contracts > 0) => UNION Parts # {}
    BY <1>5
  <2>. QED
    BY <2>1, <1>6, <1>7
<1>. QED
  BY <1>6, <1>7, <1>8

LEMMA CandidateFacts ==
  ASSUME NEW clusters \in Seq(ClusterType)
  PROVE  /\ Candidates(clusters) \subseteq DOMAIN clusters
         /\ \A i \in Candidates(clusters) : ValidCandidate(clusters[i])
         /\ IsFiniteSet(Candidates(clusters))
         /\ \A i \in DOMAIN clusters : clusters[i] \in ClusterType
<1>1. Candidates(clusters) \in SUBSET DOMAIN clusters
  BY DEF Candidates, Largest
<1>2. IsFiniteSet(DOMAIN clusters)
  BY FS_Interval
<1>. QED
  BY <1>1, <1>2, FS_Subset DEF Candidates

LEMMA ScoreType ==
  ASSUME NEW clusters \in Seq(ClusterType), NEW i \in DOMAIN clusters, clusters[i].contracts > 0
  PROVE  Score(clusters, i) \in Int
<1>. DEFINE sizes == {clusters[j].contracts : j \in DOMAIN clusters}
            most == CHOOSE m \in sizes : \A j \in DOMAIN clusters : m >= clusters[j].contracts
<1>1. \A j \in DOMAIN clusters : clusters[j] \in ClusterType
  OBVIOUS
<1>2. \A j \in DOMAIN clusters : clusters[j].contracts \in Nat /\ clusters[j].ease \in Nat
  BY <1>1 DEF ClusterType
<1>3. IsFiniteSet(sizes) /\ sizes # {} /\ sizes \subseteq Nat
  <2>1. IsFiniteSet(DOMAIN clusters)
    BY FS_Interval
  <2>2. [j \in DOMAIN clusters |-> clusters[j].contracts] \in Surjection(DOMAIN clusters, sizes)
    BY DEF Surjection
  <2>. QED
    BY <2>1, <2>2, <1>2, FS_Surjection
<1>4. \E m \in sizes : \A x \in sizes : m >= x
  <2>. DEFINE R == {p \in Int \X Int : p[1] >= p[2]}
  <2>. HIDE DEF sizes
  <2>1. \A x, y \in Int : <<x, y>> \in R <=> x >= y
    OBVIOUS
  <2>. HIDE DEF R
  <2>. \A x \in sizes : x \in Int
    BY <1>3
  <2>2. \A x, y \in sizes : <<x, y>> \in R \/ <<y, x>> \in R
    <3>. TAKE x, y \in sizes
    <3>1. x \in Int /\ y \in Int
      OBVIOUS
    <3>. QED
      BY <2>1, <3>1
  <2>3. \A x, y, z \in sizes : <<x, y>> \in R /\ <<y, z>> \in R => <<x, z>> \in R
    BY <2>1
  <2>4. \E x \in sizes : \A y \in sizes : <<x, y>> \in R
    BY <2>2, <2>3, <1>3, BestExists
  <2>5. \A x, y \in sizes : <<x, y>> \in R => x >= y
    BY <2>1
  <2>. QED
    BY <2>4, <2>5
<1>5. most \in Nat /\ most > 0
  <2>0. \A j \in DOMAIN clusters : clusters[j].contracts \in sizes
    OBVIOUS
  <2>1. \E m \in sizes : \A j \in DOMAIN clusters : m >= clusters[j].contracts
    <3>. HIDE DEF sizes
    <3>. QED
      BY <1>4, <2>0
  <2>2. most \in sizes /\ most >= clusters[i].contracts
    BY <2>1
  <2>3. most \in Nat
    BY <2>2, <1>3
  <2>. QED
    BY <2>2, <2>3, <1>2
<1>6. Contracts(clusters) \in Nat /\ Contracts(clusters) > 0
  BY ContractsType
<1>. DEFINE k == clusters[i].contracts
            n == Contracts(clusters)
            e == clusters[i].ease
<1>7. Score(clusters, i) = (2 * (55 * k * most + 15 * k * n + e * n * most) + n * most) \div (2 * n * most)
  BY DEF Score
<1>8. k \in Nat /\ e \in Nat
  BY <1>2
<1>. HIDE DEF most, n, k, e
<1>9. \A a, b \in Nat : b > 0 => a \div b \in Int
  OBVIOUS
<1>10. n \in Nat /\ n > 0
  BY <1>6 DEF n
<1>11. n * most \in Nat /\ n * most > 0
  BY <1>5, <1>10
<1>12. /\ 2 * (55 * k * most + 15 * k * n + e * n * most) + n * most \in Nat
       /\ 2 * n * most \in Nat /\ 2 * n * most > 0
  <2>1. \A a, b \in Nat : a * b \in Nat
    OBVIOUS
  <2>2. 55 * k * most \in Nat /\ 15 * k * n \in Nat /\ e * n * most \in Nat
    BY <2>1, <1>5, <1>8, <1>10
  <2>3. 2 * n * most = 2 * (n * most)
    BY <1>5, <1>10
  <2>. QED
    BY <2>2, <2>3, <1>11
<1>. QED
  BY <1>7, <1>9, <1>12

LEMMA BestIsCandidate ==
  ASSUME NEW clusters \in Seq(ClusterType), Candidates(clusters) # {}
  PROVE  Best(clusters) \in Candidates(clusters)
<1>. DEFINE C == Candidates(clusters)
            size(i) == clusters[i].contracts
            Beats(i, j) ==
              \/ Score(clusters, i) > Score(clusters, j)
              \/ /\ Score(clusters, i) = Score(clusters, j)
                 /\ \/ size(i) > size(j)
                    \/ size(i) = size(j) /\ i <= j
            R == {p \in C \X C : Beats(p[1], p[2])}
<1>1. \A i \in C : i \in Int /\ size(i) \in Int /\ Score(clusters, i) \in Int
  <2>. TAKE i \in C
  <2>1. i \in DOMAIN clusters /\ clusters[i] \in ClusterType /\ clusters[i].contracts >= 5
    BY CandidateFacts DEF ValidCandidate, MinContracts
  <2>2. size(i) \in Nat /\ size(i) > 0 /\ i \in Int
    BY <2>1 DEF ClusterType
  <2>. QED
    BY <2>1, <2>2, ScoreType
<1>2. \A i, j \in C : <<i, j>> \in R <=> Beats(i, j)
  OBVIOUS
<1>3. IsFiniteSet(C) /\ C # {}
  BY CandidateFacts
<1>4. \A i, j \in C : Beats(i, j) \/ Beats(j, i)
  <2>. HIDE DEF C, size
  <2>. QED
    BY <1>1
<1>5. \A i, j, k \in C : Beats(i, j) /\ Beats(j, k) => Beats(i, k)
  <2>. HIDE DEF C, size
  <2>. QED
    BY <1>1
<1>6. \E i \in C : \A j \in C : Beats(i, j)
  <2>. HIDE DEF C, R, Beats
  <2>1. \E i \in C : \A j \in C : <<i, j>> \in R
    BY <1>2, <1>3, <1>4, <1>5, BestExists
  <2>. QED
    BY <2>1, <1>2
<1>. QED
  BY <1>6 DEF Best

\* Shares of the ports in use can be compared across, as none is of no ports.
LEMMA ShareOrder ==
  ASSUME NEW au \in Nat, NEW at \in Nat, NEW bu \in Nat, NEW bt \in Nat, NEW cu \in Nat, NEW ct \in Nat,
         bt > 0, au * bt <= bu * at, bu * ct <= cu * bt
  PROVE  au * ct <= cu * at
<1>1. \A x, y, z \in Nat : x <= y => x * z <= y * z
  OBVIOUS
<1>2. au * bt \in Nat /\ bu * at \in Nat /\ bu * ct \in Nat /\ cu * bt \in Nat
  OBVIOUS
<1>3. (au * bt) * ct <= (bu * at) * ct /\ (bu * ct) * at <= (cu * bt) * at
  BY <1>1, <1>2
<1>4. (bu * at) * ct = (bu * ct) * at
  OBVIOUS
<1>5. (au * bt) * ct = (au * ct) * bt /\ (cu * bt) * at = (cu * at) * bt
  OBVIOUS
<1>6. (au * ct) * bt <= (cu * at) * bt
  BY <1>3, <1>4, <1>5
<1>. DEFINE p == au * ct
            q == cu * at
<1>7. p \in Nat /\ q \in Nat /\ p * bt <= q * bt
  BY <1>6
<1>. HIDE DEF p, q
<1>8. ~(q < p)
  <2>. SUFFICES ASSUME q < p PROVE FALSE
    OBVIOUS
  <2>1. PICK d \in Nat : p = q + d /\ d > 0
    <3>1. p - q \in Nat /\ p = q + (p - q) /\ p - q > 0
      BY <1>7
    <3>. QED
      BY <3>1
  <2>2. p * bt = q * bt + d * bt
    BY <2>1, <1>7
  <2>3. d * bt > 0
    BY <2>1
  <2>. QED
    BY <2>2, <2>3, <1>7
<1>9. p <= q
  BY <1>7, <1>8
<1>. QED
  BY <1>9 DEF p, q

LEMMA LeastLoadedIsOne ==
  ASSUME NEW fdts \in SUBSET SiteType, IsFiniteSet(fdts), fdts # {}
  PROVE  LeastLoaded(fdts) \in fdts
<1>. DEFINE worth(x) == IF x.total = 0 THEN [used |-> 1, total |-> 1] ELSE x
            Below(f, g) == worth(f).used * worth(g).total <= worth(g).used * worth(f).total
            R == {p \in fdts \X fdts : Below(p[1], p[2])}
<1>1. \A f \in fdts : worth(f).used \in Nat /\ worth(f).total \in Nat /\ worth(f).total > 0
  BY DEF SiteType
<1>2. \A f, g \in fdts : <<f, g>> \in R <=> Below(f, g)
  OBVIOUS
<1>3. \A f, g \in fdts : Below(f, g) \/ Below(g, f)
  <2>. HIDE DEF worth
  <2>1. \A f, g \in fdts : worth(f).used * worth(g).total \in Nat
    BY <1>1
  <2>. QED
    BY <2>1
<1>4. \A f, g, h \in fdts : Below(f, g) /\ Below(g, h) => Below(f, h)
  <2>. HIDE DEF worth
  <2>. QED
    BY <1>1, ShareOrder
<1>5. \E f \in fdts : \A g \in fdts : Below(f, g)
  <2>. HIDE DEF R, Below
  <2>1. \E f \in fdts : \A g \in fdts : <<f, g>> \in R
    BY <1>2, <1>3, <1>4, BestExists
  <2>. QED
    BY <2>1, <1>2
<1>. QED
  BY <1>5 DEF LeastLoaded

Grounded(g) ==
  /\ g.contracts \in Nat
  /\ g.best = None \/ (g.best \in ClusterType /\ ValidCandidate(g.best))

LEMMA GroundType ==
  ASSUME NEW clusters \in Seq(ClusterType)
  PROVE  Grounded(Ground(clusters))
<1>1. Contracts(clusters) \in Nat
  BY ContractsType
<1>2. CASE Candidates(clusters) = {}
  BY <1>1, <1>2 DEF Ground, Grounded
<1>3. CASE Candidates(clusters) # {}
  BY <1>1, <1>3, BestIsCandidate, CandidateFacts DEF Ground, Grounded
<1>. QED
  BY <1>2, <1>3

\* A target below 90 % by the rounded tenths of a percent is below it by the ports.
LEMMA TenthsBelow ==
  ASSUME NEW a \in Nat, NEW b \in Nat, b > 0, Tenths(a, b) < 900
  PROVE  10 * a < 9 * b
<1>1. (2000 * a + b) \div (2 * b) < 900
  BY DEF Tenths
<1>2. \A x, d \in Nat : d > 0 /\ x \div d < 900 => x < 900 * d
  <2>. TAKE x, d \in Nat
  <2>. SUFFICES ASSUME d > 0, x \div d < 900 PROVE x < 900 * d
    OBVIOUS
  <2>1. x = d * (x \div d) + (x % d) /\ x % d \in 0..(d - 1) /\ x \div d \in Int
    OBVIOUS
  <2>2. \A q \in Int : q < 900 => d * q <= d * 899
    OBVIOUS
  <2>. QED
    BY <2>1, <2>2
<1>3. 2000 * a + b < 900 * (2 * b)
  BY <1>1, <1>2
<1>. QED
  BY <1>3

LEMMA ProposalOK ==
  ASSUME NEW action \in Actions, NEW area \in Areas, NEW zone \in Scopes, NEW site \in Sites \cup {None},
         NEW priority \in Priorities, NEW why \in Why
  PROVE  LET p == Proposal(action, area, zone, site, priority, why) IN
         /\ p \in ProposalType /\ p.action = action /\ p.why = why
         /\ action \notin {"MOVE_CONTRACTS", "CREATE_NRO", "CREATE_FDT"} \/ why = None => p \in Sensible
BY DEF Proposal, ProposalType, Sensible, SafeProposal

LEMMA AreasOfZones ==
  \A z \in Scopes : ByName(z) \in Areas /\ ById(z) \in Areas
BY DEF Areas, ByName, ById

LEMMA PlainPlans ==
  ASSUME NEW id \in Sites, NEW zone \in Scopes, NEW site \in SiteType
  PROVE  /\ \E p \in Sensible : NoCandidate(id, zone) = {p}
         /\ \E p \in Sensible : IncreaseCapacity(id, site, zone) = {p}
         /\ \A action \in {"CREATE_NRO", "CREATE_FDT"}, best \in ClusterType : ValidCandidate(best) =>
              \E p \in Sensible : NewSite(action, id, site, zone, best) = {p}
<1>1. Urgent(site, "HIGH") \in Priorities /\ "HIGH" \in Priorities /\ None \in Why
  BY DEF Urgent, Priorities, Why
<1>2. ByName(zone) \in Areas /\ ById(zone) \in Areas
  BY AreasOfZones
<1>3. Proposal("ADMIN_REVIEW", ById(zone), zone, id, "HIGH", None) \in Sensible
  BY <1>1, <1>2, ProposalOK DEF Actions
<1>4. Proposal("INCREASE_CAPACITY", ById(zone), zone, id, Urgent(site, "HIGH"), None) \in Sensible
  BY <1>1, <1>2, ProposalOK DEF Actions
<1>5. ASSUME NEW action \in {"CREATE_NRO", "CREATE_FDT"}, NEW best \in ClusterType, ValidCandidate(best)
      PROVE  Proposal(action, ByName(zone), zone, id, Urgent(site, "HIGH"), best) \in Sensible
  <2>. DEFINE p == Proposal(action, ByName(zone), zone, id, Urgent(site, "HIGH"), best)
  <2>1. best \in Why /\ action \in Actions
    BY DEF Why, Actions
  <2>2. p \in ProposalType /\ p.action = action /\ p.why = best
    BY <1>1, <1>2, <2>1, ProposalOK
  <2>3. best.inside /\ best.distance \notin 0..4 /\ best.contracts > 4
    <3>1. best.contracts \in Nat /\ best.distance \in Int
      BY DEF ClusterType
    <3>. QED
      BY <1>5, <3>1 DEF ValidCandidate, MinDistance, MinContracts
  <2>. HIDE DEF p
  <2>4. SafeProposal(p)
    BY <2>2, <2>3 DEF SafeProposal
  <2>. QED
    BY <2>2, <2>4 DEF Sensible, p
<1>. QED
  BY <1>3, <1>4, <1>5 DEF NoCandidate, IncreaseCapacity, NewSite

LEMMA PlanNroOK ==
  ASSUME NEW id \in Sites, NEW zone \in Scopes, NEW nro \in SiteType, NEW ground, Grounded(ground),
         NEW predicted
  PROVE  \/ PlanNro(id, nro, zone, ground, predicted) = {}
         \/ \E p \in Sensible : PlanNro(id, nro, zone, ground, predicted) = {p}
BY PlainPlans DEF PlanNro, Grounded

LEMMA PlanFdtOK ==
  ASSUME NEW id \in Sites, NEW zone \in Scopes, NEW fdt \in SiteType, NEW ground, Grounded(ground),
         NEW siblings \in SUBSET SiteType, IsFiniteSet(siblings)
  PROVE  \/ PlanFdt(id, fdt, zone, ground, siblings) = {}
         \/ \E p \in Sensible : PlanFdt(id, fdt, zone, ground, siblings) = {p}
<1>. DEFINE n == ground.contracts
            k == ground.best.contracts
            to == LeastLoaded(siblings)
            moves == Redistribution(fdt, to, k, n)
            why == [from |-> fdt, to |-> to, moved |-> k, of |-> n]
            p == Proposal("MOVE_CONTRACTS", ByName(zone), zone, id, Urgent(fdt, "MEDIUM"), why)
            Moves == /\ siblings # {} /\ moves.target < 10 * FDT_CRITICAL_PCT
                     /\ moves.gain > AddedCapacity(fdt, TYPICAL_FDT_PORTS)
<1>1. ASSUME n # 0, ground.best # None, Moves PROVE p \in Sensible
  <2>1. n \in Nat /\ n > 0 /\ k \in Nat
    BY <1>1 DEF Grounded, ClusterType
  <2>2. to \in SiteType
    BY <1>1, LeastLoadedIsOne
  <2>3. why \in MoveType /\ why \in Why
    BY <2>1, <2>2 DEF MoveType, Why
  <2>4. Urgent(fdt, "MEDIUM") \in Priorities /\ "MOVE_CONTRACTS" \in Actions /\ ByName(zone) \in Areas
    BY AreasOfZones DEF Urgent, Priorities, Actions
  <2>5. p \in ProposalType /\ p.action = "MOVE_CONTRACTS" /\ p.why = why
    BY <2>3, <2>4, ProposalOK
  <2>6. /\ to.used \in Nat /\ to.total \in Nat /\ fdt.used \in Nat
        /\ why.to = to /\ why.from = fdt /\ why.moved = k /\ why.of = n
    BY <2>2 DEF SiteType
  <2>7. moves.target = Tenths(to.used * n + fdt.used * k, n * to.total)
    BY DEF Redistribution
  <2>8. ASSUME to.total > 0 PROVE StaysBelow(why)
    <3>. DEFINE a == to.used * n + fdt.used * k
                b == n * to.total
    <3>1. \A x, y \in Nat : x * y \in Nat /\ (x > 0 /\ y > 0 => x * y > 0)
      OBVIOUS
    <3>2. to.used * n \in Nat /\ fdt.used * k \in Nat /\ b \in Nat /\ b > 0
      BY <2>1, <2>6, <2>8, <3>1
    <3>3. a \in Nat
      BY <3>2
    <3>4. Tenths(a, b) < 900
      BY <1>1, <2>7 DEF FDT_CRITICAL_PCT
    <3>. HIDE DEF a, b
    <3>5. 10 * a < 9 * b
      BY <3>2, <3>3, <3>4, TenthsBelow
    <3>6. 9 * b = 9 * to.total * n
      BY <2>1, <2>6 DEF b
    <3>. QED
      BY <3>5, <3>6, <2>6 DEF StaysBelow, a
  <2>. HIDE DEF p, why
  <2>9. SafeProposal(p)
    BY <2>5, <2>6, <2>8 DEF SafeProposal
  <2>. QED
    BY <2>5, <2>9 DEF Sensible
<1>2. PlanFdt(id, fdt, zone, ground, siblings) =
        IF ~AtLeast(FDT_CRITICAL_PCT, fdt.used, fdt.total) THEN {}
        ELSE IF zone = None \/ n = 0 THEN NoCandidate(id, zone)
        ELSE IF ground.best = None THEN IncreaseCapacity(id, fdt, zone)
        ELSE IF Moves THEN {p}
        ELSE NewSite("CREATE_FDT", id, fdt, zone, ground.best)
  BY DEF PlanFdt
<1>. HIDE DEF p, Moves, n
<1>. QED
  BY <1>1, <1>2, PlainPlans DEF Grounded

LEMMA AdviceType ==
  ASSUME NEW t \in Tasks, task[t].scope \in Scopes, NEW seen
  PROVE  /\ ZoneHealth(t, seen) \subseteq Seq(Sensible)
         /\ FdtCapacity(t, seen) \subseteq Seq(Sensible)
         /\ Suggested \subseteq Seq(Sensible)
<1>1. None \in Why /\ {"URGENT", "HIGH", "MEDIUM"} \subseteq Priorities
  BY DEF Why, Priorities
<1>2. ASSUME NEW zones \in SUBSET Zones PROVE ZoneAdvice(zones, seen) \in Seq(Sensible)
  <2>. DEFINE full(kind, z) == \E s \in kind : ZoneOf[s] = z /\ AtLeast(100, seen[s], Total[s])
              A == {<<z, "CREATE_FDT">> : z \in {y \in zones : full(Fdts, y)}}
              B == {<<z, "INCREASE_CAPACITY">> : z \in {y \in zones : full(Nros, y)}}
              words == SetToSeq(A \cup B)
              word(w) == Proposal(w[2], ByName(w[1]), w[1], None, "HIGH", None)
  <2>1. A \cup B \subseteq Zones \X {"CREATE_FDT", "INCREASE_CAPACITY"}
    OBVIOUS
  <2>2. IsFiniteSet(Zones \X {"CREATE_FDT", "INCREASE_CAPACITY"})
    <3>1. IsFiniteSet({"CREATE_FDT"} \cup {"INCREASE_CAPACITY"})
      BY FS_Singleton, FS_AddElement
    <3>2. {"CREATE_FDT"} \cup {"INCREASE_CAPACITY"} = {"CREATE_FDT", "INCREASE_CAPACITY"}
      OBVIOUS
    <3>. QED
      BY <3>1, <3>2, NetworkAssumption, FS_Product
  <2>3. IsFiniteSet(A \cup B)
    BY <2>1, <2>2, FS_Subset
  <2>. HIDE DEF A, B
  <2>4. words \in Seq(A \cup B)
    BY <2>3, SetToSeqType
  <2>. HIDE DEF words
  <2>5. \A i \in DOMAIN words : words[i] \in A \cup B
    BY <2>4
  <2>6. \A w \in Zones \X {"CREATE_FDT", "INCREASE_CAPACITY"} : word(w) \in Sensible
    <3>. TAKE w \in Zones \X {"CREATE_FDT", "INCREASE_CAPACITY"}
    <3>1. w[1] \in Scopes /\ w[2] \in Actions
      BY DEF Scopes, Actions
    <3>. QED
      BY <1>1, <3>1, AreasOfZones, ProposalOK
  <2>. HIDE DEF word
  <2>7. \A i \in DOMAIN words : word(words[i]) \in Sensible
    BY <2>1, <2>5, <2>6
  <2>8. ZoneAdvice(zones, seen) = [i \in DOMAIN words |-> word(words[i])]
    BY DEF ZoneAdvice, words, word, A, B
  <2>. QED
    BY <2>4, <2>7, <2>8
<1>3. FdtAdvice(t, seen) \in Seq(Sensible)
  <2>. DEFINE F == {f \in Fdts : InScope(f, task[t].scope) /\ AtLeast(FDT_WARNING_PCT, seen[f], Total[f])}
              fdts == SetToSeq(F)
              word(f) == IF AtLeast(FDT_CRITICAL_PCT, seen[f], Total[f])
                THEN Proposal("CREATE_FDT", ByName(ZoneOf[f]), ZoneOf[f], None, "URGENT", None)
                ELSE Proposal("DEPLOY_EQUIPMENT", ByName(ZoneOf[f]), ZoneOf[f], None, "MEDIUM", None)
  <2>1. F \subseteq Fdts /\ IsFiniteSet(F)
    BY NetworkAssumption, FS_Subset
  <2>2. FdtAdvice(t, seen) = [i \in DOMAIN fdts |-> word(fdts[i])]
    BY DEF FdtAdvice
  <2>. HIDE DEF F
  <2>3. fdts \in Seq(F)
    BY <2>1, SetToSeqType
  <2>. HIDE DEF fdts
  <2>4. ASSUME NEW f \in Fdts PROVE word(f) \in Sensible
    <3>1. ZoneOf[f] \in Scopes /\ ByName(ZoneOf[f]) \in Areas
      BY NetworkFacts, AreasOfZones DEF Sites
    <3>2. {"CREATE_FDT", "DEPLOY_EQUIPMENT"} \subseteq Actions
      BY DEF Actions
    <3>. QED
      BY <1>1, <3>1, <3>2, ProposalOK
  <2>. HIDE DEF word
  <2>5. \A i \in DOMAIN fdts : word(fdts[i]) \in Sensible
    BY <2>1, <2>3, <2>4
  <2>. QED
    BY <2>2, <2>3, <2>5
<1>4. ASSUME NEW s \in Suggestions, NEW zone \in Scopes
      PROVE  <<NormalizeRecommendation(s, zone)>> \in Seq(Sensible)
  <2>. DEFINE action == IF s.action \in Actions THEN s.action ELSE "ADMIN_REVIEW"
              priority == IF s.priority \in Priorities THEN s.priority ELSE "MEDIUM"
  <2>1. action \in Actions /\ priority \in Priorities /\ s.area \in Areas
    BY <1>1 DEF Actions, Areas
  <2>2. NormalizeRecommendation(s, zone) = Proposal(action, s.area, zone, None, priority, None)
    BY DEF NormalizeRecommendation
  <2>. HIDE DEF action, priority
  <2>. DEFINE area == s.area
  <2>3. area \in Areas
    BY <2>1
  <2>. HIDE DEF area
  <2>4. Proposal(action, area, zone, None, priority, None) \in Sensible
    BY <1>1, <2>1, <2>3, ProposalOK
  <2>. QED
    BY <2>2, <2>4 DEF area
<1>5. Suggested \subseteq Seq(Sensible)
  BY <1>4 DEF Suggested, Scopes
<1>6. ZoneHealth(t, seen) \subseteq Seq(Sensible)
  <2>1. ZoneAdvice(ZonesIn(t), seen) \in Seq(Sensible)
    BY <1>2 DEF ZonesIn
  <2>2. ASSUME NEW s \in Suggestions, s.zone \in ZonesIn(t)
        PROVE  <<NormalizeRecommendation(s, s.zone)>> \o ZoneAdvice(ZonesIn(t) \ {s.zone}, seen)
                 \in Seq(Sensible)
    <3>1. s.zone \in Scopes /\ ZonesIn(t) \ {s.zone} \in SUBSET Zones
      BY <2>2 DEF ZonesIn, Scopes
    <3>. QED
      BY <1>2, <1>4, <3>1, ConcatType
  <2>. QED
    BY <2>1, <2>2 DEF ZoneHealth
<1>. QED
  BY <1>3, <1>5, <1>6 DEF FdtCapacity

LEMMA RecommendType ==
  ASSUME NEW v \in VerdictType
  PROVE  Recommend(v) \in Sensible
<1>1. CASE v.of \in Zones
  <2>1. v.of \in Scopes /\ ByName(v.of) \in Areas
    BY <1>1, AreasOfZones DEF Scopes
  <2>. QED
    BY <1>1, <2>1, ProposalOK DEF Recommend, Actions, Priorities, Why
<1>2. CASE v.of \notin Zones
  <2>1. v.of \in Sites
    BY <1>2 DEF VerdictType
  <2>2. v.of \in Areas /\ ZoneOf[v.of] \in Scopes
    BY <2>1, NetworkFacts DEF Areas
  <2>. QED
    BY <1>2, <2>2, ProposalOK DEF Recommend, Actions, Priorities, Why
<1>. QED
  BY <1>1, <1>2

-----------------------------------------------------------------------------
(* A step of one run changes neither its kind, nor its scope, nor its language.*)

Kept(r, q) ==
  /\ r.kind = q.kind /\ r.scope = q.scope /\ r.lang = q.lang /\ r.calm = q.calm /\ r.from = q.from
  /\ r.pc \notin {"idle", "join", "wait"}

Moves(t) == \E r \in RunType : Sound(r) /\ Kept(r, task[t]) /\ task' = [task EXCEPT ![t] = r]

NetworkOK == level \in [Watched -> Nat]

LEMMA SeesNowType ==
  ASSUME RunsOK, NetworkOK, NEW t \in Tasks, NEW what
  PROVE  SeesNow(t, what) \in [Watched -> Nat]
BY DEF RunsOK, RunType, NetworkOK, SeesNow

LEMMA WatchFacts ==
  /\ Len(Watch) \in Nat /\ DOMAIN Watch = 1..Len(Watch) /\ Cardinality(Services) \in Nat
  /\ \A i \in DOMAIN Watch : Watch[i] \in Watched
  /\ \A s \in Watched : \E i \in DOMAIN Watch : Watch[i] = s
  /\ \A i \in DOMAIN Watch : Watch[i] \in Services <=> i <= Cardinality(Services)
  /\ \A i \in Nat : WatchPc(i) \in {"raise", "read", "watch"} /\ (WatchPc(i) = "raise" <=> i > Len(Watch))
<1>1. Watched = {Watch[i] : i \in DOMAIN Watch}
  BY SupervisorAssumption DEF Watched, Sites
<1>2. Cardinality(Services) \in Nat
  BY NetworkAssumption, FS_CardinalityType
<1>3. Len(Watch) \in Nat /\ DOMAIN Watch = 1..Len(Watch)
  BY SupervisorAssumption
<1>4. \A i \in DOMAIN Watch : Watch[i] \in Watched
  BY <1>1
<1>5. \A s \in Watched : \E i \in DOMAIN Watch : Watch[i] = s
  BY <1>1
<1>. QED
  BY <1>2, <1>3, <1>4, <1>5, SupervisorAssumption DEF WatchPc

LEMMA CheckServicesMoves ==
  ASSUME RunsOK, NetworkOK, NEW t \in Tasks, CheckServices(t)
  PROVE  Moves(t)
<1>. DEFINE q == task[t]
            r == [q EXCEPT !.seen = SeesNow(t, Services), !.pc = WatchPc(1)]
<1>1. q \in RunType /\ Sound(q) /\ q.pc = "check"
  BY DEF RunsOK, CheckServices, At
<1>2. q.kind = "health" /\ q.i = 1
  BY <1>1 DEF Sound, PcOf, RunType, Kinds
<1>3. task' = [task EXCEPT ![t] = r]
  BY DEF CheckServices, Set
<1>4. WatchPc(1) \in {"raise", "read", "watch"} /\ (WatchPc(1) # "raise" => 1 \in DOMAIN Watch)
  BY WatchFacts
<1>5. r \in RunType
  BY <1>1, <1>4, SeesNowType DEF RunType, Pcs
<1>6. Sound(r) /\ Kept(r, q)
  BY <1>1, <1>2, <1>4 DEF Sound, Kept, PcOf, RunType, Askable
<1>. QED
  BY <1>3, <1>5, <1>6 DEF Moves

LEMMA ReadSitesMoves ==
  ASSUME RunsOK, NetworkOK, NEW t \in Tasks, ReadSites(t)
  PROVE  Moves(t)
<1>. DEFINE q == task[t]
            r == [q EXCEPT !.seen = SeesNow(t, Sites), !.pc = "watch"]
<1>1. q \in RunType /\ Sound(q) /\ q.pc = "read" /\ q.kind = "health"
  BY DEF RunsOK, ReadSites, At
<1>2. task' = [task EXCEPT ![t] = r]
  BY DEF ReadSites, Set
<1>3. r \in RunType
  BY <1>1, SeesNowType DEF RunType, Pcs
<1>4. Sound(r) /\ Kept(r, q)
  BY <1>1 DEF Sound, Kept, PcOf, RunType, Askable
<1>. QED
  BY <1>2, <1>3, <1>4 DEF Moves

LEMMA WatchOneMoves ==
  ASSUME RunsOK, NetworkOK, NEW t \in Tasks, WatchOne(t)
  PROVE  Moves(t)
<1>. DEFINE q == task[t]
            i == q.i
            s == Watch[i]
            last == WatchPc(i + 1) = "raise"
            j == IF last THEN 1 ELSE i + 1
            seen == IF last THEN Unseen ELSE q.seen
            next == [q EXCEPT !.i = j, !.pc = WatchPc(i + 1), !.seen = seen]
            a == Alert("level", s, IF s \in Services THEN None ELSE ZoneOf[s])
            raised == [next EXCEPT !.due = Append(next.due, a)]
<1>1. q \in RunType /\ Sound(q) /\ q.pc = "watch"
  BY DEF RunsOK, WatchOne, At
<1>2. q.kind = "health" /\ i \in DOMAIN Watch /\ i \in Nat \ {0}
  BY <1>1 DEF Sound, PcOf, RunType, Kinds
<1>3. task' = [task EXCEPT ![t] = raised] \/ task' = [task EXCEPT ![t] = next]
  BY DEF WatchOne, Set
<1>4. s \in Watched
  BY <1>2, WatchFacts
<1>5. a \in AlertDue
  <2>1. s \in Services \/ ZoneOf[s] \in Scopes
    BY <1>4, NetworkFacts DEF Watched, Sites
  <2>. QED
    BY <1>4, <2>1 DEF Alert, AlertDue, Abouts, Scopes
<1>6. WatchPc(i + 1) \in {"raise", "read", "watch"} /\ (WatchPc(i + 1) # "raise" => i + 1 \in DOMAIN Watch)
  BY <1>2, WatchFacts
<1>7. Unseen \in [Watched -> Nat]
  BY DEF Unseen
<1>8. next \in RunType /\ Sound(next) /\ Kept(next, q)
  <2>1. next \in RunType
    <3>1. seen \in [Watched -> Nat] /\ j \in Nat \ {0}
      BY <1>1, <1>2, <1>7 DEF RunType
    <3>. HIDE DEF seen, j
    <3>. QED
      BY <1>1, <1>6, <3>1 DEF RunType, Pcs
  <2>2. Sound(next) /\ Kept(next, q)
    BY <1>1, <1>2, <1>6 DEF Sound, Kept, PcOf, RunType, Askable
  <2>. QED
    BY <2>1, <2>2
<1>9. raised \in RunType /\ Sound(raised) /\ Kept(raised, q)
  <2>. HIDE DEF next, a
  <2>1. Append(next.due, a) \in Seq(AlertDue)
    BY <1>5, <1>8, AppendType DEF RunType
  <2>2. raised \in RunType
    BY <1>8, <2>1 DEF RunType
  <2>3. next.kind = "health" /\ next.pc \in {"raise", "read", "watch"}
    BY <1>1, <1>2, <1>6 DEF next, RunType
  <2>4. Sound(raised) /\ Kept(raised, q)
    BY <1>8, <2>3 DEF Sound, Kept, PcOf, RunType, Askable
  <2>. QED
    BY <2>2, <2>4
<1>. HIDE DEF next, raised
<1>. QED
  BY <1>3, <1>8, <1>9 DEF Moves

LEMMA FindAlertMoves ==
  ASSUME RunsOK, NEW t \in Tasks, FindAlert(t)
  PROVE  Moves(t)
<1>. DEFINE q == task[t]
            x == [q EXCEPT !.pc = AfterRaise[q.kind]]
            y == [q EXCEPT !.due = Tail(q.due)]
            z == [q EXCEPT !.pc = "create"]
<1>1. q \in RunType /\ Sound(q) /\ q.pc = "raise"
  BY DEF RunsOK, FindAlert, At
<1>2. q.kind \in {"health", "analysis", "report"}
  BY <1>1 DEF Sound, PcOf, RunType, Kinds
<1>3. \/ q.due = << >> /\ task' = [task EXCEPT ![t] = x]
      \/ q.due # << >> /\ task' = [task EXCEPT ![t] = y]
      \/ q.due # << >> /\ task' = [task EXCEPT ![t] = z]
  BY DEF FindAlert, Set
<1>4. CASE task' = [task EXCEPT ![t] = x]
  <2>1. AfterRaise[q.kind] =
          IF q.kind = "health" THEN "done" ELSE IF q.kind = "analysis" THEN "plan" ELSE "write"
    BY <1>2 DEF AfterRaise
  <2>2. x \in RunType
    BY <1>1, <1>2, <2>1 DEF RunType, Pcs
  <2>3. Sound(x) /\ Kept(x, q)
    BY <1>1, <1>2, <2>1 DEF Sound, Kept, PcOf, RunType, Built
  <2>. QED
    BY <1>4, <2>2, <2>3 DEF Moves
<1>5. CASE q.due # << >> /\ task' = [task EXCEPT ![t] = y]
  <2>1. Tail(q.due) \in Seq(AlertDue)
    BY <1>1, <1>5, TailType DEF RunType
  <2>2. y \in RunType
    BY <1>1, <2>1 DEF RunType, Pcs
  <2>3. Sound(y) /\ Kept(y, q)
    BY <1>1, <1>2 DEF Sound, Kept, PcOf, RunType, Built
  <2>. QED
    BY <1>5, <2>2, <2>3 DEF Moves
<1>6. CASE q.due # << >> /\ task' = [task EXCEPT ![t] = z]
  <2>2. z \in RunType
    BY <1>1 DEF RunType, Pcs
  <2>3. Sound(z) /\ Kept(z, q)
    BY <1>1, <1>2, <1>6 DEF Sound, Kept, PcOf, RunType, Built
  <2>. QED
    BY <1>6, <2>2, <2>3 DEF Moves
<1>. QED
  BY <1>3, <1>4, <1>5, <1>6

LEMMA CreateAlertMoves ==
  ASSUME RunsOK, NEW t \in Tasks, CreateAlert(t), Len(alerts) \in Nat
  PROVE  Moves(t)
<1>. DEFINE q == task[t]
            pc == IF Head(q.due).zone = None THEN "tellAdmin" ELSE "tellZone"
            d == Len(alerts) + 1
            r == [q EXCEPT !.doc = d, !.pc = pc]
<1>1. q \in RunType /\ Sound(q) /\ q.pc = "create"
  BY DEF RunsOK, CreateAlert, At
<1>2. q.kind \in {"health", "analysis", "report"}
  BY <1>1 DEF Sound, PcOf, RunType, Kinds
<1>3. task' = [task EXCEPT ![t] = r]
  BY DEF CreateAlert, Set
<1>4. pc \in {"tellAdmin", "tellZone"} /\ d \in Nat
  OBVIOUS
<1>. HIDE DEF pc, d
<1>5. r \in RunType
  BY <1>1, <1>4 DEF RunType, Pcs
<1>6. Sound(r) /\ Kept(r, q)
  BY <1>1, <1>2, <1>4 DEF Sound, Kept, PcOf, RunType, Built
<1>. QED
  BY <1>3, <1>5, <1>6 DEF Moves

LEMMA TellManagerMoves ==
  ASSUME RunsOK, NEW t \in Tasks, TellManager(t)
  PROVE  Moves(t)
<1>. DEFINE q == task[t]
            r == [q EXCEPT !.pc = "tellAdmin"]
<1>1. q \in RunType /\ Sound(q) /\ q.pc = "tellZone"
  BY DEF RunsOK, TellManager, At
<1>2. q.kind \in {"health", "analysis", "report"}
  BY <1>1 DEF Sound, PcOf, RunType, Kinds
<1>3. task' = [task EXCEPT ![t] = r]
  BY DEF TellManager, Set
<1>4. r \in RunType
  BY <1>1 DEF RunType, Pcs
<1>5. Sound(r) /\ Kept(r, q)
  BY <1>1, <1>2 DEF Sound, Kept, PcOf, RunType, Built
<1>. QED
  BY <1>3, <1>4, <1>5 DEF Moves

LEMMA TellAdminsMoves ==
  ASSUME RunsOK, NEW t \in Tasks, TellAdmins(t)
  PROVE  Moves(t)
<1>. DEFINE q == task[t]
            r == [q EXCEPT !.pc = "raise", !.due = Tail(q.due), !.doc = 0]
<1>1. q \in RunType /\ Sound(q) /\ q.pc = "tellAdmin" /\ q.due # << >>
  BY DEF RunsOK, TellAdmins, At, Sound
<1>2. q.kind \in {"health", "analysis", "report"}
  BY <1>1 DEF Sound, PcOf, RunType, Kinds
<1>3. task' = [task EXCEPT ![t] = r]
  BY DEF TellAdmins, NextAlert, Set
<1>4. Tail(q.due) \in Seq(AlertDue)
  BY <1>1, TailType DEF RunType
<1>5. r \in RunType
  BY <1>1, <1>4 DEF RunType, Pcs
<1>6. Sound(r) /\ Kept(r, q)
  BY <1>1, <1>2 DEF Sound, Kept, PcOf, RunType, Built
<1>. QED
  BY <1>3, <1>5, <1>6 DEF Moves

LEMMA FindDuplicateMoves ==
  ASSUME RunsOK, IsFiniteSet(recs), NEW t \in Tasks, FindDuplicate(t)
  PROVE  Moves(t)
<1>. DEFINE q == task[t]
            n == Cardinality(Alike(Head(q.plan)))
            x == [q EXCEPT !.pc = AfterIngest[q.kind]]
            y == [q EXCEPT !.plan = Tail(q.plan)]
            z == [q EXCEPT !.pc = "add", !.doc = n]
<1>1. q \in RunType /\ Sound(q) /\ q.pc = "ingest"
  BY DEF RunsOK, FindDuplicate, At
<1>2. q.kind \in {"analysis", "anomaly", "report"}
  BY <1>1 DEF Sound, PcOf, RunType, Kinds
<1>3. \/ q.plan = << >> /\ task' = [task EXCEPT ![t] = x]
      \/ q.plan # << >> /\ task' = [task EXCEPT ![t] = y]
      \/ q.plan # << >> /\ task' = [task EXCEPT ![t] = z]
  BY DEF FindDuplicate, Set
<1>4. n \in Nat
  <2>1. Alike(Head(q.plan)) \in SUBSET recs
    BY DEF Alike
  <2>. QED
    BY <2>1, FS_Subset, FS_CardinalityType
<1>. HIDE DEF n
<1>5. CASE task' = [task EXCEPT ![t] = x]
  <2>1. AfterIngest[q.kind] = IF q.kind = "report" THEN "raise" ELSE "done"
    BY <1>2 DEF AfterIngest
  <2>2. x \in RunType
    BY <1>1, <1>2, <2>1 DEF RunType, Pcs
  <2>3. Sound(x) /\ Kept(x, q)
    BY <1>1, <1>2, <2>1 DEF Sound, Kept, PcOf, RunType, Built
  <2>. QED
    BY <1>5, <2>2, <2>3 DEF Moves
<1>6. CASE q.plan # << >> /\ task' = [task EXCEPT ![t] = y]
  <2>1. Tail(q.plan) \in Seq(Sensible)
    BY <1>1, <1>6, TailType DEF RunType
  <2>2. y \in RunType
    BY <1>1, <2>1 DEF RunType, Pcs
  <2>3. Sound(y) /\ Kept(y, q)
    BY <1>1, <1>2 DEF Sound, Kept, PcOf, RunType, Built
  <2>. QED
    BY <1>6, <2>2, <2>3 DEF Moves
<1>7. CASE q.plan # << >> /\ task' = [task EXCEPT ![t] = z]
  <2>2. z \in RunType
    BY <1>1, <1>4 DEF RunType, Pcs
  <2>3. Sound(z) /\ Kept(z, q)
    BY <1>1, <1>2, <1>7 DEF Sound, Kept, PcOf, RunType, Built
  <2>. QED
    BY <1>7, <2>2, <2>3 DEF Moves
<1>. QED
  BY <1>3, <1>5, <1>6, <1>7

LEMMA CreateRecommendationMoves ==
  ASSUME RunsOK, NEW t \in Tasks, CreateRecommendation(t)
  PROVE  Moves(t)
<1>. DEFINE q == task[t]
            r == [q EXCEPT !.pc = "ingest", !.plan = Tail(q.plan), !.doc = 0]
<1>1. q \in RunType /\ Sound(q) /\ q.pc = "add" /\ q.plan # << >>
  BY DEF RunsOK, CreateRecommendation, At, Sound
<1>2. q.kind \in {"analysis", "anomaly", "report"}
  BY <1>1 DEF Sound, PcOf, RunType, Kinds
<1>3. task' = [task EXCEPT ![t] = r]
  BY DEF CreateRecommendation, Set
<1>4. Tail(q.plan) \in Seq(Sensible)
  BY <1>1, TailType DEF RunType
<1>5. r \in RunType
  BY <1>1, <1>4 DEF RunType, Pcs
<1>6. Sound(r) /\ Kept(r, q)
  BY <1>1, <1>2 DEF Sound, Kept, PcOf, RunType, Built
<1>. QED
  BY <1>3, <1>5, <1>6 DEF Moves

LEMMA VerdictOK ==
  ASSUME NEW u \in Unusual, NEW status \in {"DETECTED", "NORMAL"}
  PROVE  Verdict(u, status) \in VerdictType
BY UnusualAssumption DEF Verdict, VerdictType, Types

LEMMA AssessMoves ==
  ASSUME RunsOK, NEW t \in Tasks, Assess(t) \/ AssessZone(t) \/ ReadAll(t)
  PROVE  Moves(t)
<1>. DEFINE q == task[t]
            \* What comes of it: the next anomaly, or the next pass.
            Found(i, v) == [q EXCEPT !.pc = "match", !.i = i, !.verdict = v]
            On(pc) == [q EXCEPT !.pc = pc, !.i = 1]
            Begun == [q EXCEPT !.pc = "scan"]
<1>1. q \in RunType /\ Sound(q) /\ q.pc \in {"read", "scan", "zones"}
  BY DEF RunsOK, Assess, AssessZone, ReadAll, At
<1>2. q.kind = "anomaly"
  BY <1>1 DEF Sound, PcOf, RunType, Kinds, ReadAll, Assess, AssessZone, At
<1>3. \/ task' = [task EXCEPT ![t] = Begun]
      \/ \E pc \in {"zones", "ingest"} : task' = [task EXCEPT ![t] = On(pc)]
      \/ \E i \in Nat \ {0}, v \in VerdictType : task' = [task EXCEPT ![t] = Found(i, v)]
  <2>1. \A i : i \in q.i..Len(Round(t)) \/ i \in q.i..Len(ZonesOf(t)) => i \in Nat \ {0}
    <3>1. q.i \in Nat \ {0}
      BY <1>1 DEF RunType
    <3>2. \A a \in Nat \ {0} : \A b, c : c \in a..b => c \in Nat \ {0}
      OBVIOUS
    <3>. QED
      BY <3>1, <3>2
  <2>2. ReadAll(t) => task' = [task EXCEPT ![t] = Begun]
    BY DEF ReadAll, Set
  <2>3. ASSUME Assess(t)
        PROVE  \/ task' = [task EXCEPT ![t] = On("zones")]
               \/ \E i \in Nat \ {0}, v \in VerdictType : task' = [task EXCEPT ![t] = Found(i, v)]
    BY <2>1, <2>3, VerdictOK DEF Assess, Set
  <2>4. ASSUME AssessZone(t)
        PROVE  \/ task' = [task EXCEPT ![t] = On("ingest")]
               \/ \E i \in Nat \ {0}, v \in VerdictType : task' = [task EXCEPT ![t] = Found(i, v)]
    BY <2>1, <2>4, VerdictOK DEF AssessZone, Set
  <2>. QED
    BY <2>2, <2>3, <2>4
<1>4. CASE task' = [task EXCEPT ![t] = Begun]
  <2>1. Begun \in RunType
    BY <1>1 DEF RunType, Pcs
  <2>2. Sound(Begun) /\ Kept(Begun, q)
    BY <1>1, <1>2 DEF Sound, Kept, PcOf, RunType
  <2>. QED
    BY <1>4, <2>1, <2>2 DEF Moves
<1>5. ASSUME NEW pc \in {"zones", "ingest"}, task' = [task EXCEPT ![t] = On(pc)]
      PROVE  Moves(t)
  <2>. pc \in Pcs /\ 1 \in Nat \ {0}
    BY DEF Pcs
  <2>1. On(pc) \in RunType
    BY <1>1 DEF RunType
  <2>2. Sound(On(pc)) /\ Kept(On(pc), q)
    BY <1>1, <1>2 DEF Sound, Kept, PcOf, RunType
  <2>. QED
    BY <1>5, <2>1, <2>2 DEF Moves
<1>6. ASSUME NEW i \in Nat \ {0}, NEW v \in VerdictType, task' = [task EXCEPT ![t] = Found(i, v)]
      PROVE  Moves(t)
  <2>1. Found(i, v) \in RunType
    BY <1>1 DEF RunType, Pcs
  <2>3. Sound(Found(i, v)) /\ Kept(Found(i, v), q)
    BY <1>1, <1>2 DEF Sound, Kept, PcOf, RunType
  <2>. QED
    BY <1>6, <2>1, <2>3 DEF Moves
<1>. QED
  BY <1>3, <1>4, <1>5, <1>6

LEMMA StoredMoves ==
  ASSUME RunsOK, NEW t \in Tasks, task[t].pc \in {"match", "insert"}, Stored(t)
  PROVE  Moves(t)
<1>. DEFINE q == task[t]
            v == q.verdict
            pc == IF v.of \in Zones THEN "zones" ELSE "scan"
            j == q.i + 1
            plan == Append(q.plan, Recommend(v))
            r == [q EXCEPT !.pc = pc, !.i = j, !.verdict = None, !.plan = plan]
<1>1. q \in RunType /\ Sound(q) /\ v \in VerdictType
  BY DEF RunsOK, Sound
<1>2. q.kind = "anomaly"
  BY <1>1 DEF Sound, PcOf, RunType, Kinds
<1>3. task' = [task EXCEPT ![t] = r]
  BY DEF Stored, Set
<1>4. plan \in Seq(Sensible) /\ pc \in {"zones", "scan"} /\ j \in Nat \ {0}
  BY <1>1, <1>2, RecommendType, AppendType DEF RunType
<1>. HIDE DEF plan, pc, j
<1>5. r \in RunType
  BY <1>1, <1>4 DEF RunType, Pcs
<1>6. Sound(r) /\ Kept(r, q)
  BY <1>1, <1>2, <1>4 DEF Sound, Kept, PcOf, RunType
<1>. QED
  BY <1>3, <1>5, <1>6 DEF Moves

\* A run that has failed, or is about to insert.
LEMMA PlainMoves ==
  ASSUME RunsOK, NEW t \in Tasks, NEW pc,
         \/ pc = "failed" /\ task[t].pc \notin {"idle", "join", "wait"}
         \/ pc = "insert" /\ task[t].pc = "match"
         \/ pc = "done" /\ task[t].pc = "write",
         task' = [task EXCEPT ![t] = [task[t] EXCEPT !.pc = pc]]
  PROVE  Moves(t)
<1>. DEFINE q == task[t]
            r == [q EXCEPT !.pc = pc]
<1>1. q \in RunType /\ Sound(q)
  BY DEF RunsOK
<1>2. r \in RunType
  BY <1>1 DEF RunType, Pcs
<1>3. pc \in PcOf(q.kind)
  BY <1>1 DEF Sound, PcOf, RunType, Kinds
<1>4. Sound(r) /\ Kept(r, q)
  BY <1>1, <1>3 DEF Sound, Kept, RunType, Built
<1>. QED
  BY <1>2, <1>4 DEF Moves

LEMMA MatchMoves ==
  ASSUME RunsOK, NEW t \in Tasks, MatchAnomaly(t) \/ InsertAnomaly(t)
  PROVE  Moves(t)
<1>1. \/ task[t].pc \in {"match", "insert"} /\ Stored(t)
      \/ task[t].pc = "match" /\ task' = [task EXCEPT ![t] = [task[t] EXCEPT !.pc = "insert"]]
      \/ task[t].pc = "insert" /\ task' = [task EXCEPT ![t] = [task[t] EXCEPT !.pc = "failed"]]
  BY DEF MatchAnomaly, InsertAnomaly, At, Set
<1>. QED
  BY <1>1, StoredMoves, PlainMoves

LEMMA LookMoves ==
  ASSUME RunsOK, NetworkOK, NEW t \in Tasks, Look(t)
  PROVE  Moves(t)
<1>. DEFINE q == task[t]
            r(advice) == [q EXCEPT !.seen = SeesNow(t, Sites), !.plan = advice, !.pc = "predict"]
<1>1. q \in RunType /\ Sound(q) /\ q.pc = "look"
  BY DEF RunsOK, Look, At
<1>2. q.kind = "analysis" /\ q.scope \in Scopes
  BY <1>1 DEF Sound, PcOf, RunType, Kinds
<1>. DEFINE seen == SeesNow(t, Sites)
<1>3. \E advice \in Seq(Sensible) : task' = [task EXCEPT ![t] = r(advice)]
  <2>1. PICK zones \in ZoneHealth(t, seen), fdts \in FdtCapacity(t, seen) :
          task' = [task EXCEPT ![t] = r(zones \o fdts)]
    BY DEF Look, Set
  <2>. HIDE DEF seen, r
  <2>2. zones \in Seq(Sensible) /\ fdts \in Seq(Sensible)
    BY <1>2, AdviceType
  <2>. QED
    BY <2>1, <2>2, ConcatType
<1>4. PICK advice \in Seq(Sensible) : task' = [task EXCEPT ![t] = r(advice)]
  BY <1>3
<1>5. r(advice) \in RunType
  BY <1>1, SeesNowType DEF RunType, Pcs
<1>6. Sound(r(advice)) /\ Kept(r(advice), q)
  BY <1>1, <1>2 DEF Sound, Kept, PcOf, RunType
<1>. QED
  BY <1>4, <1>5, <1>6 DEF Moves

LEMMA PredictMoves ==
  ASSUME RunsOK, NEW t \in Tasks, Predict(t)
  PROVE  Moves(t)
<1>. DEFINE q == task[t]
            Due(sure) == [i \in DOMAIN SetToSeq(sure) |->
                            Alert("predicted", SetToSeq(sure)[i], ZoneOf[SetToSeq(sure)[i]])]
            r(hot, pc, due) == [q EXCEPT !.hot = hot, !.pc = pc, !.due = due]
<1>1. q \in RunType /\ Sound(q) /\ q.pc = "predict"
  BY DEF RunsOK, Predict, At
<1>2. q.kind = "analysis"
  BY <1>1 DEF Sound, PcOf, RunType, Kinds
<1>0. PICK hot \in SUBSET Predictable(t) : \E sure \in SUBSET hot :
        task' = [task EXCEPT ![t] = r(hot, IF sure = {} THEN "plan" ELSE "raise", Due(sure))]
  BY DEF Predict, Set
<1>3. PICK sure \in SUBSET hot :
        task' = [task EXCEPT ![t] = r(hot, IF sure = {} THEN "plan" ELSE "raise", Due(sure))]
  BY <1>0
<1>4. hot \subseteq Nros /\ sure \subseteq Nros
  BY DEF Predictable
<1>5. SetToSeq(sure) \in Seq(sure)
  BY <1>4, NetworkAssumption, FS_Subset, SetToSeqType
<1>. DEFINE pc == IF sure = {} THEN "plan" ELSE "raise"
            nros == SetToSeq(sure)
            due == [i \in DOMAIN nros |-> Alert("predicted", nros[i], ZoneOf[nros[i]])]
<1>6. due \in Seq(AlertDue)
  <2>. HIDE DEF nros
  <2>1. \A i \in DOMAIN nros : nros[i] \in Nros
    BY <1>4, <1>5 DEF nros
  <2>2. \A s \in Nros : Alert("predicted", s, ZoneOf[s]) \in AlertDue
    BY NetworkFacts DEF Alert, AlertDue, Abouts, Watched, Sites
  <2>3. \A i \in DOMAIN nros : Alert("predicted", nros[i], ZoneOf[nros[i]]) \in AlertDue
    BY <2>1, <2>2
  <2>4. nros \in Seq(sure)
    BY <1>5 DEF nros
  <2>. QED
    BY <2>3, <2>4
<1>7. task' = [task EXCEPT ![t] = r(hot, pc, due)] /\ pc \in {"plan", "raise"}
  BY <1>3
<1>. HIDE DEF due, pc
<1>8. r(hot, pc, due) \in RunType
  BY <1>1, <1>4, <1>6, <1>7 DEF RunType, Pcs
<1>9. Sound(r(hot, pc, due)) /\ Kept(r(hot, pc, due), q)
  BY <1>1, <1>2, <1>7 DEF Sound, Kept, PcOf, RunType
<1>. QED
  BY <1>7, <1>8, <1>9 DEF Moves

LEMMA PlanForType ==
  ASSUME RunsOK, NetworkOK, NEW t \in Tasks, NEW s \in Sites
  PROVE  SetToSeq(PlanFor(t, s)) \in Seq(Sensible)
<1>. DEFINE p == PlanFor(t, s)
<1>1. \A g \in Sites : Total[g] \in Nat /\ Layout[g] \in Seq(ClusterType) /\ ZoneOf[g] \in Scopes
  BY NetworkAssumption DEF Sites, Scopes
<1>2. Site(s, task[t].seen) \in SiteType
  <2>1. task[t].seen \in [Watched -> Nat]
    BY DEF RunsOK, RunType
  <2>. QED
    BY <2>1, <1>1, NetworkFacts DEF Site, SiteType
<1>3. Grounded(GroundOf[s])
  BY <1>1, GroundType DEF GroundOf
<1>4. Siblings(s) \in SUBSET SiteType /\ IsFiniteSet(Siblings(s))
  <2>. DEFINE G == {h \in Fdts : h # s /\ ParentOf[h] = ParentOf[s]}
              f == [g \in G |-> Site(g, level)]
  <2>1. G \subseteq Fdts /\ IsFiniteSet(G)
    BY NetworkAssumption, FS_Subset
  <2>2. \A g \in Fdts : Site(g, level) \in SiteType
    BY <1>1, NetworkFacts DEF Site, SiteType, NetworkOK, Sites
  <2>3. Siblings(s) = {Site(g, level) : g \in G}
    BY DEF Siblings
  <2>. HIDE DEF G
  <2>4. f \in Surjection(G, Siblings(s))
    BY <2>3 DEF Surjection
  <2>. HIDE DEF f
  <2>5. IsFiniteSet(Siblings(s))
    BY <2>1, <2>4, FS_Surjection
  <2>. QED
    BY <2>1, <2>2, <2>3, <2>5
<1>5. p = {} \/ \E x \in Sensible : p = {x}
  BY <1>1, <1>2, <1>3, <1>4, PlanNroOK, PlanFdtOK DEF PlanFor
<1>. HIDE DEF p
<1>6. IsFiniteSet(p) /\ p \subseteq Sensible
  BY <1>5, FS_EmptySet, FS_Singleton
<1>7. SetToSeq(p) \in Seq(p)
  BY <1>6, SetToSeqType
<1>8. SetToSeq(p) \in Seq(Sensible)
  BY <1>6, <1>7
<1>. QED
  BY <1>8 DEF p

LEMMA PlanMoves ==
  ASSUME RunsOK, NetworkOK, NEW t \in Tasks, Plan(t)
  PROVE  Moves(t)
<1>. DEFINE q == task[t]
            x == [q EXCEPT !.pc = "ingest", !.i = 1, !.seen = Unseen, !.hot = {}]
            r(j, plan) == [q EXCEPT !.i = j, !.plan = plan]
<1>1. q \in RunType /\ Sound(q) /\ q.pc = "plan"
  BY DEF RunsOK, Plan, At
<1>2. q.kind = "analysis" /\ q.i \in Nat \ {0} /\ q.scope \in Scopes
  BY <1>1 DEF Sound, PcOf, RunType, Kinds
<1>3. CASE q.i > Len(Round(t))
  <2>1. task' = [task EXCEPT ![t] = x]
    BY <1>3 DEF Plan, Set
  <2>. Unseen \in [Watched -> Nat] /\ {} \in SUBSET Nros /\ 1 \in Nat \ {0}
    BY DEF Unseen
  <2>2. x \in RunType
    BY <1>1 DEF RunType, Pcs
  <2>3. Sound(x) /\ Kept(x, q)
    BY <1>1, <1>2 DEF Sound, Kept, PcOf, RunType
  <2>. QED
    BY <2>1, <2>2, <2>3 DEF Moves
<1>4. CASE ~(q.i > Len(Round(t)))
  <2>. DEFINE j == q.i + 1
              more == SetToSeq(PlanFor(t, Round(t)[q.i]))
              plan == q.plan \o more
  <2>1. task' = [task EXCEPT ![t] = r(j, plan)]
    BY <1>4 DEF Plan, Set
  <2>2. Round(t)[q.i] \in Sites
    <3>1. Round(t) \in Seq(Sites)
      BY <1>2, NetworkFacts
    <3>. QED
      BY <3>1, <1>2, <1>4
  <2>3. more \in Seq(Sensible)
    BY <2>2, PlanForType
  <2>. HIDE DEF more
  <2>4. plan \in Seq(Sensible) /\ j \in Nat \ {0}
    BY <1>1, <1>2, <2>3, ConcatType DEF RunType
  <2>. HIDE DEF plan, j
  <2>5. r(j, plan) \in RunType
    BY <1>1, <2>4 DEF RunType, Pcs
  <2>6. Sound(r(j, plan)) /\ Kept(r(j, plan), q)
    BY <1>1, <1>2 DEF Sound, Kept, PcOf, RunType
  <2>. QED
    BY <2>1, <2>5, <2>6 DEF Moves
<1>. QED
  BY <1>3, <1>4

LEMMA AnalyzeComplaintsMoves ==
  ASSUME RunsOK, NEW t \in Tasks, AnalyzeComplaints(t)
  PROVE  Moves(t)
<1>. DEFINE q == task[t]
            r(plan, due) == [q EXCEPT !.plan = plan, !.pc = "ingest", !.due = due]
<1>1. q \in RunType /\ Sound(q) /\ q.pc = "complaints"
  BY DEF RunsOK, AnalyzeComplaints, At
<1>2. q.kind = "report" /\ q.scope \in Scopes
  BY <1>1 DEF Sound, PcOf, RunType, Kinds
<1>3. PICK plan \in Suggested \cup {<< >>}, due \in {<<Alert("complaints", None, None)>>, << >>} :
        task' = [task EXCEPT ![t] = r(plan, due)]
  BY DEF AnalyzeComplaints, Set
<1>4. plan \in Seq(Sensible)
  <2>1. << >> \in Seq(Sensible)
    OBVIOUS
  <2>2. Suggested \subseteq Seq(Sensible)
    BY <1>2, AdviceType
  <2>. QED
    BY <2>1, <2>2
<1>5. due \in Seq(AlertDue)
  <2>. DEFINE a == Alert("complaints", None, None)
  <2>1. a \in AlertDue
    BY DEF Alert, AlertDue, Abouts, Scopes
  <2>2. due = <<a>> \/ due = << >>
    OBVIOUS
  <2>. HIDE DEF a
  <2>3. << >> \in Seq(AlertDue) /\ <<a>> \in Seq(AlertDue)
    BY <2>1
  <2>. QED
    BY <2>2, <2>3
<1>6. r(plan, due) \in RunType
  BY <1>1, <1>4, <1>5 DEF RunType, Pcs
<1>7. Sound(r(plan, due)) /\ Kept(r(plan, due), q)
  BY <1>1, <1>2 DEF Sound, Kept, PcOf, RunType, Built
<1>. QED
  BY <1>3, <1>6, <1>7 DEF Moves

LEMMA EndMoves ==
  ASSUME RunsOK, NEW t \in Tasks, WriteReport(t) \/ Throws(t)
  PROVE  Moves(t)
<1>1. \/ task[t].pc = "write" /\ task' = [task EXCEPT ![t] = [task[t] EXCEPT !.pc = "done"]]
      \/ /\ task[t].pc \notin {"idle", "join", "wait"}
         /\ task' = [task EXCEPT ![t] = [task[t] EXCEPT !.pc = "failed"]]
  BY DEF WriteReport, Throws, Running, At, Set
<1>. QED
  BY <1>1, PlainMoves

\* What a run does on its own.
Inner(t) ==
  \/ AnalysisStep(t) \/ AnalyzeComplaints(t) \/ WriteReport(t) \/ Throws(t)
  \/ HealthStep(t) \/ RaiseStep(t) \/ IngestStep(t) \/ DetectStep(t)

LEMMA InnerMoves ==
  ASSUME RunsOK, NetworkOK, IsFiniteSet(recs), Len(alerts) \in Nat, NEW t \in Tasks, Inner(t)
  PROVE  Moves(t)
BY CheckServicesMoves, ReadSitesMoves, WatchOneMoves, FindAlertMoves, CreateAlertMoves,
   TellManagerMoves, TellAdminsMoves, FindDuplicateMoves, CreateRecommendationMoves, AssessMoves,
   MatchMoves, LookMoves, PredictMoves, PlanMoves, AnalyzeComplaintsMoves, EndMoves
   DEF Inner, AnalysisStep, HealthStep, RaiseStep, IngestStep, DetectStep

-----------------------------------------------------------------------------
(* Who waits for which run.                                                   *)

\* The run of that kind, scope and language.
Is(t, kind, scope, lang) == task[t].kind = kind /\ task[t].scope = scope /\ task[t].lang = lang

AskerOK(c) == LET a == asker[c] IN
  /\ a.at = "waiting" => a.lang \in Langs
  /\ a.at = "idle" => a.kinds = << >> /\ a.on = {}
  /\ \A i \in DOMAIN a.kinds : a.kinds[i] \in a.wants
  /\ \A t \in a.on : \E kind \in a.wants : Is(t, kind, a.scope, a.lang)

WaitOK(t) == LET r == task[t] IN
  r.pc = "wait" => r.on \in Tasks /\ Is(r.on, "analysis", r.scope, r.lang)

ReportType == [scope : Scopes, from : Scopes]

AnswersInv ==
  /\ inFlight \in [Keys -> Tasks \cup {None}]
  /\ \A k \in Keys : inFlight[k] # None => Is(inFlight[k], k[1], k[2], k[3])
  /\ asker \in [Askers -> AskerType] /\ \A c \in Askers : AskerOK(c)
  /\ \A t \in Tasks : WaitOK(t)
  /\ reports \subseteq ReportType /\ \A r \in reports : r.scope = r.from

RunInv == RunsOK /\ NetworkOK /\ AnswersInv

LEMMA IdleFacts ==
  /\ IdleTask \in RunType /\ Sound(IdleTask)
  /\ IdleTask.kind = "none" /\ IdleTask.pc = "idle" /\ ~IdleTask.calm /\ IdleTask.due = << >>
<1>1. << >> \in Seq(AlertDue) /\ << >> \in Seq(Sensible)
  OBVIOUS
<1>. QED
  BY <1>1 DEF IdleTask, RunType, Sound, PcOf, Kinds, Pcs, Scopes, Unseen, Askable, Built

LEMMA NewRunFacts ==
  ASSUME NEW kind \in Kinds, NEW scope \in Scopes, NEW lang \in Langs \cup {None}, NEW pc \in Pcs
  PROVE  LET r == NewRun(kind, scope, lang, pc) IN
         /\ r \in RunType /\ r.kind = kind /\ r.scope = scope /\ r.lang = lang
         /\ r.pc = pc /\ r.due = << >> /\ r.i = 1 /\ ~r.calm
<1>. DEFINE r == NewRun(kind, scope, lang, pc)
<1>1. r = [IdleTask EXCEPT !.kind = kind, !.scope = scope, !.lang = lang, !.pc = pc]
  BY DEF NewRun
<1>2. r \in RunType
  BY <1>1, IdleFacts DEF RunType
<1>. QED
  BY <1>1, <1>2 DEF IdleTask

LEMMA AskedRunFacts ==
  ASSUME NEW kind \in Askable, NEW scope \in Scopes, NEW lang \in Langs
  PROVE  LET r == NewRun(kind, scope, lang, FirstPc[kind]) IN
         /\ r \in RunType /\ Sound(r) /\ r.kind = kind /\ r.scope = scope /\ r.lang = lang
         /\ r.pc = FirstPc[kind] /\ r.due = << >> /\ ~r.calm
<1>. DEFINE pc == FirstPc[kind]
            r == NewRun(kind, scope, lang, pc)
<1>1. pc \in PcOf(kind) /\ pc \in {"look", "read", "join"} /\ kind \in Kinds /\ kind # "health"
  BY DEF FirstPc, PcOf, Askable, Kinds
<1>2. pc \in Pcs /\ lang \in Langs \cup {None}
  BY <1>1 DEF Pcs
<1>. HIDE DEF pc
<1>3. /\ r \in RunType /\ r.kind = kind /\ r.scope = scope /\ r.lang = lang
      /\ r.pc = pc /\ r.due = << >> /\ r.i = 1 /\ ~r.calm
  BY <1>1, <1>2, NewRunFacts
<1>. HIDE DEF r
<1>4. Sound(r)
  BY <1>1, <1>3 DEF Sound, Built
<1>. QED
  BY <1>3, <1>4 DEF r, pc

\* The run that is shared or started is the one that was asked for.
LEMMA SharedRun ==
  ASSUME RunInv, NEW kind \in Askable, NEW scope \in Scopes, NEW lang \in Langs, NEW t \in Tasks,
         Share(kind, scope, lang, t), Free # {} \/ inFlight[KeyOf(kind, scope, lang)] # None
  PROVE  LET r == Started(kind, scope, lang, t) IN
         /\ r \in RunType /\ Sound(r) /\ r.kind = kind /\ r.scope = scope /\ r.lang = lang
         /\ r = task[t] \/ (task[t].pc = "idle" /\ task[t].kind = "none" /\ r.pc = FirstPc[kind]
                             /\ r.due = << >> /\ ~r.calm)
         /\ inFlight' \in [Keys -> Tasks \cup {None}]
         /\ inFlight' = [inFlight EXCEPT ![<<kind, scope, lang>>] = t]
<1>. DEFINE k == <<kind, scope, lang>>
            r == Started(kind, scope, lang, t)
<1>1. k \in Keys /\ k[1] = kind /\ k[2] = scope /\ k[3] = lang
  BY DEF Keys, Kinds, Askable
<1>2. inFlight' = [inFlight EXCEPT ![k] = t] /\ inFlight' \in [Keys -> Tasks \cup {None}]
  BY <1>1 DEF Share, KeyOf, RunInv, AnswersInv
<1>3. CASE inFlight[k] # None
  <2>1. t = inFlight[k] /\ r = task[t]
    BY <1>3 DEF Share, Started, KeyOf
  <2>2. Is(t, kind, scope, lang)
    BY <1>1, <1>3, <2>1 DEF RunInv, AnswersInv
  <2>. QED
    BY <1>2, <2>1, <2>2 DEF RunInv, RunsOK, Is
<1>4. CASE inFlight[k] = None
  <2>1. t \in Free
    BY <1>4 DEF Share, KeyOf
  <2>2. task[t].pc = "idle" /\ task[t].kind = "none"
    BY <2>1 DEF Free, At, RunInv, RunsOK, Sound, PcOf, RunType, Kinds
  <2>3. r = NewRun(kind, scope, lang, FirstPc[kind])
    BY <1>4 DEF Started, KeyOf
  <2>. HIDE DEF r
  <2>4. /\ r \in RunType /\ Sound(r) /\ r.kind = kind /\ r.scope = scope /\ r.lang = lang
        /\ r.pc = FirstPc[kind] /\ r.due = << >> /\ ~r.calm
    BY <2>3, AskedRunFacts
  <2>. QED
    BY <1>2, <2>2, <2>4 DEF r
<1>. QED
  BY <1>3, <1>4

LEMMA MovesKeep ==
  ASSUME RunInv, NEW t \in Tasks, Moves(t), UNCHANGED <<level, inFlight, asker>>,
         reports' \subseteq ReportType, \A r \in reports' : r.scope = r.from
  PROVE  RunInv'
<1>1. PICK r \in RunType : Sound(r) /\ Kept(r, task[t]) /\ task' = [task EXCEPT ![t] = r]
  BY DEF Moves
<1>2. /\ \A u \in Tasks : u # t => task'[u] = task[u]
      /\ task'[t] = r /\ task' \in [Tasks -> RunType]
  BY <1>1 DEF RunInv, RunsOK
<1>3. RunsOK'
  BY <1>1, <1>2 DEF RunInv, RunsOK
<1>4. \A u \in Tasks : /\ task'[u].kind = task[u].kind /\ task'[u].scope = task[u].scope
                       /\ task'[u].lang = task[u].lang
                       /\ task'[u].pc = "wait" => task'[u] = task[u]
  BY <1>1, <1>2 DEF Kept
<1>5. \A c \in Askers : AskerOK(c)'
  <2>. TAKE c \in Askers
  <2>1. AskerOK(c) /\ asker[c].on \subseteq Tasks
    BY DEF RunInv, AnswersInv, AskerType
  <2>. QED
    BY <1>4, <2>1 DEF AskerOK, Is
<1>6. \A u \in Tasks : WaitOK(u)'
  BY <1>4 DEF RunInv, AnswersInv, WaitOK, Is
<1>7. \A k \in Keys : inFlight'[k] # None => Is(inFlight[k], k[1], k[2], k[3])'
  BY <1>4 DEF RunInv, AnswersInv, Is
<1>. QED
  BY <1>3, <1>5, <1>6, <1>7 DEF RunInv, AnswersInv, NetworkOK

LEMMA InnerKeeps ==
  ASSUME RunInv, IsFiniteSet(recs), Len(alerts) \in Nat, NEW t \in Tasks, Inner(t),
         UNCHANGED <<level, inFlight, asker>>, WriteReport(t) \/ UNCHANGED reports
  PROVE  RunInv'
<1>1. Moves(t)
  BY InnerMoves DEF RunInv
<1>2. reports' \subseteq ReportType /\ \A r \in reports' : r.scope = r.from
  <2>1. CASE UNCHANGED reports
    BY <2>1 DEF RunInv, AnswersInv
  <2>2. CASE WriteReport(t)
    <3>. DEFINE new == [scope |-> task[t].scope, from |-> task[t].from]
    <3>1. task[t] \in RunType /\ Sound(task[t]) /\ task[t].pc = "write"
      BY <2>2 DEF WriteReport, At, RunInv, RunsOK
    <3>2. task[t].kind = "report"
      BY <3>1 DEF Sound, PcOf, RunType, Kinds
    <3>3. task[t].from = task[t].scope
      BY <3>1, <3>2 DEF Sound, Built
    <3>4. new \in ReportType /\ new.scope = new.from
      BY <3>1, <3>3 DEF ReportType, RunType
    <3>5. reports' = reports \cup {new}
      BY <2>2 DEF WriteReport
    <3>. QED
      BY <3>4, <3>5 DEF RunInv, AnswersInv
  <2>. QED
    BY <2>1, <2>2
<1>. QED
  BY <1>1, <1>2, MovesKeep

LEMMA AskKeeps ==
  ASSUME RunInv, NEW c \in Askers, Ask(c)
  PROVE  RunInv'
<1>1. PICK r \in Requests[c] :
        /\ asker[c].at = "idle"
        /\ asker' = [asker EXCEPT ![c] =
             [at |-> "waiting", kinds |-> r.kinds, inTurn |-> r.inTurn, on |-> {},
              scope |-> r.scope, lang |-> r.lang, wants |-> {r.kinds[i] : i \in DOMAIN r.kinds}]]
        /\ UNCHANGED <<level, task, inFlight, reports>>
  BY DEF Ask
<1>. DEFINE a == [at |-> "waiting", kinds |-> r.kinds, inTurn |-> r.inTurn, on |-> {},
                  scope |-> r.scope, lang |-> r.lang, wants |-> {r.kinds[i] : i \in DOMAIN r.kinds}]
<1>2. r.kinds \in Seq(Askable) /\ r.inTurn \in BOOLEAN /\ r.scope \in Scopes /\ r.lang \in Langs
  BY RequestAssumption
<1>3. \A i \in DOMAIN r.kinds : r.kinds[i] \in Askable
  BY <1>2
<1>4. a \in AskerType
  BY <1>2, <1>3 DEF AskerType
<1>5. asker' = [asker EXCEPT ![c] = a] /\ asker' \in [Askers -> AskerType]
  BY <1>1, <1>4 DEF RunInv, AnswersInv
<1>6. \A d \in Askers : AskerOK(d)'
  <2>. TAKE d \in Askers
  <2>1. CASE d = c
    <3>1. asker'[d] = a
      BY <2>1, <1>5 DEF RunInv, AnswersInv
    <3>. QED
      BY <3>1, <1>2 DEF AskerOK
  <2>2. CASE d # c
    <3>1. asker'[d] = asker[d] /\ AskerOK(d) /\ task' = task
      BY <2>2, <1>1, <1>5 DEF RunInv, AnswersInv
    <3>. QED
      BY <3>1 DEF AskerOK, Is
  <2>. QED
    BY <2>1, <2>2
<1>7. /\ inFlight' \in [Keys -> Tasks \cup {None}]
      /\ \A k \in Keys : inFlight'[k] # None => Is(inFlight[k], k[1], k[2], k[3])'
      /\ \A t \in Tasks : WaitOK(t)'
      /\ reports' \subseteq ReportType /\ \A q \in reports' : q.scope = q.from
      /\ RunsOK' /\ NetworkOK'
  BY <1>1 DEF RunInv, AnswersInv, RunsOK, NetworkOK, WaitOK, Is
<1>. QED
  BY <1>5, <1>6, <1>7 DEF RunInv, AnswersInv

\* Runs that are underway stay what they are.
Same(u) == task[u].kind # "none" =>
  task'[u].kind = task[u].kind /\ task'[u].scope = task[u].scope /\ task'[u].lang = task[u].lang

\* The run a call waits for.
LEMMA CallRun ==
  ASSUME RunInv, NEW c \in Askers, Call(c)
  PROVE  LET a == asker[c]
             kind == Head(a.kinds) IN
         /\ kind \in Askable /\ Tail(a.kinds) \in Seq(Askable) /\ kind \in a.wants
         /\ \A i \in DOMAIN Tail(a.kinds) : Tail(a.kinds)[i] \in a.wants
         /\ a.at = "waiting" /\ a.lang \in Langs /\ a.scope \in Scopes
         /\ \E t \in Tasks, r \in RunType :
              /\ Sound(r) /\ r.kind = kind /\ r.scope = a.scope /\ r.lang = a.lang
              /\ r = task[t] \/ (task[t].pc = "idle" /\ task[t].kind = "none" /\ r.pc = FirstPc[kind])
              /\ inFlight' \in [Keys -> Tasks \cup {None}]
              /\ inFlight' = [inFlight EXCEPT ![<<kind, a.scope, a.lang>>] = t]
              /\ task' = [task EXCEPT ![t] = r]
              /\ asker' = [asker EXCEPT ![c].kinds = Tail(a.kinds), ![c].on = a.on \cup {t}]
<1>. DEFINE a == asker[c]
            kind == Head(a.kinds)
<1>1. a \in AskerType /\ AskerOK(c) /\ a.kinds # << >>
  BY DEF RunInv, AnswersInv, Call
<1>2. /\ kind \in Askable /\ Tail(a.kinds) \in Seq(Askable) /\ kind \in a.wants
      /\ \A i \in DOMAIN Tail(a.kinds) : Tail(a.kinds)[i] \in a.wants
      /\ a.at = "waiting" /\ a.lang \in Langs /\ a.scope \in Scopes
  <2>1. a.kinds \in Seq(Askable)
    BY <1>1 DEF AskerType
  <2>2. kind \in Askable /\ Tail(a.kinds) \in Seq(Askable) /\ kind = a.kinds[1] /\ 1 \in DOMAIN a.kinds
    BY <2>1, <1>1
  <2>3. \A i \in DOMAIN Tail(a.kinds) : i + 1 \in DOMAIN a.kinds /\ Tail(a.kinds)[i] = a.kinds[i + 1]
    BY <2>1, <1>1
  <2>4. \A i \in DOMAIN a.kinds : a.kinds[i] \in a.wants
    BY <1>1 DEF AskerOK
  <2>5. a.at = "waiting"
    BY <1>1 DEF AskerOK, AskerType
  <2>. QED
    BY <1>1, <2>2, <2>3, <2>4, <2>5 DEF AskerOK, AskerType
<1>3. PICK t \in Tasks :
        /\ Share(kind, a.scope, a.lang, t)
        /\ task' = [task EXCEPT ![t] = Started(kind, a.scope, a.lang, t)]
        /\ asker' = [asker EXCEPT ![c].kinds = Tail(a.kinds), ![c].on = a.on \cup {t}]
  BY DEF Call, Set
<1>4. Free # {} \/ inFlight[KeyOf(kind, a.scope, a.lang)] # None
  BY DEF Call
<1>. DEFINE r == Started(kind, a.scope, a.lang, t)
<1>5. /\ r \in RunType /\ Sound(r) /\ r.kind = kind /\ r.scope = a.scope /\ r.lang = a.lang
      /\ r = task[t] \/ (task[t].pc = "idle" /\ task[t].kind = "none" /\ r.pc = FirstPc[kind])
      /\ inFlight' \in [Keys -> Tasks \cup {None}]
      /\ inFlight' = [inFlight EXCEPT ![<<kind, a.scope, a.lang>>] = t]
  <2>. DEFINE scope == a.scope
              lang == a.lang
  <2>1. scope \in Scopes /\ lang \in Langs
    BY <1>2
  <2>. HIDE DEF scope, lang, kind
  <2>2. Share(kind, scope, lang, t) /\ (Free # {} \/ inFlight[KeyOf(kind, scope, lang)] # None)
    BY <1>3, <1>4 DEF scope, lang
  <2>. QED
    BY <1>2, <2>1, <2>2, SharedRun DEF scope, lang
<1>6. task' = [task EXCEPT ![t] = r]
  BY <1>3
<1>. HIDE DEF r
<1>. QED
  BY <1>2, <1>3, <1>5, <1>6

LEMMA CallKeeps ==
  ASSUME RunInv, NEW c \in Askers, Call(c)
  PROVE  RunInv'
<1>. DEFINE a == asker[c]
            kind == Head(a.kinds)
<1>1. a \in AskerType /\ AskerOK(c)
  BY DEF RunInv, AnswersInv
<1>2. /\ kind \in Askable /\ Tail(a.kinds) \in Seq(Askable) /\ kind \in a.wants
      /\ \A i \in DOMAIN Tail(a.kinds) : Tail(a.kinds)[i] \in a.wants
      /\ a.at = "waiting" /\ a.lang \in Langs /\ a.scope \in Scopes
  BY CallRun
<1>3. PICK t \in Tasks, r \in RunType :
        /\ Sound(r) /\ r.kind = kind /\ r.scope = a.scope /\ r.lang = a.lang
        /\ r = task[t] \/ (task[t].pc = "idle" /\ task[t].kind = "none" /\ r.pc = FirstPc[kind])
        /\ inFlight' \in [Keys -> Tasks \cup {None}]
        /\ inFlight' = [inFlight EXCEPT ![<<kind, a.scope, a.lang>>] = t]
        /\ task' = [task EXCEPT ![t] = r]
        /\ asker' = [asker EXCEPT ![c].kinds = Tail(a.kinds), ![c].on = a.on \cup {t}]
  BY CallRun
<1>5. /\ r \in RunType /\ Sound(r) /\ r.kind = kind /\ r.scope = a.scope /\ r.lang = a.lang
      /\ r = task[t] \/ (task[t].pc = "idle" /\ task[t].kind = "none" /\ r.pc = FirstPc[kind])
      /\ inFlight' \in [Keys -> Tasks \cup {None}]
      /\ inFlight' = [inFlight EXCEPT ![<<kind, a.scope, a.lang>>] = t]
  BY <1>3
<1>6. /\ task' = [task EXCEPT ![t] = r] /\ task' \in [Tasks -> RunType] /\ task'[t] = r
      /\ \A u \in Tasks : u # t => task'[u] = task[u]
  BY <1>3, <1>5 DEF RunInv, RunsOK
<1>7. RunsOK'
  BY <1>5, <1>6 DEF RunInv, RunsOK
<1>8. \A u \in Tasks : Same(u)
  BY <1>5, <1>6 DEF Same
<1>9. \A u \in Tasks : WaitOK(u)'
  <2>. TAKE u \in Tasks
  <2>1. SUFFICES ASSUME task'[u].pc = "wait" PROVE task'[u].on \in Tasks /\ Is(task[u].on, "analysis", task[u].scope, task[u].lang)'
    BY DEF WaitOK
  <2>2. task'[u] = task[u]
    <3>1. FirstPc[kind] # "wait"
      BY <1>2 DEF FirstPc, Askable
    <3>. QED
      BY <2>1, <1>5, <1>6, <3>1
  <2>3. task[u].on \in Tasks /\ Is(task[u].on, "analysis", task[u].scope, task[u].lang)
    BY <2>1, <2>2 DEF RunInv, AnswersInv, WaitOK
  <2>4. Same(task[u].on)
    BY <1>8, <2>3
  <2>. QED
    BY <2>2, <2>3, <2>4 DEF Is, Same
<1>10. \A k \in Keys : inFlight'[k] # None => Is(inFlight[k], k[1], k[2], k[3])'
  <2>. TAKE k \in Keys
  <2>1. k[1] # "none" /\ k = <<k[1], k[2], k[3]>>
    BY DEF Keys, Kinds
  <2>2. CASE k = <<kind, a.scope, a.lang>>
    <3>1. inFlight'[k] = t /\ k[1] = kind /\ k[2] = a.scope /\ k[3] = a.lang
      BY <2>2, <1>5 DEF RunInv, AnswersInv
    <3>. QED
      BY <3>1, <1>5, <1>6 DEF Is
  <2>3. CASE k # <<kind, a.scope, a.lang>>
    <3>1. inFlight'[k] = inFlight[k]
      BY <2>3, <1>5 DEF RunInv, AnswersInv
    <3>2. inFlight[k] # None => Is(inFlight[k], k[1], k[2], k[3]) /\ inFlight[k] \in Tasks
      BY DEF RunInv, AnswersInv
    <3>. QED
      BY <3>1, <3>2, <2>1, <1>8 DEF Is, Same
  <2>. QED
    BY <2>2, <2>3
<1>. DEFINE b == [a EXCEPT !.kinds = Tail(a.kinds), !.on = a.on \cup {t}]
<1>11. asker' = [asker EXCEPT ![c] = b]
  BY <1>3 DEF RunInv, AnswersInv
<1>12. /\ b \in AskerType /\ b.at = "waiting" /\ b.kinds = Tail(a.kinds) /\ b.on = a.on \cup {t}
       /\ b.scope = a.scope /\ b.lang = a.lang /\ b.wants = a.wants
  <2>1. a.on \cup {t} \in SUBSET Tasks
    BY <1>1 DEF AskerType
  <2>. QED
    BY <1>1, <1>2, <2>1 DEF AskerType
<1>. HIDE DEF b
<1>13. /\ asker' \in [Askers -> AskerType] /\ asker'[c] = b
       /\ \A d \in Askers : d # c => asker'[d] = asker[d]
  BY <1>11, <1>12 DEF RunInv, AnswersInv
<1>14. \A d \in Askers : AskerOK(d)'
  <2>. TAKE d \in Askers
  <2>1. \A u \in asker[d].on : u \in Tasks
        /\ \E x \in asker[d].wants : x # "none" /\ Is(u, x, asker[d].scope, asker[d].lang)
    BY DEF RunInv, AnswersInv, AskerOK, AskerType, Askable
  <2>2. \A u \in asker[d].on : \E x \in asker[d].wants :
          task'[u].kind = x /\ task'[u].scope = asker[d].scope /\ task'[u].lang = asker[d].lang
    <3>. TAKE u \in asker[d].on
    <3>1. PICK x \in asker[d].wants : x # "none" /\ Is(u, x, asker[d].scope, asker[d].lang)
      BY <2>1
    <3>. QED
      BY <2>1, <3>1, <1>8 DEF Is, Same
  <2>3. CASE d = c
    <3>1. task'[t].kind = kind /\ task'[t].scope = a.scope /\ task'[t].lang = a.lang
      BY <1>5, <1>6
    <3>2. \A u \in b.on : \E x \in b.wants : task'[u].kind = x /\ task'[u].scope = b.scope /\ task'[u].lang = b.lang
      BY <2>2, <2>3, <3>1, <1>2, <1>12
    <3>3. b.lang \in Langs /\ \A i \in DOMAIN b.kinds : b.kinds[i] \in b.wants
      BY <1>2, <1>12
    <3>. QED
      BY <2>3, <3>2, <3>3, <1>12, <1>13 DEF AskerOK, Is
  <2>4. CASE d # c
    <3>1. asker'[d] = asker[d] /\ AskerOK(d)
      BY <2>4, <1>13 DEF RunInv, AnswersInv
    <3>. QED
      BY <3>1, <2>2 DEF AskerOK, Is
  <2>. QED
    BY <2>3, <2>4
<1>15. UNCHANGED <<level, reports>>
  BY DEF Call
<1>. QED
  BY <1>5, <1>7, <1>9, <1>10, <1>13, <1>14, <1>15 DEF RunInv, AnswersInv, NetworkOK

\* What a run leaves to those who wait, when it stays what it is.
LEMMA OthersKeep ==
  ASSUME RunInv, task' \in [Tasks -> RunType], \A u \in Tasks : Same(u), UNCHANGED asker
  PROVE  \A c \in Askers : AskerOK(c)'
<1>. TAKE c \in Askers
<1>1. AskerOK(c) /\ asker[c] \in AskerType
  BY DEF RunInv, AnswersInv
<1>2. \A x \in asker[c].wants : x # "none"
  BY <1>1 DEF AskerType, Askable
<1>3. \A u \in asker[c].on : \E x \in asker[c].wants :
        task'[u].kind = x /\ task'[u].scope = asker[c].scope /\ task'[u].lang = asker[c].lang
  <2>. TAKE u \in asker[c].on
  <2>1. PICK x \in asker[c].wants : Is(u, x, asker[c].scope, asker[c].lang)
    BY <1>1 DEF AskerOK
  <2>2. u \in Tasks /\ Same(u)
    BY <1>1 DEF AskerType
  <2>. QED
    BY <1>2, <2>1, <2>2 DEF Is, Same
<1>. QED
  BY <1>1, <1>3 DEF AskerOK, Is

LEMMA SharedKeys ==
  ASSUME RunInv, \A u \in Tasks : Same(u), NEW k \in Keys, NEW u \in Tasks,
         inFlight' = [inFlight EXCEPT ![k] = u],
         task'[u].kind = k[1], task'[u].scope = k[2], task'[u].lang = k[3]
  PROVE  \A j \in Keys : inFlight'[j] # None => Is(inFlight[j], j[1], j[2], j[3])'
<1>. TAKE j \in Keys
<1>1. j[1] # "none"
  BY DEF Keys, Kinds
<1>2. CASE j = k
  BY <1>2 DEF RunInv, AnswersInv, Is
<1>3. CASE j # k
  <2>1. inFlight'[j] = inFlight[j]
    BY <1>3 DEF RunInv, AnswersInv
  <2>2. inFlight[j] # None => Is(inFlight[j], j[1], j[2], j[3]) /\ inFlight[j] \in Tasks
    BY DEF RunInv, AnswersInv
  <2>. QED
    BY <1>1, <2>1, <2>2 DEF Is, Same
<1>. QED
  BY <1>2, <1>3

\* The analysis a report waits for.
LEMMA JoinRun ==
  ASSUME RunInv, NEW t \in Tasks, JoinAnalysis(t)
  PROVE  LET q == task[t] IN
         /\ q \in RunType /\ Sound(q) /\ q.pc = "join" /\ q.kind = "report"
         /\ q.lang \in Langs /\ q.scope \in Scopes
         /\ \E u \in Tasks, a \in RunType :
              /\ Sound(a) /\ a.kind = "analysis" /\ a.scope = q.scope /\ a.lang = q.lang
              /\ a = task[u] \/ (task[u].pc = "idle" /\ task[u].kind = "none" /\ a.pc = "look")
              /\ inFlight' \in [Keys -> Tasks \cup {None}]
              /\ inFlight' = [inFlight EXCEPT ![<<"analysis", q.scope, q.lang>>] = u]
              /\ task' = [task EXCEPT ![u] = a, ![t] = [q EXCEPT !.pc = "wait", !.on = u]]
<1>. DEFINE r == task[t]
<1>1. r \in RunType /\ Sound(r) /\ r.pc = "join"
  BY DEF RunInv, RunsOK, JoinAnalysis, At
<1>2. r.kind = "report" /\ r.lang \in Langs /\ r.scope \in Scopes
  BY <1>1 DEF Sound, PcOf, RunType, Kinds, Askable
<1>. DEFINE scope == r.scope
            lang == r.lang
<1>3. PICK u \in Tasks :
        /\ Share("analysis", scope, lang, u)
        /\ task' = [task EXCEPT ![u] = Started("analysis", scope, lang, u),
                                ![t] = [r EXCEPT !.pc = "wait", !.on = u]]
  BY DEF JoinAnalysis
<1>4. Free # {} \/ inFlight[KeyOf("analysis", scope, lang)] # None
  BY DEF JoinAnalysis
<1>. DEFINE a == Started("analysis", scope, lang, u)
            w == [r EXCEPT !.pc = "wait", !.on = u]
<1>5. /\ a \in RunType /\ Sound(a) /\ a.kind = "analysis" /\ a.scope = scope /\ a.lang = lang
      /\ a = task[u] \/ (task[u].pc = "idle" /\ task[u].kind = "none" /\ a.pc = "look")
      /\ inFlight' \in [Keys -> Tasks \cup {None}]
      /\ inFlight' = [inFlight EXCEPT ![<<"analysis", scope, lang>>] = u]
  <2>1. "analysis" \in Askable /\ FirstPc["analysis"] = "look"
    BY DEF Askable, FirstPc
  <2>2. scope \in Scopes /\ lang \in Langs
    BY <1>2
  <2>. HIDE DEF scope, lang
  <2>. QED
    BY <1>3, <1>4, <2>1, <2>2, SharedRun
<1>6. task' = [task EXCEPT ![u] = a, ![t] = w]
  BY <1>3
<1>. HIDE DEF a
<1>. QED
  BY <1>1, <1>2, <1>5, <1>6

LEMMA JoinAnalysisKeeps ==
  ASSUME RunInv, NEW t \in Tasks, JoinAnalysis(t)
  PROVE  RunInv'
<1>. DEFINE r == task[t]
            scope == r.scope
            lang == r.lang
<1>1. r \in RunType /\ Sound(r) /\ r.pc = "join"
  BY JoinRun
<1>2. r.kind = "report" /\ lang \in Langs /\ scope \in Scopes
  BY JoinRun
<1>3. PICK u \in Tasks, a \in RunType :
        /\ Sound(a) /\ a.kind = "analysis" /\ a.scope = scope /\ a.lang = lang
        /\ a = task[u] \/ (task[u].pc = "idle" /\ task[u].kind = "none" /\ a.pc = "look")
        /\ inFlight' \in [Keys -> Tasks \cup {None}]
        /\ inFlight' = [inFlight EXCEPT ![<<"analysis", scope, lang>>] = u]
        /\ task' = [task EXCEPT ![u] = a, ![t] = [r EXCEPT !.pc = "wait", !.on = u]]
  BY JoinRun
<1>. DEFINE w == [r EXCEPT !.pc = "wait", !.on = u]
<1>5. /\ a \in RunType /\ Sound(a) /\ a.kind = "analysis" /\ a.scope = scope /\ a.lang = lang
      /\ a = task[u] \/ (task[u].pc = "idle" /\ task[u].kind = "none" /\ a.pc = "look")
      /\ inFlight' \in [Keys -> Tasks \cup {None}]
      /\ inFlight' = [inFlight EXCEPT ![<<"analysis", scope, lang>>] = u]
  BY <1>3
<1>6. w \in RunType /\ w.pc = "wait" /\ w.on = u /\ w.kind = "report" /\ w.scope = scope /\ w.lang = lang
  BY <1>1, <1>2 DEF RunType, Pcs
<1>7. Sound(w)
  BY <1>1, <1>2, <1>6 DEF Sound, PcOf, Built
<1>8. u # t
  BY <1>1, <1>2, <1>5
<1>9. task' = [task EXCEPT ![u] = a, ![t] = w]
  BY <1>3
<1>. HIDE DEF w
<1>10. /\ task' \in [Tasks -> RunType] /\ task'[u] = a /\ task'[t] = w
       /\ \A v \in Tasks : v # u /\ v # t => task'[v] = task[v]
  BY <1>5, <1>6, <1>8, <1>9 DEF RunInv, RunsOK
<1>11. RunsOK'
  BY <1>5, <1>7, <1>10 DEF RunInv, RunsOK
<1>12. \A v \in Tasks : Same(v)
  BY <1>2, <1>5, <1>6, <1>10 DEF Same
<1>13. \A v \in Tasks : WaitOK(v)'
  <2>. TAKE v \in Tasks
  <2>1. CASE v = t
    BY <2>1, <1>5, <1>6, <1>10 DEF WaitOK, Is
  <2>2. CASE v # t
    <3>1. task'[v].pc = "wait" => task'[v] = task[v]
      BY <2>2, <1>5, <1>10
    <3>2. task[v].pc = "wait" => task[v].on \in Tasks /\ Is(task[v].on, "analysis", task[v].scope, task[v].lang)
      BY DEF RunInv, AnswersInv, WaitOK
    <3>. QED
      BY <3>1, <3>2, <1>12 DEF WaitOK, Is, Same
  <2>. QED
    BY <2>1, <2>2
<1>14. \A j \in Keys : inFlight'[j] # None => Is(inFlight[j], j[1], j[2], j[3])'
  <2>. DEFINE k == <<"analysis", scope, lang>>
  <2>1. k \in Keys /\ k[1] = "analysis" /\ k[2] = scope /\ k[3] = lang
    BY <1>2 DEF Keys, Kinds
  <2>2. inFlight' = [inFlight EXCEPT ![k] = u]
    BY <1>5
  <2>3. task'[u].kind = k[1] /\ task'[u].scope = k[2] /\ task'[u].lang = k[3]
    BY <1>5, <1>10
  <2>. HIDE DEF k
  <2>. QED
    BY <1>12, <2>1, <2>2, <2>3, SharedKeys
<1>15. \A c \in Askers : AskerOK(c)'
  <2>1. UNCHANGED asker
    BY DEF JoinAnalysis
  <2>. QED
    BY <1>10, <1>12, <2>1, OthersKeep
<1>16. UNCHANGED <<level, asker, reports>>
  BY DEF JoinAnalysis
<1>. QED
  BY <1>5, <1>11, <1>13, <1>14, <1>15, <1>16 DEF RunInv, AnswersInv, NetworkOK

LEMMA ResumedFacts ==
  ASSUME RunInv, NEW t \in Tasks, NEW u \in Tasks, u # t
  PROVE  LET r == Resumed(u, t)
             q == task[u] IN
         /\ r \in RunType /\ Sound(r)
         /\ r.kind = q.kind /\ r.scope = q.scope /\ r.lang = q.lang
         /\ r.pc = "wait" => r = q /\ q.on # t
         /\ r = q \/ (q.pc = "wait" /\ r.pc \in {"failed", "complaints"} /\ r.due = q.due /\ r.calm = q.calm)
<1>. DEFINE q == task[u]
            next == IF At(t, "failed") THEN "failed" ELSE "complaints"
            from == task[t].scope
            w == [q EXCEPT !.pc = next, !.on = None, !.from = from]
<1>1. q \in RunType /\ Sound(q)
  BY DEF RunInv, RunsOK
<1>2. CASE ~(q.pc = "wait" /\ q.on = t)
  BY <1>1, <1>2 DEF Resumed
<1>3. CASE q.pc = "wait" /\ q.on = t
  <2>1. Resumed(u, t) = w
    BY <1>3 DEF Resumed
  <2>2. from = q.scope
    BY <1>3 DEF RunInv, AnswersInv, WaitOK, Is
  <2>3. next \in {"failed", "complaints"} /\ from \in Scopes
    BY <1>1, <2>2 DEF RunType
  <2>. HIDE DEF next, from
  <2>4. w \in RunType /\ w.pc = next /\ w.from = from /\ w.kind = q.kind /\ w.scope = q.scope
        /\ w.lang = q.lang /\ w.due = q.due /\ w.calm = q.calm /\ w.plan = q.plan /\ w.verdict = q.verdict
        /\ w.i = q.i
    BY <1>1, <2>3 DEF RunType, Pcs
  <2>5. q.kind = "report"
    BY <1>1, <1>3 DEF Sound, PcOf, RunType, Kinds
  <2>6. Sound(w)
    BY <1>1, <2>2, <2>3, <2>4, <2>5 DEF Sound, PcOf
  <2>. QED
    BY <1>3, <2>1, <2>3, <2>4, <2>6
<1>. QED
  BY <1>2, <1>3

LEMMA SettleKeeps ==
  ASSUME RunInv, NEW t \in Tasks, Settle(t)
  PROVE  RunInv'
<1>1. /\ inFlight' = [k \in Keys |-> IF inFlight[k] = t THEN None ELSE inFlight[k]]
      /\ asker' = [c \in Askers |-> Answered(c, t)]
      /\ task' = [u \in Tasks |-> Resumed(u, t)]
      /\ UNCHANGED <<level, reports>>
  BY DEF Settle, Freed
<1>2. task'[t] = IdleTask /\ \A u \in Tasks : task'[u] = Resumed(u, t)
  BY <1>1 DEF Resumed
<1>3. \A u \in Tasks : u # t =>
        /\ task'[u] \in RunType /\ Sound(task'[u])
        /\ task'[u].kind = task[u].kind /\ task'[u].scope = task[u].scope /\ task'[u].lang = task[u].lang
        /\ task'[u].pc = "wait" => task'[u] = task[u] /\ task[u].on # t
  BY <1>2, ResumedFacts
<1>4. RunsOK'
  BY <1>1, <1>2, <1>3, IdleFacts DEF RunsOK
<1>5. \A u \in Tasks : WaitOK(u)'
  <2>. TAKE u \in Tasks
  <2>1. CASE u = t
    BY <2>1, <1>2, IdleFacts DEF WaitOK
  <2>2. CASE u # t
    <3>1. task'[u].pc = "wait" => task'[u] = task[u] /\ task[u].on # t
      BY <2>2, <1>3
    <3>2. task[u].pc = "wait" => task[u].on \in Tasks /\ Is(task[u].on, "analysis", task[u].scope, task[u].lang)
      BY DEF RunInv, AnswersInv, WaitOK
    <3>. QED
      BY <3>1, <3>2, <1>3 DEF WaitOK, Is
  <2>. QED
    BY <2>1, <2>2
<1>6. /\ inFlight' \in [Keys -> Tasks \cup {None}]
      /\ \A k \in Keys : inFlight'[k] # None => Is(inFlight[k], k[1], k[2], k[3])'
  <2>1. inFlight' \in [Keys -> Tasks \cup {None}]
    BY <1>1 DEF RunInv, AnswersInv
  <2>2. ASSUME NEW k \in Keys, inFlight'[k] # None PROVE Is(inFlight[k], k[1], k[2], k[3])'
    <3>1. inFlight'[k] = inFlight[k] /\ inFlight[k] # t
      BY <1>1, <2>2
    <3>2. inFlight[k] \in Tasks /\ Is(inFlight[k], k[1], k[2], k[3])
      BY <2>2, <3>1 DEF RunInv, AnswersInv
    <3>. QED
      BY <3>1, <3>2, <1>3 DEF Is
  <2>. QED
    BY <2>1, <2>2
<1>7. asker' \in [Askers -> AskerType] /\ \A c \in Askers : AskerOK(c)'
  <2>1. Quiet \in AskerType
    <3>1. << >> \in Seq(Askable)
      OBVIOUS
    <3>. QED
      BY <3>1 DEF Quiet, AskerType, Scopes
  <2>2. ASSUME NEW c \in Askers PROVE asker'[c] \in AskerType /\ AskerOK(c)'
    <3>. DEFINE a == asker[c]
                on == a.on \ {t}
                b == [a EXCEPT !.on = on]
    <3>1. a \in AskerType /\ AskerOK(c)
      BY DEF RunInv, AnswersInv
    <3>2. CASE asker'[c] = Quiet
      BY <2>1, <3>2 DEF AskerOK, Quiet
    <3>3. CASE asker'[c] = b
      <4>1. on \in SUBSET Tasks
        BY <3>1 DEF AskerType
      <4>2. \A u \in on : \E kind \in a.wants :
              task'[u].kind = kind /\ task'[u].scope = a.scope /\ task'[u].lang = a.lang
        BY <3>1, <1>3 DEF AskerOK, AskerType, Is
      <4>3. a.at = "idle" => on = {}
        BY <3>1 DEF AskerOK
      <4>. HIDE DEF on
      <4>4. /\ b \in AskerType /\ b.at = a.at /\ b.kinds = a.kinds /\ b.on = on
            /\ b.scope = a.scope /\ b.lang = a.lang /\ b.wants = a.wants
        BY <3>1, <4>1 DEF AskerType
      <4>. HIDE DEF b
      <4>. QED
        BY <3>1, <3>3, <4>2, <4>3, <4>4 DEF AskerOK, Is
    <3>4. CASE asker'[c] = a /\ t \notin a.on
      <4>1. \A u \in a.on : u # t /\ u \in Tasks
        BY <3>1, <3>4 DEF AskerType
      <4>2. \A u \in a.on : \E kind \in a.wants :
              task'[u].kind = kind /\ task'[u].scope = a.scope /\ task'[u].lang = a.lang
        BY <3>1, <4>1, <1>3 DEF AskerOK, Is
      <4>. QED
        BY <3>1, <3>4, <4>2 DEF AskerOK, Is
    <3>. QED
      BY <3>2, <3>3, <3>4, <1>1 DEF Answered
  <2>. QED
    BY <2>2, <1>1
<1>. QED
  BY <1>1, <1>4, <1>5, <1>6, <1>7 DEF RunInv, AnswersInv, NetworkOK

LEMMA CalmFacts ==
  ASSUME NEW r \in RunType, Sound(r), NEW b \in BOOLEAN
  PROVE  LET q == [r EXCEPT !.calm = b] IN
         /\ q \in RunType /\ Sound(q) /\ q.kind = r.kind /\ q.scope = r.scope /\ q.lang = r.lang
         /\ q.pc = r.pc /\ q.on = r.on /\ q.i = r.i /\ q.seen = r.seen /\ q.due = r.due /\ q.plan = r.plan
         /\ q.doc = r.doc /\ q.verdict = r.verdict /\ q.from = r.from /\ q.calm = b
<1>. DEFINE q == [r EXCEPT !.calm = b]
<1>1. /\ q \in RunType /\ q.kind = r.kind /\ q.scope = r.scope /\ q.lang = r.lang
      /\ q.pc = r.pc /\ q.on = r.on /\ q.i = r.i /\ q.seen = r.seen /\ q.due = r.due /\ q.plan = r.plan
      /\ q.doc = r.doc /\ q.verdict = r.verdict /\ q.from = r.from /\ q.calm = b
  BY DEF RunType
<1>. HIDE DEF q
<1>2. Sound(q)
  BY <1>1 DEF Sound
<1>. QED
  BY <1>1, <1>2 DEF q

LEMMA RestlessKeeps ==
  ASSUME RunInv, task' \in [Tasks -> RunType], \A u \in Tasks : Sound(task'[u]),
         \A u \in Tasks : /\ Same(u)
                          /\ task'[u].pc = "wait" => task[u].pc = "wait"
                          /\ task[u].pc = "wait" => task'[u].on = task[u].on,
         level' \in [Watched -> Nat], UNCHANGED <<inFlight, asker, reports>>
  PROVE  RunInv'
<1>1. \A c \in Askers : AskerOK(c)'
  BY OthersKeep
<1>2. \A u \in Tasks : WaitOK(u)'
  <2>. TAKE u \in Tasks
  <2>1. SUFFICES ASSUME task'[u].pc = "wait"
        PROVE  task'[u].on \in Tasks /\ Is(task[u].on, "analysis", task[u].scope, task[u].lang)'
    BY DEF WaitOK
  <2>2. task[u].pc = "wait" /\ task'[u].on = task[u].on
    BY <2>1
  <2>3. task[u].on \in Tasks /\ Is(task[u].on, "analysis", task[u].scope, task[u].lang)
    BY <2>2 DEF RunInv, AnswersInv, WaitOK
  <2>4. task[u].kind # "none"
    BY <2>2 DEF RunInv, RunsOK, Sound, PcOf
  <2>5. Same(u) /\ Same(task[u].on)
    BY <2>3
  <2>. QED
    BY <2>2, <2>3, <2>4, <2>5 DEF Same, Is
<1>3. \A k \in Keys : inFlight'[k] # None => Is(inFlight[k], k[1], k[2], k[3])'
  <2>. TAKE k \in Keys
  <2>1. k[1] # "none"
    BY DEF Keys, Kinds
  <2>2. inFlight[k] # None => inFlight[k] \in Tasks /\ Is(inFlight[k], k[1], k[2], k[3])
    BY DEF RunInv, AnswersInv
  <2>. QED
    BY <2>1, <2>2 DEF Is, Same
<1>. QED
  BY <1>1, <1>2, <1>3 DEF RunInv, RunsOK, NetworkOK, AnswersInv

LEMMA StartHealthKeeps ==
  ASSUME RunInv, StartHealth, UNCHANGED <<inFlight, asker, reports>>
  PROVE  RunInv'
<1>. DEFINE alone == \A u \in Tasks : task[u].kind = "health" => ~Running(u)
            new == NewRun("health", None, None, "check")
            r == [new EXCEPT !.calm = alone]
<1>1. PICK t \in Free : task' = [u \in Tasks |-> IF u = t THEN r ELSE [task[u] EXCEPT !.calm = FALSE]]
  BY DEF StartHealth
<1>2. t \in Tasks /\ task[t].pc = "idle"
  BY DEF Free, At
<1>3. task[t].kind = "none"
  BY <1>2 DEF RunInv, RunsOK, Sound, PcOf, RunType, Kinds
<1>4. /\ new \in RunType /\ new.kind = "health" /\ new.pc = "check" /\ new.i = 1
  BY NewRunFacts DEF Kinds, Pcs, Scopes
<1>5. Sound(new)
  BY <1>4 DEF Sound, PcOf, Askable
<1>6. alone \in BOOLEAN
  OBVIOUS
<1>. HIDE DEF new, alone
<1>7. r \in RunType /\ Sound(r) /\ r.kind = "health" /\ r.pc = "check"
  BY <1>4, <1>5, <1>6, CalmFacts
<1>. HIDE DEF r
<1>8. \A u \in Tasks : u # t =>
        /\ task'[u] \in RunType /\ Sound(task'[u]) /\ Same(u)
        /\ task'[u].pc = task[u].pc /\ task'[u].on = task[u].on
  <2>. TAKE u \in Tasks
  <2>1. task[u] \in RunType /\ Sound(task[u]) /\ FALSE \in BOOLEAN
    BY DEF RunInv, RunsOK
  <2>. DEFINE q == task[u]
              x == [q EXCEPT !.calm = FALSE]
  <2>2. u # t => task'[u] = x
    BY <1>1
  <2>3. x \in RunType /\ Sound(x) /\ x.kind = q.kind /\ x.scope = q.scope /\ x.lang = q.lang
        /\ x.pc = q.pc /\ x.on = q.on
    <3>. HIDE DEF q
    <3>. QED
      BY <2>1, CalmFacts DEF q
  <2>. HIDE DEF x
  <2>. QED
    BY <2>2, <2>3 DEF Same
<1>9. task' \in [Tasks -> RunType] /\ task'[t] = r
  BY <1>1, <1>2, <1>7, <1>8
<1>10. level' \in [Watched -> Nat]
  BY DEF StartHealth, RunInv, NetworkOK
<1>. QED
  BY <1>2, <1>3, <1>7, <1>8, <1>9, <1>10, RestlessKeeps DEF Same

LEMMA NetworkChangesKeeps ==
  ASSUME RunInv, NetworkChanges, UNCHANGED <<inFlight, asker, reports>>
  PROVE  RunInv'
<1>1. level' \in [Watched -> Nat]
  <2>1. PICK s \in Watched : \E v \in Levels[s] : level' = [level EXCEPT ![s] = v]
    BY DEF NetworkChanges
  <2>2. Levels[s] \subseteq Nat
    BY NetworkAssumption DEF Watched, Sites
  <2>. QED
    BY <2>1, <2>2 DEF RunInv, NetworkOK
<1>2. task' = [u \in Tasks |-> [task[u] EXCEPT !.calm = FALSE]]
  BY DEF NetworkChanges
<1>3. \A u \in Tasks :
        /\ task'[u] \in RunType /\ Sound(task'[u]) /\ Same(u)
        /\ task'[u].pc = task[u].pc /\ task'[u].on = task[u].on
  <2>. TAKE u \in Tasks
  <2>1. task[u] \in RunType /\ Sound(task[u]) /\ FALSE \in BOOLEAN
    BY DEF RunInv, RunsOK
  <2>. DEFINE q == task[u]
              x == [q EXCEPT !.calm = FALSE]
  <2>2. task'[u] = x
    BY <1>2
  <2>3. x \in RunType /\ Sound(x) /\ x.kind = q.kind /\ x.scope = q.scope /\ x.lang = q.lang
        /\ x.pc = q.pc /\ x.on = q.on
    <3>. HIDE DEF q
    <3>. QED
      BY <2>1, CalmFacts DEF q
  <2>. HIDE DEF x
  <2>. QED
    BY <2>2, <2>3 DEF Same
<1>4. task' \in [Tasks -> RunType]
  BY <1>2, <1>3
<1>. QED
  BY <1>1, <1>3, <1>4, RestlessKeeps

LEMMA QuietFacts ==
  Quiet \in AskerType /\ Quiet.at = "idle" /\ Quiet.kinds = << >> /\ Quiet.on = {}
<1>1. << >> \in Seq(Askable)
  OBVIOUS
<1>. QED
  BY <1>1 DEF Quiet, AskerType, Scopes

LEMMA InitRuns ==
  ASSUME Init
  PROVE  RunInv
<1>1. level \in [Watched -> Nat]
  BY NetworkAssumption DEF Init, TaskInit, Watched, Sites
<1>2. RunsOK /\ \A t \in Tasks : WaitOK(t)
  BY IdleFacts DEF Init, TaskInit, RunsOK, WaitOK
<1>3. asker \in [Askers -> AskerType] /\ \A c \in Askers : AskerOK(c)
  BY QuietFacts DEF Init, AskerOK
<1>. QED
  BY <1>1, <1>2, <1>3 DEF Init, RunInv, NetworkOK, AnswersInv

LEMMA CrashKeeps ==
  ASSUME RunInv, Crash
  PROVE  RunInv'
<1>1. /\ task' = [t \in Tasks |-> IdleTask] /\ level' = level
      /\ inFlight' = [k \in Keys |-> None] /\ asker' = [c \in Askers |-> Quiet] /\ reports' = reports
  BY DEF Crash
<1>2. RunsOK' /\ (\A t \in Tasks : WaitOK(t)')
  BY <1>1, IdleFacts DEF RunsOK, WaitOK
<1>3. asker' \in [Askers -> AskerType] /\ \A c \in Askers : AskerOK(c)'
  BY <1>1, QuietFacts DEF AskerOK
<1>. QED
  BY <1>1, <1>2, <1>3 DEF RunInv, NetworkOK, AnswersInv

-----------------------------------------------------------------------------
(* The collections.                                                           *)

RecType0 == [action : Actions, area : Areas, zone : Scopes, site : Sites \cup {None},
             priority : Priorities, why : Why, status : {"PENDING", "APPROVED", "DISMISSED"},
             old : BOOLEAN, nth : Nat, looked : Nat]
RecDoc == {r \in RecType0 : SafeProposal(r)}

StoreInv ==
  /\ alerts \in Seq(AlertDoc) /\ anomalies \in Seq(AnomalyDoc)
  /\ recs \in SUBSET RecDoc /\ IsFiniteSet(recs)
  /\ spent \in 0..MaxSpent

LEMMA AlikeFacts ==
  ASSUME StoreInv, NEW r
  PROVE  IsFiniteSet(Alike(r)) /\ Cardinality(Alike(r)) \in Nat /\ Alike(r) \subseteq recs
<1>1. Alike(r) \in SUBSET recs
  BY DEF Alike
<1>2. IsFiniteSet(Alike(r))
  BY <1>1, FS_Subset DEF StoreInv
<1>. QED
  BY <1>1, <1>2, FS_CardinalityType

LEMMA SpendKeeps ==
  ASSUME StoreInv, NEW n \in Nat, Spend(n)
  PROVE  spent' \in 0..MaxSpent
BY MaxSpentAssumption DEF StoreInv, Spend

LEMMA HearsKeeps ==
  ASSUME StoreInv, NEW t \in Tasks, NEW who \in {"room", "manager", "admin"}, Hears(t, who)
  PROVE  /\ alerts' \in Seq(AlertDoc) /\ Len(alerts') = Len(alerts)
         /\ \A j \in 1..Len(alerts) :
              /\ alerts'[j].about = alerts[j].about /\ alerts'[j].of = alerts[j].of
              /\ alerts'[j].zone = alerts[j].zone /\ alerts'[j].active = alerts[j].active
              /\ alerts'[j].dropped = alerts[j].dropped
              /\ alerts'[j].told = alerts[j].told \cup (IF j = task[t].doc THEN {who} ELSE {})
<1>. DEFINE d == task[t].doc
            a == alerts[d]
            told == a.told \cup {who}
            b == [a EXCEPT !.told = told]
<1>1. alerts \in Seq(AlertDoc)
  BY DEF StoreInv
<1>2. alerts' = [alerts EXCEPT ![d] = b]
  BY DEF Hears
<1>3. CASE d \in 1..Len(alerts)
  <2>1. a \in AlertDoc
    BY <1>1, <1>3
  <2>2. told \in SUBSET {"room", "manager", "admin"}
    BY <2>1 DEF AlertDoc
  <2>. HIDE DEF told
  <2>3. /\ b \in AlertDoc /\ b.about = a.about /\ b.of = a.of /\ b.zone = a.zone
        /\ b.active = a.active /\ b.dropped = a.dropped /\ b.told = told
    BY <2>1, <2>2 DEF AlertDoc
  <2>. HIDE DEF b
  <2>4. /\ alerts' \in Seq(AlertDoc) /\ Len(alerts') = Len(alerts) /\ alerts'[d] = b
        /\ \A j \in 1..Len(alerts) : j # d => alerts'[j] = alerts[j]
    BY <1>1, <1>2, <1>3, <2>3
  <2>. QED
    BY <2>3, <2>4 DEF told
<1>4. CASE d \notin 1..Len(alerts)
  <2>1. alerts' = alerts
    BY <1>1, <1>2, <1>4
  <2>. QED
    BY <1>1, <1>4, <2>1
<1>. QED
  BY <1>3, <1>4

LEMMA ResolveKeeps ==
  ASSUME StoreInv, NEW s, Resolve(s)
  PROVE  /\ alerts' \in Seq(AlertDoc) /\ Len(alerts') = Len(alerts)
         /\ \A j \in 1..Len(alerts) :
              /\ alerts'[j].about = alerts[j].about /\ alerts'[j].of = alerts[j].of
              /\ alerts'[j].zone = alerts[j].zone /\ alerts'[j].told = alerts[j].told
              /\ alerts'[j].dropped = alerts[j].dropped
              /\ alerts'[j].active <=>
                   (alerts[j].active /\ ~(alerts[j].about = "level" /\ alerts[j].of = s))
<1>. DEFINE off(j) == [alerts[j] EXCEPT !.active = FALSE]
            b(j) == IF j \in ActiveAlerts("level", s) THEN off(j) ELSE alerts[j]
<1>1. alerts \in Seq(AlertDoc)
  BY DEF StoreInv
<1>2. alerts' = [j \in 1..Len(alerts) |-> b(j)]
  BY <1>1 DEF Resolve
<1>3. \A j \in 1..Len(alerts) :
        /\ b(j) \in AlertDoc /\ b(j).about = alerts[j].about /\ b(j).of = alerts[j].of
        /\ b(j).zone = alerts[j].zone /\ b(j).told = alerts[j].told
        /\ b(j).dropped = alerts[j].dropped
        /\ b(j).active <=> (alerts[j].active /\ ~(alerts[j].about = "level" /\ alerts[j].of = s))
  <2>. TAKE j \in 1..Len(alerts)
  <2>1. alerts[j] \in AlertDoc /\ DOMAIN alerts = 1..Len(alerts)
    BY <1>1
  <2>2. /\ off(j) \in AlertDoc /\ off(j).about = alerts[j].about /\ off(j).of = alerts[j].of
        /\ off(j).zone = alerts[j].zone /\ off(j).told = alerts[j].told
        /\ off(j).dropped = alerts[j].dropped /\ ~off(j).active
    BY <2>1 DEF AlertDoc
  <2>3. j \in ActiveAlerts("level", s) <=>
          (alerts[j].active /\ alerts[j].about = "level" /\ alerts[j].of = s)
    BY <2>1 DEF ActiveAlerts
  <2>. HIDE DEF off
  <2>. QED
    BY <2>1, <2>2, <2>3
<1>. HIDE DEF b
<1>4. Len(alerts) \in Nat
  BY <1>1
<1>. QED
  BY <1>2, <1>3, <1>4

LEMMA DropKeeps ==
  ASSUME StoreInv, NEW runs, DropNotices(runs)
  PROVE  /\ alerts' \in Seq(AlertDoc) /\ Len(alerts') = Len(alerts)
         /\ \A j \in 1..Len(alerts) :
              /\ alerts'[j].about = alerts[j].about /\ alerts'[j].of = alerts[j].of
              /\ alerts'[j].zone = alerts[j].zone /\ alerts'[j].told = alerts[j].told
              /\ alerts'[j].active = alerts[j].active
              /\ alerts[j].dropped => alerts'[j].dropped
              /\ (\E t \in runs : Telling(t) /\ task[t].doc = j) => alerts'[j].dropped
<1>. DEFINE on(j) == [alerts[j] EXCEPT !.dropped = TRUE]
            hit(j) == \E t \in runs : Telling(t) /\ task[t].doc = j
            b(j) == IF hit(j) THEN on(j) ELSE alerts[j]
<1>1. alerts \in Seq(AlertDoc)
  BY DEF StoreInv
<1>2. alerts' = [j \in 1..Len(alerts) |-> b(j)]
  BY <1>1 DEF DropNotices
<1>. HIDE DEF hit
<1>3. \A j \in 1..Len(alerts) :
        /\ b(j) \in AlertDoc /\ b(j).about = alerts[j].about /\ b(j).of = alerts[j].of
        /\ b(j).zone = alerts[j].zone /\ b(j).told = alerts[j].told
        /\ b(j).active = alerts[j].active
        /\ alerts[j].dropped => b(j).dropped
        /\ hit(j) => b(j).dropped
  <2>. TAKE j \in 1..Len(alerts)
  <2>1. alerts[j] \in AlertDoc
    BY <1>1
  <2>2. /\ on(j) \in AlertDoc /\ on(j).about = alerts[j].about /\ on(j).of = alerts[j].of
        /\ on(j).zone = alerts[j].zone /\ on(j).told = alerts[j].told
        /\ on(j).active = alerts[j].active /\ on(j).dropped
    BY <2>1 DEF AlertDoc
  <2>. HIDE DEF on
  <2>. QED
    BY <2>1, <2>2
<1>. HIDE DEF b
<1>4. Len(alerts) \in Nat
  BY <1>1
<1>5. /\ alerts' \in Seq(AlertDoc) /\ Len(alerts') = Len(alerts)
      /\ \A j \in 1..Len(alerts) : alerts'[j] = b(j)
  BY <1>2, <1>3, <1>4
<1>. QED
  BY <1>3, <1>5 DEF hit

LEMMA RaisedKeeps ==
  ASSUME RunInv, StoreInv, NEW t \in Tasks, CreateAlert(t)
  PROVE  LET a == Head(task[t].due) IN
         /\ a \in AlertDue /\ alerts' \in Seq(AlertDoc) /\ Len(alerts') = Len(alerts) + 1
         /\ \A j \in 1..Len(alerts) : alerts'[j] = alerts[j]
         /\ alerts'[Len(alerts) + 1] = [about |-> a.about, of |-> a.of, zone |-> a.zone,
                                        active |-> TRUE, told |-> {"room"}, dropped |-> FALSE]
<1>. DEFINE a == Head(task[t].due)
            b == [about |-> a.about, of |-> a.of, zone |-> a.zone,
                  active |-> TRUE, told |-> {"room"}, dropped |-> FALSE]
<1>1. task[t] \in RunType /\ Sound(task[t]) /\ task[t].pc = "create"
  BY DEF RunInv, RunsOK, CreateAlert, At
<1>2. task[t].due \in Seq(AlertDue) /\ task[t].due # << >>
  BY <1>1 DEF RunType, Sound
<1>3. a \in AlertDue
  BY <1>2
<1>4. b \in AlertDoc
  BY <1>3 DEF AlertDue, AlertDoc
<1>5. alerts' = Append(alerts, b)
  BY DEF CreateAlert
<1>. HIDE DEF a, b
<1>6. alerts \in Seq(AlertDoc)
  BY DEF StoreInv
<1>7. /\ alerts' \in Seq(AlertDoc) /\ Len(alerts') = Len(alerts) + 1
      /\ \A j \in 1..Len(alerts) : alerts'[j] = alerts[j]
      /\ alerts'[Len(alerts) + 1] = b
  BY <1>4, <1>5, <1>6
<1>. QED
  BY <1>3, <1>7 DEF a, b

LEMMA AddedKeeps ==
  ASSUME RunInv, StoreInv, NEW t \in Tasks, CreateRecommendation(t)
  PROVE  LET p == Head(task[t].plan)
             n == Cardinality(Alike(p))
             r == [action |-> p.action, area |-> p.area, zone |-> p.zone, site |-> p.site,
                   priority |-> p.priority, why |-> p.why, status |-> "PENDING", old |-> FALSE,
                   nth |-> n, looked |-> task[t].doc] IN
         /\ p \in Sensible /\ n \in Nat /\ r \in RecDoc
         /\ recs' = recs \cup {r} /\ recs' \in SUBSET RecDoc /\ IsFiniteSet(recs')
<1>. DEFINE p == Head(task[t].plan)
            n == Cardinality(Alike(p))
            d == task[t].doc
            r == [action |-> p.action, area |-> p.area, zone |-> p.zone, site |-> p.site,
                  priority |-> p.priority, why |-> p.why, status |-> "PENDING", old |-> FALSE,
                  nth |-> n, looked |-> d]
<1>1. task[t] \in RunType /\ Sound(task[t]) /\ task[t].pc = "add"
  BY DEF RunInv, RunsOK, CreateRecommendation, At
<1>2. task[t].plan \in Seq(Sensible) /\ task[t].plan # << >> /\ d \in Nat
  BY <1>1 DEF RunType, Sound
<1>3. p \in Sensible
  BY <1>2
<1>4. n \in Nat
  BY AlikeFacts
<1>5. recs' = recs \cup {r}
  BY DEF CreateRecommendation
<1>. HIDE DEF p, n, d
<1>6. r \in RecType0
  BY <1>2, <1>3, <1>4 DEF RecType0, Sensible, ProposalType
<1>7. r.action = p.action /\ r.why = p.why
  OBVIOUS
<1>. HIDE DEF r
<1>8. r \in RecDoc
  BY <1>3, <1>6, <1>7 DEF RecDoc, Sensible, SafeProposal
<1>9. recs' \in SUBSET RecDoc /\ IsFiniteSet(recs')
  BY <1>5, <1>8, FS_AddElement DEF StoreInv
<1>. QED
  BY <1>3, <1>4, <1>5, <1>8, <1>9 DEF p, n, d, r

LEMMA ReviewedRec ==
  ASSUME NEW r \in RecDoc, NEW s \in {"APPROVED", "DISMISSED"}
  PROVE  LET q == [r EXCEPT !.status = s] IN
         /\ q \in RecDoc /\ q.status = s /\ q.action = r.action /\ q.area = r.area
         /\ q.old = r.old /\ q.nth = r.nth /\ q.looked = r.looked
<1>. DEFINE q == [r EXCEPT !.status = s]
<1>1. /\ q \in RecType0 /\ q.status = s /\ q.action = r.action /\ q.area = r.area
      /\ q.old = r.old /\ q.nth = r.nth /\ q.looked = r.looked /\ q.why = r.why
  BY DEF RecDoc, RecType0
<1>. HIDE DEF q
<1>2. q \in RecDoc
  BY <1>1 DEF RecDoc, SafeProposal
<1>. QED
  BY <1>1, <1>2 DEF q

LEMMA ReviewKeeps ==
  ASSUME StoreInv, ReviewRecommendation
  PROVE  recs' \in SUBSET RecDoc /\ IsFiniteSet(recs') /\ spent' \in 0..MaxSpent
<1>1. PICK r \in recs, s \in {"APPROVED", "DISMISSED"} :
        recs' = (recs \ {r}) \cup {[r EXCEPT !.status = s]}
  BY DEF ReviewRecommendation
<1>. DEFINE q == [r EXCEPT !.status = s]
<1>2. q \in RecDoc
  BY ReviewedRec DEF StoreInv
<1>3. recs \ {r} \in SUBSET recs /\ recs' = (recs \ {r}) \cup {q}
  BY <1>1
<1>. HIDE DEF q
<1>4. IsFiniteSet(recs')
  BY <1>3, FS_Subset, FS_AddElement DEF StoreInv
<1>5. spent' \in 0..MaxSpent
  BY SpendKeeps DEF ReviewRecommendation
<1>. QED
  BY <1>2, <1>3, <1>4, <1>5 DEF StoreInv

LEMMA AgedRec ==
  ASSUME NEW r \in RecDoc
  PROVE  LET q == [r EXCEPT !.old = TRUE] IN
         /\ q \in RecDoc /\ q.status = r.status /\ q.action = r.action /\ q.area = r.area
         /\ q.old /\ q.nth = r.nth /\ q.looked = r.looked
<1>. DEFINE q == [r EXCEPT !.old = TRUE]
<1>1. /\ q \in RecType0 /\ q.status = r.status /\ q.action = r.action /\ q.area = r.area
      /\ q.old /\ q.nth = r.nth /\ q.looked = r.looked /\ q.why = r.why
  BY DEF RecDoc, RecType0
<1>. HIDE DEF q
<1>2. q \in RecDoc
  BY <1>1 DEF RecDoc, SafeProposal
<1>. QED
  BY <1>1, <1>2 DEF q

LEMMA AgesKeep ==
  ASSUME StoreInv, TwelveHoursGoBy
  PROVE  recs' \in SUBSET RecDoc /\ IsFiniteSet(recs') /\ spent' \in 0..MaxSpent
<1>. DEFINE aged(r) == [r EXCEPT !.old = TRUE]
            f == [r \in recs |-> aged(r)]
<1>1. recs' = {aged(r) : r \in recs}
  BY DEF TwelveHoursGoBy
<1>2. \A r \in recs : aged(r) \in RecDoc
  BY AgedRec DEF StoreInv
<1>. HIDE DEF aged
<1>3. f \in Surjection(recs, recs')
  BY <1>1 DEF Surjection
<1>. HIDE DEF f
<1>4. IsFiniteSet(recs')
  BY <1>3, FS_Surjection DEF StoreInv
<1>5. spent' \in 0..MaxSpent
  BY SpendKeeps DEF TwelveHoursGoBy
<1>. QED
  BY <1>1, <1>2, <1>4, <1>5

\* One anomaly gets another status.
LEMMA MarkKeeps ==
  ASSUME StoreInv, NEW j \in DOMAIN anomalies, NEW s \in Reviewed \cup {"DETECTED", "NORMAL"},
         anomalies' = [anomalies EXCEPT ![j].status = s]
  PROVE  /\ anomalies' \in Seq(AnomalyDoc) /\ DOMAIN anomalies' = DOMAIN anomalies
         /\ \A k \in DOMAIN anomalies :
              /\ anomalies'[k].of = anomalies[k].of /\ anomalies'[k].type = anomalies[k].type
              /\ anomalies'[k].status = IF k = j THEN s ELSE anomalies[k].status
<1>. DEFINE a == anomalies[j]
            b == [a EXCEPT !.status = s]
<1>1. anomalies \in Seq(AnomalyDoc) /\ DOMAIN anomalies = 1..Len(anomalies)
  BY DEF StoreInv
<1>2. a \in AnomalyDoc
  BY <1>1
<1>3. b \in AnomalyDoc /\ b.of = a.of /\ b.type = a.type /\ b.status = s
  BY <1>2 DEF AnomalyDoc
<1>4. anomalies' = [anomalies EXCEPT ![j] = b]
  OBVIOUS
<1>. HIDE DEF b
<1>. QED
  BY <1>1, <1>3, <1>4

LEMMA InsertKeeps ==
  ASSUME RunInv, StoreInv, NEW t \in Tasks, InsertAnomaly(t)
  PROVE  LET v == task[t].verdict IN
         /\ v \in VerdictType /\ anomalies' \in Seq(AnomalyDoc)
         /\ \/ anomalies' = anomalies
            \/ /\ v.status = "DETECTED" => Detected(v) = {}
               /\ anomalies' = Append(anomalies, [of |-> v.of, type |-> v.type, status |-> v.status])
<1>. DEFINE v == task[t].verdict
            a == [of |-> v.of, type |-> v.type, status |-> v.status]
<1>1. v \in VerdictType
  BY DEF RunInv, RunsOK, InsertAnomaly, At, Sound
<1>2. a \in AnomalyDoc
  BY <1>1 DEF VerdictType, AnomalyDoc
<1>3. \/ anomalies' = anomalies
      \/ (v.status = "DETECTED" => Detected(v) = {}) /\ anomalies' = Append(anomalies, a)
  BY DEF InsertAnomaly
<1>. HIDE DEF a
<1>4. anomalies' \in Seq(AnomalyDoc)
  BY <1>2, <1>3 DEF StoreInv
<1>. QED
  BY <1>1, <1>3, <1>4 DEF a

LEMMA MatchKeeps ==
  ASSUME RunInv, StoreInv, NEW t \in Tasks, MatchAnomaly(t)
  PROVE  LET v == task[t].verdict IN
         /\ v \in VerdictType /\ anomalies' \in Seq(AnomalyDoc)
         /\ anomalies' = anomalies
            \/ \E j \in Detected(v) : anomalies' = [anomalies EXCEPT ![j].status = v.status]
<1>. DEFINE v == task[t].verdict
<1>1. v \in VerdictType
  BY DEF RunInv, RunsOK, MatchAnomaly, At, Sound
<1>2. anomalies' = anomalies \/ \E j \in Detected(v) : anomalies' = [anomalies EXCEPT ![j].status = v.status]
  BY DEF MatchAnomaly
<1>3. \A j \in Detected(v) : j \in DOMAIN anomalies
  BY DEF Detected, Matching
<1>4. v.status \in Reviewed \cup {"DETECTED", "NORMAL"}
  BY <1>1 DEF VerdictType
<1>. HIDE DEF v
<1>5. anomalies' \in Seq(AnomalyDoc)
  BY <1>2, <1>3, <1>4, MarkKeeps DEF StoreInv
<1>. QED
  BY <1>1, <1>2, <1>5 DEF v

LEMMA ReviewAnomalyKeeps ==
  ASSUME StoreInv, ReviewAnomaly
  PROVE  /\ spent' \in 0..MaxSpent /\ anomalies' \in Seq(AnomalyDoc)
         /\ \E j \in DOMAIN anomalies, s \in Reviewed : anomalies' = [anomalies EXCEPT ![j].status = s]
<1>1. PICK j \in DOMAIN anomalies, s \in Reviewed : anomalies' = [anomalies EXCEPT ![j].status = s]
  BY DEF ReviewAnomaly
<1>2. anomalies' \in Seq(AnomalyDoc)
  BY <1>1, MarkKeeps
<1>3. spent' \in 0..MaxSpent
  BY SpendKeeps DEF ReviewAnomaly
<1>. QED
  BY <1>1, <1>2, <1>3

SupervisorInv == RunInv /\ StoreInv

LEMMA InitOK ==
  ASSUME Init
  PROVE  SupervisorInv
<1>1. RunInv
  BY InitRuns
<1>2. << >> \in Seq(AlertDoc) /\ << >> \in Seq(AnomalyDoc)
  OBVIOUS
<1>3. spent \in 0..MaxSpent
  BY MaxSpentAssumption DEF Init, TaskInit
<1>. QED
  BY <1>1, <1>2, <1>3, FS_EmptySet DEF SupervisorInv, StoreInv, Init, AlertInit, RecInit, AnomalyInit

LEMMA StepRuns ==
  ASSUME SupervisorInv, NEW t \in Tasks, Step(t)
  PROVE  RunInv'
<1>. USE DEF SupervisorInv
<1>1. IsFiniteSet(recs) /\ Len(alerts) \in Nat
  BY DEF StoreInv
<1>2. CASE AnalysisStep(t) \/ AnalyzeComplaints(t)
  <2>1. UNCHANGED <<level, inFlight, asker, reports>>
    BY <1>2 DEF AnalysisStep, AnalyzeComplaints, Look, Predict, Plan, OnlyTask, ownVars
  <2>. QED
    BY <1>1, <1>2, <2>1, InnerKeeps DEF Inner
<1>3. CASE WriteReport(t)
  <2>1. UNCHANGED <<level, inFlight, asker>>
    BY <1>3 DEF WriteReport
  <2>. QED
    BY <1>1, <1>3, <2>1, InnerKeeps DEF Inner
<1>4. CASE (HealthStep(t) \/ RaiseStep(t)) /\ UNCHANGED <<recs, anomalies>> /\ UNCHANGED ownVars
  <2>1. UNCHANGED <<level, inFlight, asker, reports>>
    BY <1>4 DEF ownVars, HealthStep, CheckServices, ReadSites, WatchOne, RaiseStep, FindAlert,
                CreateAlert, TellManager, TellAdmins
  <2>. QED
    BY <1>1, <1>4, <2>1, InnerKeeps DEF Inner
<1>5. CASE IngestStep(t) /\ UNCHANGED <<alerts, anomalies>> /\ UNCHANGED ownVars
  <2>1. UNCHANGED <<level, inFlight, asker, reports>>
    BY <1>5 DEF ownVars, IngestStep, FindDuplicate, CreateRecommendation
  <2>. QED
    BY <1>1, <1>5, <2>1, InnerKeeps DEF Inner
<1>6. CASE DetectStep(t) /\ UNCHANGED alerts /\ UNCHANGED ownVars
  <2>1. UNCHANGED <<level, inFlight, asker, reports>>
    BY <1>6 DEF ownVars, DetectStep, ReadAll, Assess, AssessZone, MatchAnomaly, InsertAnomaly
  <2>. QED
    BY <1>1, <1>6, <2>1, InnerKeeps DEF Inner
<1>7. CASE JoinAnalysis(t)
  BY <1>7, JoinAnalysisKeeps
<1>8. CASE Settle(t)
  BY <1>8, SettleKeeps
<1>. QED
  BY <1>2, <1>3, <1>4, <1>5, <1>6, <1>7, <1>8 DEF Step, OwnStep

LEMMA StepStores ==
  ASSUME SupervisorInv, NEW t \in Tasks, Step(t)
  PROVE  StoreInv'
<1>. USE DEF SupervisorInv
<1>1. CASE OwnStep(t)
  <2>1. UNCHANGED <<alerts, recs, anomalies, spent>>
    BY <1>1 DEF OwnStep, JoinAnalysis, AnalysisStep, AnalyzeComplaints, Look, Predict, Plan, OnlyTask,
                storeVars, WriteReport, Settle
  <2>. QED
    BY <2>1 DEF StoreInv
<1>2. CASE (HealthStep(t) \/ RaiseStep(t)) /\ UNCHANGED <<recs, anomalies>> /\ UNCHANGED ownVars
  <2>1. UNCHANGED spent
    BY <1>2 DEF HealthStep, CheckServices, ReadSites, WatchOne, RaiseStep, FindAlert,
                CreateAlert, TellManager, TellAdmins
  <2>2. alerts' \in Seq(AlertDoc)
    <3>1. CASE WatchOne(t)
      <4>1. UNCHANGED alerts \/ Resolve(Watch[task[t].i])
        BY <3>1 DEF WatchOne
      <4>. QED
        BY <4>1, ResolveKeeps DEF StoreInv
    <3>2. CASE CheckServices(t) \/ ReadSites(t) \/ FindAlert(t)
      BY <3>2 DEF CheckServices, ReadSites, FindAlert, StoreInv
    <3>3. CASE CreateAlert(t)
      BY <3>3, RaisedKeeps
    <3>4. CASE TellManager(t) \/ TellAdmins(t)
      BY <3>4, HearsKeeps DEF TellManager, TellAdmins
    <3>. QED
      BY <1>2, <3>1, <3>2, <3>3, <3>4 DEF HealthStep, RaiseStep
  <2>. QED
    BY <1>2, <2>1, <2>2 DEF StoreInv
<1>3. CASE IngestStep(t) /\ UNCHANGED <<alerts, anomalies>> /\ UNCHANGED ownVars
  <2>1. recs' \in SUBSET RecDoc /\ IsFiniteSet(recs') /\ UNCHANGED spent
    <3>1. CASE FindDuplicate(t)
      BY <3>1 DEF FindDuplicate, StoreInv
    <3>2. CASE CreateRecommendation(t)
      BY <3>2, AddedKeeps DEF CreateRecommendation
    <3>. QED
      BY <1>3, <3>1, <3>2 DEF IngestStep
  <2>. QED
    BY <1>3, <2>1 DEF StoreInv
<1>4. CASE DetectStep(t) /\ UNCHANGED alerts /\ UNCHANGED ownVars
  <2>1. UNCHANGED <<spent, recs>>
    BY <1>4 DEF DetectStep, ReadAll, Assess, AssessZone, MatchAnomaly, InsertAnomaly
  <2>2. anomalies' \in Seq(AnomalyDoc)
    <3>1. CASE ReadAll(t) \/ Assess(t) \/ AssessZone(t)
      BY <3>1 DEF ReadAll, Assess, AssessZone, StoreInv
    <3>. QED
      BY <1>4, <3>1, MatchKeeps, InsertKeeps DEF DetectStep
  <2>. QED
    BY <1>4, <2>1, <2>2 DEF StoreInv
<1>. QED
  BY <1>1, <1>2, <1>3, <1>4 DEF Step

LEMMA AskSpends ==
  ASSUME StoreInv, NEW c \in Askers, Ask(c)
  PROVE  spent' \in 0..MaxSpent
<1>1. PICK r \in Requests[c] : Spend(Len(r.kinds))
  BY DEF Ask
<1>2. r.kinds \in Seq(Askable)
  BY RequestAssumption
<1>3. Len(r.kinds) \in Nat
  BY <1>2
<1>. QED
  BY <1>1, <1>3, SpendKeeps

LEMMA NextOK ==
  ASSUME SupervisorInv, [Next]_vars
  PROVE  SupervisorInv'
<1>1. ASSUME NEW t \in Tasks, Step(t) PROVE SupervisorInv'
  BY <1>1, StepRuns, StepStores DEF SupervisorInv
<1>2. ASSUME NEW c \in Askers, Call(c) PROVE SupervisorInv'
  BY <1>2, CallKeeps DEF SupervisorInv, StoreInv, Call, storeVars
<1>3. ASSUME NEW c \in Askers, Ask(c) PROVE SupervisorInv'
  BY <1>3, AskKeeps, AskSpends DEF SupervisorInv, StoreInv, Ask, storeVars
<1>4. CASE StartHealth /\ UNCHANGED <<recs, anomalies>> /\ UNCHANGED ownVars
  <2>1. RunInv'
    BY <1>4, StartHealthKeeps DEF SupervisorInv, ownVars
  <2>2. alerts' = alerts /\ spent' \in 0..MaxSpent
    <3>1. Spend(1) /\ alerts' = alerts
      BY <1>4 DEF StartHealth
    <3>. QED
      BY <3>1, SpendKeeps DEF SupervisorInv
  <2>. QED
    BY <1>4, <2>1, <2>2 DEF SupervisorInv, StoreInv
<1>5. CASE NetworkChanges /\ UNCHANGED alerts /\ UNCHANGED <<recs, anomalies>> /\ UNCHANGED ownVars
  <2>1. RunInv'
    BY <1>5, NetworkChangesKeeps DEF SupervisorInv, ownVars
  <2>2. spent' \in 0..MaxSpent
    <3>1. Spend(1)
      BY <1>5 DEF NetworkChanges
    <3>. QED
      BY <3>1, SpendKeeps DEF SupervisorInv
  <2>. QED
    BY <1>5, <2>1, <2>2 DEF SupervisorInv, StoreInv
<1>6. CASE (ReviewRecommendation \/ TwelveHoursGoBy) /\ UNCHANGED <<alerts, anomalies>> /\ UNCHANGED ownVars
  <2>1. UNCHANGED <<level, task, inFlight, asker, reports>>
    BY <1>6 DEF ReviewRecommendation, TwelveHoursGoBy, ownVars
  <2>2. RunInv'
    BY <2>1 DEF SupervisorInv, RunInv, RunsOK, NetworkOK, AnswersInv, AskerOK, WaitOK, Is
  <2>. QED
    BY <1>6, <2>2, ReviewKeeps, AgesKeep DEF SupervisorInv, StoreInv
<1>7. CASE ReviewAnomaly /\ UNCHANGED alerts /\ UNCHANGED ownVars
  <2>1. UNCHANGED <<level, task, inFlight, asker, reports, recs>>
    BY <1>7 DEF ReviewAnomaly, ownVars
  <2>2. RunInv'
    BY <2>1 DEF SupervisorInv, RunInv, RunsOK, NetworkOK, AnswersInv, AskerOK, WaitOK, Is
  <2>. QED
    BY <1>7, <2>1, <2>2, ReviewAnomalyKeeps DEF SupervisorInv, StoreInv
<1>8. ASSUME NEW t \in Tasks, Throws(t) PROVE SupervisorInv'
  <2>1. UNCHANGED <<level, inFlight, asker, reports, recs, anomalies>> /\ Spend(1) /\ DropNotices({t})
    BY <1>8 DEF Throws, ownVars
  <2>2. RunInv'
    BY <1>8, <2>1, InnerKeeps DEF SupervisorInv, StoreInv, Inner
  <2>. QED
    BY <2>1, <2>2, SpendKeeps, DropKeeps DEF SupervisorInv, StoreInv
<1>9. CASE Crash
  <2>1. UNCHANGED <<recs, anomalies>> /\ Spend(1) /\ DropNotices(Tasks)
    BY <1>9 DEF Crash
  <2>. QED
    BY <1>9, <2>1, CrashKeeps, SpendKeeps, DropKeeps DEF SupervisorInv, StoreInv
<1>10. CASE UNCHANGED vars
  BY <1>10 DEF vars, taskVars, storeVars, ownVars, SupervisorInv, StoreInv, RunInv, RunsOK, NetworkOK,
               AnswersInv, AskerOK, WaitOK, Is
<1>. QED
  BY <1>1, <1>2, <1>3, <1>4, <1>5, <1>6, <1>7, <1>8, <1>9, <1>10 DEF Next, Work

\* Whatever overlaps, fails or crashes: every run is at a point of its kind, and every key of
\* inFlight, every asker and every report refers to a run of the kind, scope and language
\* that was asked for; and what is stored has its type and came from sensible advice.
THEOREM SupervisorInvariant == Spec => []SupervisorInv
<1>1. Init => SupervisorInv
  BY InitOK
<1>2. SupervisorInv /\ [Next]_vars => SupervisorInv'
  BY NextOK
<1>. QED
  BY <1>1, <1>2, PTL DEF Spec

-----------------------------------------------------------------------------
(* What follows.                                                              *)

\* Every variable has its type: the runs, the collections, and who waits for what.
THEOREM SupervisorTypeCorrect == Spec => []TypeOK
<1>1. ASSUME SupervisorInv PROVE TypeOK
  <2>. USE <1>1 DEF SupervisorInv
  <2>1. TaskType
    <3>1. ASSUME NEW t \in Tasks
          PROVE  /\ task[t].pc \in Pcs /\ task[t].scope \in Scopes
                 /\ task[t].pc = "idle" <=> task[t].kind = "none"
                 /\ task[t].kind \in Kinds \cup {"none"} /\ task[t].hot \subseteq Nros
      <4>1. task[t] \in RunType /\ Sound(task[t])
        BY DEF RunInv, RunsOK
      <4>. QED
        BY <4>1 DEF RunType, Sound, PcOf, Kinds
    <3>. QED
      BY <3>1 DEF TaskType, RunInv, NetworkOK, StoreInv
  <2>2. AlertType
    <3>1. \A j \in DOMAIN alerts : alerts[j] \in AlertDoc
      BY DEF StoreInv
    <3>. QED
      BY <3>1 DEF AlertType, AlertDoc
  <2>3. RecType
    <3>1. \A r \in recs : r \in RecType0
      BY DEF StoreInv, RecDoc
    <3>. QED
      BY <3>1 DEF RecType, RecType0, Watched
  <2>4. AnomalyType
    <3>1. \A j \in DOMAIN anomalies : anomalies[j] \in AnomalyDoc
      BY DEF StoreInv
    <3>. QED
      BY <3>1 DEF AnomalyType, AnomalyDoc
  <2>. QED
    BY <2>1, <2>2, <2>3, <2>4 DEF TypeOK, RunInv, AnswersInv, AskerType, ReportType
<1>. QED
  BY <1>1, SupervisorInvariant, PTL

\* Nobody is given an answer to another question: whoever waits, waits for runs of the
\* kind, scope and language that were asked for, and a report is built on the analysis
\* of its own scope, however runs are shared, fail or are lost.
THEOREM AnswersAlwaysFit == Spec => []AnswersFit
<1>1. ASSUME SupervisorInv PROVE AnswersFit
  BY <1>1 DEF SupervisorInv, RunInv, AnswersInv, AskerOK, WaitOK, Is, AnswersFit, At
<1>. QED
  BY <1>1, SupervisorInvariant, PTL

\* No stored proposal makes matters worse, whatever the clusters, the loads and the
\* language model: what the planner weighs when it proposes is what was stored.
THEOREM PlansStaySafe == Spec => []PlansAreSafe
<1>1. ASSUME SupervisorInv PROVE PlansAreSafe
  BY <1>1 DEF SupervisorInv, StoreInv, RecDoc, SafeProposal, PlansAreSafe
<1>. QED
  BY <1>1, SupervisorInvariant, PTL

-----------------------------------------------------------------------------
(* Anomalies.                                                                 *)

\* Who writes to the anomalies.
LEMMA AnomalyWriters ==
  ASSUME SupervisorInv, [Next]_vars
  PROVE  \/ anomalies' = anomalies
         \/ \E t \in Tasks : MatchAnomaly(t) \/ InsertAnomaly(t)
         \/ ReviewAnomaly
<1>1. ASSUME NEW t \in Tasks, OwnStep(t) PROVE anomalies' = anomalies
  BY <1>1 DEF OwnStep, JoinAnalysis, AnalysisStep, AnalyzeComplaints, Look, Predict, Plan, OnlyTask,
              storeVars, WriteReport, Settle
<1>2. ASSUME NEW t \in Tasks, DetectStep(t)
      PROVE  anomalies' = anomalies \/ MatchAnomaly(t) \/ InsertAnomaly(t)
  BY <1>2 DEF DetectStep, ReadAll, Assess, AssessZone
<1>3. ASSUME NEW t \in Tasks, Throws(t) PROVE anomalies' = anomalies
  BY <1>3 DEF Throws
<1>4. ASSUME NEW c \in Askers, Call(c) \/ Ask(c) PROVE anomalies' = anomalies
  BY <1>4 DEF Call, Ask, storeVars
<1>5. Crash => anomalies' = anomalies
  BY DEF Crash
<1>. QED
  BY <1>1, <1>2, <1>3, <1>4, <1>5 DEF Next, Work, Step, vars, storeVars

LEMMA OneDetectedStep ==
  ASSUME SupervisorInv, OneDetected, [Next]_vars
  PROVE  OneDetected'
<1>. USE DEF SupervisorInv
<1>0. anomalies \in Seq(AnomalyDoc) /\ DOMAIN anomalies = 1..Len(anomalies) /\ Len(anomalies) \in Nat
  BY DEF StoreInv
<1>1. CASE anomalies' = anomalies
  BY <1>1 DEF OneDetected
<1>2. ASSUME NEW t \in Tasks, MatchAnomaly(t), anomalies' # anomalies PROVE OneDetected'
  <2>. DEFINE v == task[t].verdict
              s == v.status
  <2>1. v \in VerdictType
    BY <1>2, MatchKeeps
  <2>2. PICK j \in Detected(v) : anomalies' = [anomalies EXCEPT ![j].status = s]
    BY <1>2, MatchKeeps
  <2>3. j \in DOMAIN anomalies /\ anomalies[j].status = "DETECTED"
    BY DEF Detected, Matching
  <2>4. s \in Reviewed \cup {"DETECTED", "NORMAL"}
    BY <2>1 DEF VerdictType
  <2>. HIDE DEF v, s
  <2>5. /\ DOMAIN anomalies' = DOMAIN anomalies
        /\ \A k \in DOMAIN anomalies :
             /\ anomalies'[k].of = anomalies[k].of /\ anomalies'[k].type = anomalies[k].type
             /\ anomalies'[k].status = IF k = j THEN s ELSE anomalies[k].status
    BY <2>2, <2>3, <2>4, MarkKeeps
  <2>6. \A k \in DOMAIN anomalies : anomalies'[k].status = "DETECTED" => anomalies[k].status = "DETECTED"
    BY <2>3, <2>5
  <2>. QED
    BY <2>5, <2>6 DEF OneDetected
<1>3. ASSUME NEW t \in Tasks, InsertAnomaly(t), anomalies' # anomalies PROVE OneDetected'
  <2>. DEFINE v == task[t].verdict
              a == [of |-> v.of, type |-> v.type, status |-> v.status]
              n == Len(anomalies) + 1
  <2>1. (v.status = "DETECTED" => Detected(v) = {}) /\ anomalies' = Append(anomalies, a)
    BY <1>3, InsertKeeps
  <2>2. a.of = v.of /\ a.type = v.type /\ a.status = v.status
    OBVIOUS
  <2>3. a.status = "DETECTED" =>
          \A k \in DOMAIN anomalies :
            ~(anomalies[k].of = a.of /\ anomalies[k].type = a.type /\ anomalies[k].status = "DETECTED")
    BY <2>1, <2>2 DEF Detected, Matching
  <2>. HIDE DEF a
  <2>4. /\ DOMAIN anomalies' = DOMAIN anomalies \cup {n} /\ anomalies'[n] = a
        /\ \A k \in DOMAIN anomalies : anomalies'[k] = anomalies[k]
    BY <1>0, <2>1
  <2>. HIDE DEF n
  <2>. QED
    BY <2>3, <2>4 DEF OneDetected
<1>4. CASE ReviewAnomaly
  <2>1. PICK j \in DOMAIN anomalies, s \in Reviewed : anomalies' = [anomalies EXCEPT ![j].status = s]
    BY <1>4, ReviewAnomalyKeeps
  <2>2. s # "DETECTED"
    BY DEF Reviewed
  <2>3. /\ DOMAIN anomalies' = DOMAIN anomalies
        /\ \A k \in DOMAIN anomalies :
             /\ anomalies'[k].of = anomalies[k].of /\ anomalies'[k].type = anomalies[k].type
             /\ anomalies'[k].status = IF k = j THEN s ELSE anomalies[k].status
    BY <2>1, MarkKeeps
  <2>4. \A k \in DOMAIN anomalies : anomalies'[k].status = "DETECTED" => anomalies[k].status = "DETECTED"
    BY <2>2, <2>3
  <2>. QED
    BY <2>3, <2>4 DEF OneDetected
<1>. QED
  BY <1>1, <1>2, <1>3, <1>4, AnomalyWriters

\* However many runs detect it at once, and whoever reviews it meanwhile, an anomaly is
\* listed as DETECTED once: the unique index lets one of the inserts through.
THEOREM DetectedOnce == Spec => []OneDetected
<1>1. Init => OneDetected
  BY DEF Init, AnomalyInit, OneDetected
<1>2. SupervisorInv /\ OneDetected /\ [Next]_vars => OneDetected'
  BY OneDetectedStep
<1>. QED
  BY <1>1, <1>2, SupervisorInvariant, PTL DEF Spec

\* An anomaly that was reviewed stays reviewed: only those that are DETECTED are
\* found by their fingerprint and given another status.
THEOREM ReviewsAlwaysStand == Spec => ReviewsStand
<1>1. ASSUME SupervisorInv, [Next]_vars
      PROVE  [\A j \in DOMAIN anomalies :
               anomalies[j].status \in Reviewed => anomalies'[j].status \in Reviewed]_anomalies
  <2>. USE <1>1 DEF SupervisorInv
  <2>0. anomalies \in Seq(AnomalyDoc) /\ DOMAIN anomalies = 1..Len(anomalies) /\ Len(anomalies) \in Nat
    BY DEF StoreInv
  <2>1. ASSUME NEW t \in Tasks, MatchAnomaly(t), anomalies' # anomalies, NEW k \in DOMAIN anomalies,
               anomalies[k].status \in Reviewed
        PROVE  anomalies'[k].status \in Reviewed
    <3>. DEFINE v == task[t].verdict
    <3>1. PICK j \in Detected(v) : anomalies' = [anomalies EXCEPT ![j].status = v.status]
      BY <2>1, MatchKeeps
    <3>2. k # j
      BY <2>1 DEF Detected, Reviewed
    <3>. QED
      BY <2>0, <2>1, <3>1, <3>2
  <2>2. ASSUME NEW t \in Tasks, InsertAnomaly(t), anomalies' # anomalies, NEW k \in DOMAIN anomalies
        PROVE  anomalies'[k] = anomalies[k]
    <3>. DEFINE v == task[t].verdict
                a == [of |-> v.of, type |-> v.type, status |-> v.status]
    <3>1. anomalies' = Append(anomalies, a)
      BY <2>2, InsertKeeps
    <3>. HIDE DEF a
    <3>2. k \in 1..Len(anomalies)
      BY <2>0
    <3>3. \A j \in 1..Len(anomalies) : Append(anomalies, a)[j] = anomalies[j]
      BY <2>0
    <3>. QED
      BY <3>1, <3>2, <3>3
  <2>3. ASSUME ReviewAnomaly, NEW k \in DOMAIN anomalies, anomalies[k].status \in Reviewed
        PROVE  anomalies'[k].status \in Reviewed
    <3>1. PICK j \in DOMAIN anomalies, s \in Reviewed : anomalies' = [anomalies EXCEPT ![j].status = s]
      BY <2>3, ReviewAnomalyKeeps
    <3>2. anomalies'[k].status = IF k = j THEN s ELSE anomalies[k].status
      BY <3>1, MarkKeeps
    <3>. QED
      BY <2>3, <3>2
  <2>. QED
    BY <2>1, <2>2, <2>3, AnomalyWriters
<1>. QED
  BY <1>1, SupervisorInvariant, PTL DEF Spec, ReviewsStand

-----------------------------------------------------------------------------
(* What most steps leave alone: the runs between an alert and its notices,   *)
(* and those between their search for a duplicate and what they add.         *)

Critical == {"tellZone", "tellAdmin", "add"}
Focused(u) == task[u].pc \in Critical \/ task'[u].pc \in Critical =>
  task'[u].pc = task[u].pc /\ task'[u].doc = task[u].doc /\ task'[u].plan = task[u].plan

LEMMA Apart ==
  ASSUME RunsOK, NEW t \in Tasks, task[t].pc \notin Critical, NEW r, r.pc \notin Critical,
         task' = [task EXCEPT ![t] = r]
  PROVE  \A u \in Tasks : Focused(u)
BY DEF RunsOK, Focused

LEMMA HealthFocus ==
  ASSUME RunsOK, NEW t \in Tasks, HealthStep(t) \/ FindAlert(t)
  PROVE  \A u \in Tasks : Focused(u)
<1>. DEFINE q == task[t]
<1>1. q \in RunType /\ Sound(q)
  BY DEF RunsOK
<1>2. \A i : WatchPc(i) \in {"raise", "read", "watch"}
  BY DEF WatchPc
<1>3. CASE CheckServices(t)
  <2>. DEFINE seen == SeesNow(t, Services)
              r == [q EXCEPT !.seen = seen, !.pc = WatchPc(1)]
  <2>1. q.pc = "check" /\ task' = [task EXCEPT ![t] = r] /\ r.pc = WatchPc(1)
    BY <1>1, <1>3 DEF CheckServices, At, Set, RunType
  <2>. HIDE DEF r
  <2>. QED
    BY <2>1, <1>2, Apart DEF Critical
<1>4. CASE ReadSites(t)
  <2>. DEFINE seen == SeesNow(t, Sites)
              r == [q EXCEPT !.seen = seen, !.pc = "watch"]
  <2>1. q.pc = "read" /\ task' = [task EXCEPT ![t] = r] /\ r.pc = "watch"
    BY <1>1, <1>4 DEF ReadSites, At, Set, RunType
  <2>. HIDE DEF r
  <2>. QED
    BY <2>1, Apart DEF Critical
<1>5. CASE WatchOne(t)
  <2>. DEFINE i == q.i
              s == Watch[i]
              last == WatchPc(i + 1) = "raise"
              pc == WatchPc(i + 1)
              next == [q EXCEPT !.i = IF last THEN 1 ELSE i + 1, !.pc = pc,
                                !.seen = IF last THEN Unseen ELSE q.seen]
              due == Append(next.due, Alert("level", s, IF s \in Services THEN None ELSE ZoneOf[s]))
              more == [next EXCEPT !.due = due]
  <2>1. q.pc = "watch" /\ (task' = [task EXCEPT ![t] = next] \/ task' = [task EXCEPT ![t] = more])
    BY <1>5 DEF WatchOne, At, Set
  <2>2. next.pc = pc /\ more.pc = pc /\ pc \in {"raise", "read", "watch"}
    <3>1. pc \in {"raise", "read", "watch"}
      BY <1>2
    <3>. HIDE DEF pc, due, last, i
    <3>. QED
      BY <1>1, <3>1 DEF RunType
  <2>. HIDE DEF next, more, pc
  <2>. QED
    BY <2>1, <2>2, Apart DEF Critical
<1>6. CASE FindAlert(t)
  <2>. DEFINE after == AfterRaise[q.kind]
              r1 == [q EXCEPT !.pc = after]
              due == Tail(q.due)
              r2 == [q EXCEPT !.due = due]
              r3 == [q EXCEPT !.pc = "create"]
  <2>1. /\ q.pc = "raise"
        /\ \/ task' = [task EXCEPT ![t] = r1] \/ task' = [task EXCEPT ![t] = r2]
           \/ task' = [task EXCEPT ![t] = r3]
    BY <1>6 DEF FindAlert, At, Set
  <2>2. after \in {"done", "plan", "write"}
    BY <1>1, <2>1 DEF AfterRaise, Sound, PcOf, RunType, Kinds
  <2>. HIDE DEF after, due
  <2>3. r1.pc = after /\ r2.pc = "raise" /\ r3.pc = "create"
    BY <1>1, <2>1 DEF RunType
  <2>. HIDE DEF r1, r2, r3
  <2>. QED
    BY <2>1, <2>2, <2>3, Apart DEF Critical
<1>. QED
  BY <1>3, <1>4, <1>5, <1>6 DEF HealthStep

LEMMA DetectFocus ==
  ASSUME RunsOK, NEW t \in Tasks, DetectStep(t)
  PROVE  \A u \in Tasks : Focused(u)
<1>. DEFINE q == task[t]
<1>1. q \in RunType
  BY DEF RunsOK
<1>2. q.pc \notin Critical
  BY DEF DetectStep, ReadAll, Assess, AssessZone, MatchAnomaly, InsertAnomaly, At, Critical
<1>3. CASE Stored(t)
  <2>. DEFINE v == q.verdict
              pc == IF v.of \in Zones THEN "zones" ELSE "scan"
              i == q.i + 1
              plan == Append(q.plan, Recommend(v))
              r == [q EXCEPT !.pc = pc, !.i = i, !.verdict = None, !.plan = plan]
  <2>1. task' = [task EXCEPT ![t] = r] /\ pc \in {"zones", "scan"}
    BY <1>3 DEF Stored, Set
  <2>. HIDE DEF pc, i, plan
  <2>2. r.pc = pc
    BY <1>1 DEF RunType
  <2>. HIDE DEF r
  <2>. QED
    BY <1>2, <2>1, <2>2, Apart DEF Critical
<1>4. ASSUME NEW r, r.pc \notin Critical, Set(t, r) PROVE \A u \in Tasks : Focused(u)
  BY <1>2, <1>4, Apart DEF Set
<1>5. CASE ReadAll(t)
  <2>. DEFINE r == [q EXCEPT !.pc = "scan"]
  <2>1. Set(t, r) /\ r.pc = "scan"
    BY <1>1, <1>5 DEF ReadAll, RunType
  <2>. HIDE DEF r
  <2>. QED
    BY <2>1, <1>4 DEF Critical
<1>6. CASE Assess(t) \/ AssessZone(t)
  <2>1. \/ \E pc \in {"zones", "ingest"} : Set(t, [q EXCEPT !.pc = pc, !.i = 1])
        \/ \E i, v : Set(t, [q EXCEPT !.pc = "match", !.i = i, !.verdict = v])
    BY <1>6 DEF Assess, AssessZone
  <2>2. ASSUME NEW pc \in {"zones", "ingest"}, Set(t, [q EXCEPT !.pc = pc, !.i = 1])
        PROVE  \A u \in Tasks : Focused(u)
    <3>. DEFINE r == [q EXCEPT !.pc = pc, !.i = 1]
    <3>1. Set(t, r) /\ r.pc = pc
      BY <1>1, <2>2 DEF RunType
    <3>. HIDE DEF r
    <3>. QED
      BY <3>1, <1>4 DEF Critical
  <2>3. ASSUME NEW i, NEW v, Set(t, [q EXCEPT !.pc = "match", !.i = i, !.verdict = v])
        PROVE  \A u \in Tasks : Focused(u)
    <3>. DEFINE r == [q EXCEPT !.pc = "match", !.i = i, !.verdict = v]
    <3>1. Set(t, r) /\ r.pc = "match"
      BY <1>1, <2>3 DEF RunType
    <3>. HIDE DEF r
    <3>. QED
      BY <3>1, <1>4 DEF Critical
  <2>. QED
    BY <2>1, <2>2, <2>3
<1>7. CASE MatchAnomaly(t) \/ InsertAnomaly(t)
  <2>1. Stored(t) \/ \E pc \in {"insert", "failed"} : Set(t, [q EXCEPT !.pc = pc])
    BY <1>7 DEF MatchAnomaly, InsertAnomaly
  <2>2. ASSUME NEW pc \in {"insert", "failed"}, Set(t, [q EXCEPT !.pc = pc])
        PROVE  \A u \in Tasks : Focused(u)
    <3>. DEFINE r == [q EXCEPT !.pc = pc]
    <3>1. Set(t, r) /\ r.pc = pc
      BY <1>1, <2>2 DEF RunType
    <3>. HIDE DEF r
    <3>. QED
      BY <3>1, <1>4 DEF Critical
  <2>. QED
    BY <2>1, <2>2, <1>3
<1>. QED
  BY <1>5, <1>6, <1>7 DEF DetectStep

LEMMA AnalysisFocus ==
  ASSUME RunsOK, NEW t \in Tasks, AnalysisStep(t) \/ AnalyzeComplaints(t) \/ WriteReport(t)
  PROVE  \A u \in Tasks : Focused(u)
<1>. DEFINE q == task[t]
<1>1. q \in RunType
  BY DEF RunsOK
<1>2. q.pc \notin Critical
  BY DEF AnalysisStep, Look, Predict, Plan, AnalyzeComplaints, WriteReport, At, Critical
<1>3. ASSUME NEW r, r.pc \notin Critical, Set(t, r) PROVE \A u \in Tasks : Focused(u)
  BY <1>2, <1>3, Apart DEF Set
<1>4. CASE Look(t)
  <2>1. PICK seen, plan : Set(t, [q EXCEPT !.seen = seen, !.plan = plan, !.pc = "predict"])
    BY <1>4 DEF Look
  <2>. DEFINE r == [q EXCEPT !.seen = seen, !.plan = plan, !.pc = "predict"]
  <2>2. Set(t, r) /\ r.pc = "predict"
    BY <1>1, <2>1 DEF RunType
  <2>. HIDE DEF r
  <2>. QED
    BY <2>2, <1>3 DEF Critical
<1>5. CASE Predict(t)
  <2>. DEFINE Due(sure) == [i \in DOMAIN SetToSeq(sure) |->
                              Alert("predicted", SetToSeq(sure)[i], ZoneOf[SetToSeq(sure)[i]])]
  <2>0. PICK hot \in SUBSET Predictable(t) : \E sure \in SUBSET hot :
          task' = [task EXCEPT ![t] = [q EXCEPT !.hot = hot, !.pc = IF sure = {} THEN "plan" ELSE "raise",
                                                !.due = Due(sure)]]
    BY <1>5 DEF Predict, Set
  <2>1. PICK sure \in SUBSET hot :
          task' = [task EXCEPT ![t] = [q EXCEPT !.hot = hot, !.pc = IF sure = {} THEN "plan" ELSE "raise",
                                                !.due = Due(sure)]]
    BY <2>0
  <2>. DEFINE pc == IF sure = {} THEN "plan" ELSE "raise"
              due == Due(sure)
              r == [q EXCEPT !.hot = hot, !.pc = pc, !.due = due]
  <2>2. task' = [task EXCEPT ![t] = r] /\ pc \in {"plan", "raise"}
    BY <2>1
  <2>. HIDE DEF pc, due
  <2>3. r.pc = pc
    BY <1>1 DEF RunType
  <2>. HIDE DEF r
  <2>. QED
    BY <2>2, <2>3, <1>3 DEF Critical, Set
<1>6. CASE Plan(t)
  <2>1. \/ Set(t, [q EXCEPT !.pc = "ingest", !.i = 1, !.seen = Unseen, !.hot = {}])
        \/ q.pc = "plan" /\ \E i, plan : Set(t, [q EXCEPT !.i = i, !.plan = plan])
    BY <1>6 DEF Plan, At
  <2>2. ASSUME Set(t, [q EXCEPT !.pc = "ingest", !.i = 1, !.seen = Unseen, !.hot = {}])
        PROVE  \A u \in Tasks : Focused(u)
    <3>. DEFINE r == [q EXCEPT !.pc = "ingest", !.i = 1, !.seen = Unseen, !.hot = {}]
    <3>1. Set(t, r) /\ r.pc = "ingest"
      BY <1>1, <2>2 DEF RunType
    <3>. HIDE DEF r
    <3>. QED
      BY <3>1, <1>3 DEF Critical
  <2>3. ASSUME NEW i, NEW plan, q.pc = "plan", Set(t, [q EXCEPT !.i = i, !.plan = plan])
        PROVE  \A u \in Tasks : Focused(u)
    <3>. DEFINE r == [q EXCEPT !.i = i, !.plan = plan]
    <3>1. Set(t, r) /\ r.pc = "plan"
      BY <1>1, <2>3 DEF RunType
    <3>. HIDE DEF r
    <3>. QED
      BY <3>1, <1>3 DEF Critical
  <2>. QED
    BY <2>1, <2>2, <2>3
<1>7. CASE AnalyzeComplaints(t)
  <2>1. PICK plan, due : Set(t, [q EXCEPT !.plan = plan, !.pc = "ingest", !.due = due])
    BY <1>7 DEF AnalyzeComplaints
  <2>. DEFINE r == [q EXCEPT !.plan = plan, !.pc = "ingest", !.due = due]
  <2>2. Set(t, r) /\ r.pc = "ingest"
    BY <1>1, <2>1 DEF RunType
  <2>. HIDE DEF r
  <2>. QED
    BY <2>2, <1>3 DEF Critical
<1>8. CASE WriteReport(t)
  <2>. DEFINE r == [q EXCEPT !.pc = "done"]
  <2>1. Set(t, r) /\ r.pc = "done"
    BY <1>1, <1>8 DEF RunType, WriteReport
  <2>. HIDE DEF r
  <2>. QED
    BY <2>1, <1>3 DEF Critical
<1>. QED
  BY <1>4, <1>5, <1>6, <1>7, <1>8 DEF AnalysisStep

LEMMA SharingFocus ==
  ASSUME RunInv, NEW c \in Askers, Call(c)
  PROVE  \A u \in Tasks : Focused(u)
<1>. DEFINE kind == Head(asker[c].kinds)
<1>1. FirstPc[kind] \notin Critical
  <2>1. kind \in Askable
    BY CallRun
  <2>. QED
    BY <2>1 DEF Askable, FirstPc, Critical
<1>2. PICK t \in Tasks, r \in RunType :
        /\ Sound(r) /\ r.kind = kind /\ r.scope = asker[c].scope /\ r.lang = asker[c].lang
        /\ r = task[t] \/ (task[t].pc = "idle" /\ task[t].kind = "none" /\ r.pc = FirstPc[kind])
        /\ inFlight' \in [Keys -> Tasks \cup {None}]
        /\ inFlight' = [inFlight EXCEPT ![<<kind, asker[c].scope, asker[c].lang>>] = t]
        /\ task' = [task EXCEPT ![t] = r]
        /\ asker' = [asker EXCEPT ![c].kinds = Tail(asker[c].kinds), ![c].on = asker[c].on \cup {t}]
  BY CallRun
<1>. QED
  BY <1>1, <1>2 DEF RunInv, RunsOK, Focused, Critical

LEMMA JoinFocus ==
  ASSUME RunInv, NEW t \in Tasks, JoinAnalysis(t)
  PROVE  \A u \in Tasks : Focused(u)
<1>. DEFINE q == task[t]
<1>1. q \in RunType /\ q.pc = "join"
  BY JoinRun
<1>2. PICK u \in Tasks, a \in RunType :
        /\ Sound(a) /\ a.kind = "analysis" /\ a.scope = q.scope /\ a.lang = q.lang
        /\ a = task[u] \/ (task[u].pc = "idle" /\ task[u].kind = "none" /\ a.pc = "look")
        /\ inFlight' \in [Keys -> Tasks \cup {None}]
        /\ inFlight' = [inFlight EXCEPT ![<<"analysis", q.scope, q.lang>>] = u]
        /\ task' = [task EXCEPT ![u] = a, ![t] = [q EXCEPT !.pc = "wait", !.on = u]]
  BY JoinRun
<1>. DEFINE w == [q EXCEPT !.pc = "wait", !.on = u]
<1>3. w.pc = "wait" /\ task' = [task EXCEPT ![u] = a, ![t] = w]
  BY <1>1, <1>2 DEF RunType
<1>. HIDE DEF w
<1>. QED
  BY <1>1, <1>2, <1>3 DEF RunInv, RunsOK, Focused, Critical

LEMMA SettleFocus ==
  ASSUME RunInv, NEW t \in Tasks, Settle(t)
  PROVE  \A u \in Tasks : Focused(u)
<1>1. task[t].pc \in {"done", "failed"} /\ task' = [u \in Tasks |-> Resumed(u, t)]
  BY DEF Settle
<1>2. \A u \in Tasks : u # t =>
        \/ task'[u] = task[u]
        \/ task[u].pc = "wait" /\ task'[u].pc \in {"failed", "complaints"}
  BY <1>1, ResumedFacts
<1>3. task'[t] = IdleTask
  BY <1>1 DEF Resumed
<1>. QED
  BY <1>1, <1>2, <1>3, IdleFacts DEF Focused, Critical

LEMMA RestlessFocus ==
  ASSUME RunInv, StartHealth \/ NetworkChanges
  PROVE  \A u \in Tasks : Focused(u)
<1>1. \A u \in Tasks : LET x == [task[u] EXCEPT !.calm = FALSE] IN
        x.pc = task[u].pc /\ x.doc = task[u].doc /\ x.plan = task[u].plan
  BY DEF RunInv, RunsOK, RunType
<1>2. CASE NetworkChanges
  BY <1>1, <1>2 DEF NetworkChanges, Focused
<1>3. CASE StartHealth
  <2>. DEFINE alone == \A u \in Tasks : task[u].kind = "health" => ~Running(u)
              new == NewRun("health", None, None, "check")
              r == [new EXCEPT !.calm = alone]
  <2>1. PICK t \in Free : task' = [u \in Tasks |-> IF u = t THEN r ELSE [task[u] EXCEPT !.calm = FALSE]]
    BY <1>3 DEF StartHealth
  <2>2. task[t].pc = "idle"
    BY DEF Free, At
  <2>3. new \in RunType /\ new.pc = "check"
    BY NewRunFacts DEF Kinds, Pcs, Scopes
  <2>. HIDE DEF new, alone
  <2>4. r.pc = "check"
    BY <2>3 DEF RunType
  <2>. HIDE DEF r
  <2>. QED
    BY <1>1, <2>1, <2>2, <2>4 DEF Focused, Critical
<1>. QED
  BY <1>2, <1>3

\* The steps that do not.
Telltale(t) ==
  CreateAlert(t) \/ TellManager(t) \/ TellAdmins(t) \/ FindDuplicate(t) \/ CreateRecommendation(t) \/ Throws(t)

LEMMA KeepsFocus ==
  ASSUME SupervisorInv, [Next]_vars
  PROVE  (\A u \in Tasks : Focused(u)) \/ (\E t \in Tasks : Telltale(t)) \/ Crash
<1>. USE DEF SupervisorInv
<1>1. UNCHANGED task => \A u \in Tasks : Focused(u)
  BY DEF Focused
<1>2. RunInv /\ RunsOK
  BY DEF RunInv
<1>3. ASSUME NEW t \in Tasks, Step(t), ~Telltale(t) PROVE \A u \in Tasks : Focused(u)
  BY <1>2, <1>3, HealthFocus, DetectFocus, AnalysisFocus, JoinFocus, SettleFocus
     DEF Step, OwnStep, RaiseStep, IngestStep, Telltale
<1>4. ASSUME NEW c \in Askers, Call(c) PROVE \A u \in Tasks : Focused(u)
  BY <1>2, <1>4, SharingFocus
<1>5. ASSUME NEW c \in Askers, Ask(c) PROVE UNCHANGED task
  BY <1>5 DEF Ask
<1>6. ReviewRecommendation \/ TwelveHoursGoBy \/ ReviewAnomaly => UNCHANGED task
  BY DEF ReviewRecommendation, TwelveHoursGoBy, ReviewAnomaly
<1>7. UNCHANGED vars => UNCHANGED task
  BY DEF vars, taskVars
<1>. QED
  BY <1>1, <1>2, <1>3, <1>4, <1>5, <1>6, <1>7, RestlessFocus DEF Next, Work, Telltale

\* Who writes to the alerts, and to the recommendations.
LEMMA AlertWriters ==
  ASSUME SupervisorInv, [Next]_vars
  PROVE  \/ alerts' = alerts
         \/ \E t \in Tasks : WatchOne(t) \/ CreateAlert(t) \/ TellManager(t) \/ TellAdmins(t) \/ Throws(t)
         \/ Crash
<1>1. ASSUME NEW t \in Tasks, OwnStep(t) PROVE alerts' = alerts
  BY <1>1 DEF OwnStep, JoinAnalysis, AnalysisStep, AnalyzeComplaints, Look, Predict, Plan, OnlyTask,
              storeVars, WriteReport, Settle
<1>2. ASSUME NEW t \in Tasks, CheckServices(t) \/ ReadSites(t) \/ FindAlert(t) PROVE alerts' = alerts
  BY <1>2 DEF CheckServices, ReadSites, FindAlert
<1>3. ASSUME NEW c \in Askers, Call(c) \/ Ask(c) PROVE alerts' = alerts
  BY <1>3 DEF Call, Ask, storeVars
<1>4. StartHealth => alerts' = alerts
  BY DEF StartHealth
<1>. QED
  BY <1>1, <1>2, <1>3, <1>4 DEF Next, Work, Step, HealthStep, RaiseStep, vars, storeVars

LEMMA RecWriters ==
  ASSUME SupervisorInv, [Next]_vars
  PROVE  \/ recs' = recs
         \/ \E t \in Tasks : CreateRecommendation(t)
         \/ ReviewRecommendation \/ TwelveHoursGoBy
<1>1. ASSUME NEW t \in Tasks, OwnStep(t) \/ DetectStep(t) \/ FindDuplicate(t) \/ Throws(t)
      PROVE  recs' = recs
  BY <1>1 DEF OwnStep, JoinAnalysis, AnalysisStep, AnalyzeComplaints, Look, Predict, Plan, OnlyTask,
              storeVars, WriteReport, Settle, DetectStep, ReadAll, Assess, AssessZone, MatchAnomaly,
              InsertAnomaly, FindDuplicate, Throws
<1>2. ASSUME NEW c \in Askers, Call(c) \/ Ask(c) PROVE recs' = recs
  BY <1>2 DEF Call, Ask, storeVars
<1>3. Crash \/ ReviewAnomaly => recs' = recs
  BY DEF Crash, ReviewAnomaly
<1>. QED
  BY <1>1, <1>2, <1>3 DEF Next, Work, Step, IngestStep, vars, storeVars

-----------------------------------------------------------------------------
(* Who is told of an alert.                                                   *)

\* What a run between an alert and its notices has done so far.
TellingOK(t) == Telling(t) =>
  /\ task[t].doc \in 1..Len(alerts) /\ "room" \in alerts[task[t].doc].told
  /\ task[t].pc = "tellAdmin" =>
       alerts[task[t].doc].zone = None \/ "manager" \in alerts[task[t].doc].told

Heard(a) == "room" \in a.told /\ "admin" \in a.told /\ (a.zone = None \/ "manager" \in a.told)
ToldOrTelling(j) == Heard(alerts[j]) \/ alerts[j].dropped \/ \E t \in Tasks : Telling(t) /\ task[t].doc = j

NoticesInv ==
  /\ \A t \in Tasks : TellingOK(t)
  /\ \A j \in 1..Len(alerts) : ToldOrTelling(j)

\* Alerts keep what they are about, and what was heard of them.
AlertsGrow ==
  /\ alerts' \in Seq(AlertDoc) /\ Len(alerts') = Len(alerts)
  /\ \A j \in 1..Len(alerts) :
       /\ alerts'[j].zone = alerts[j].zone /\ alerts[j].told \subseteq alerts'[j].told
       /\ alerts[j].dropped => alerts'[j].dropped

TellSame(u) == task[u].pc \in {"tellZone", "tellAdmin"} \/ task'[u].pc \in {"tellZone", "tellAdmin"} =>
  task'[u].pc = task[u].pc /\ task'[u].doc = task[u].doc

LEMMA HeardGrows ==
  ASSUME AlertsGrow, NEW j \in 1..Len(alerts)
  PROVE  /\ Heard(alerts[j]) => Heard(alerts'[j])
         /\ alerts[j].dropped => alerts'[j].dropped
BY DEF AlertsGrow, Heard

LEMMA OthersTell ==
  ASSUME NoticesInv, AlertsGrow, NEW u \in Tasks, TellSame(u)
  PROVE  TellingOK(u)'
<1>. SUFFICES ASSUME Telling(u)' PROVE TellingOK(u)'
  BY DEF TellingOK
<1>1. Telling(u) /\ task'[u].pc = task[u].pc /\ task'[u].doc = task[u].doc /\ TellingOK(u)
  BY DEF Telling, TellSame, NoticesInv
<1>. DEFINE d == task[u].doc
<1>2. d \in 1..Len(alerts) /\ "room" \in alerts[d].told
      /\ (task[u].pc = "tellAdmin" => alerts[d].zone = None \/ "manager" \in alerts[d].told)
  BY <1>1 DEF TellingOK
<1>3. Len(alerts') = Len(alerts) /\ alerts'[d].zone = alerts[d].zone /\ alerts[d].told \subseteq alerts'[d].told
  BY <1>2 DEF AlertsGrow
<1>. QED
  BY <1>1, <1>2, <1>3 DEF TellingOK

LEMMA NoticesCarry ==
  ASSUME NoticesInv, AlertsGrow, \A u \in Tasks : TellSame(u)
  PROVE  NoticesInv'
<1>1. \A u \in Tasks : TellingOK(u)'
  BY OthersTell
<1>2. ASSUME NEW j \in 1..Len(alerts) PROVE ToldOrTelling(j)'
  <2>1. ToldOrTelling(j)
    BY DEF NoticesInv
  <2>2. \A u \in Tasks : Telling(u) /\ task[u].doc = j => Telling(u)' /\ task'[u].doc = j
    BY DEF Telling, TellSame
  <2>. QED
    BY <2>1, <2>2, HeardGrows DEF ToldOrTelling
<1>3. Len(alerts') = Len(alerts)
  BY DEF AlertsGrow
<1>. QED
  BY <1>1, <1>2, <1>3 DEF NoticesInv

LEMMA SteadyAlerts ==
  ASSUME StoreInv, alerts' = alerts \/ \E t \in Tasks : WatchOne(t)
  PROVE  AlertsGrow
<1>1. CASE alerts' = alerts
  BY <1>1 DEF AlertsGrow, StoreInv
<1>2. ASSUME NEW t \in Tasks, WatchOne(t) PROVE AlertsGrow
  <2>. DEFINE s == Watch[task[t].i]
  <2>1. alerts' = alerts \/ Resolve(s)
    BY <1>2 DEF WatchOne
  <2>. HIDE DEF s
  <2>2. CASE Resolve(s)
    BY <2>2, ResolveKeeps DEF AlertsGrow
  <2>. QED
    BY <1>1, <2>1, <2>2
<1>. QED
  BY <1>1, <1>2

LEMMA IngestTells ==
  ASSUME RunInv, NEW t \in Tasks, FindDuplicate(t) \/ CreateRecommendation(t)
  PROVE  \A u \in Tasks : TellSame(u)
<1>. DEFINE q == task[t]
<1>1. q \in RunType /\ Sound(q)
  BY DEF RunInv, RunsOK
<1>2. ASSUME NEW r, q.pc \in {"ingest", "add"}, r.pc \notin {"tellZone", "tellAdmin"},
             task' = [task EXCEPT ![t] = r]
      PROVE  \A u \in Tasks : TellSame(u)
  BY <1>2 DEF RunInv, RunsOK, TellSame
<1>3. CASE FindDuplicate(t)
  <2>. DEFINE after == AfterIngest[q.kind]
              plan == Tail(q.plan)
              n == Cardinality(Alike(Head(q.plan)))
              r1 == [q EXCEPT !.pc = after]
              r2 == [q EXCEPT !.plan = plan]
              r3 == [q EXCEPT !.pc = "add", !.doc = n]
  <2>1. /\ q.pc = "ingest"
        /\ \/ task' = [task EXCEPT ![t] = r1] \/ task' = [task EXCEPT ![t] = r2]
           \/ task' = [task EXCEPT ![t] = r3]
    BY <1>3 DEF FindDuplicate, At, Set
  <2>2. after \in {"done", "raise"}
    BY <1>1, <2>1 DEF AfterIngest, Sound, PcOf, RunType, Kinds
  <2>. HIDE DEF after, plan, n
  <2>3. r1.pc = after /\ r2.pc = "ingest" /\ r3.pc = "add"
    BY <1>1, <2>1 DEF RunType
  <2>. HIDE DEF r1, r2, r3
  <2>. QED
    BY <2>1, <2>2, <2>3, <1>2
<1>4. CASE CreateRecommendation(t)
  <2>. DEFINE plan == Tail(q.plan)
              next == [q EXCEPT !.pc = "ingest", !.plan = plan, !.doc = 0]
  <2>1. q.pc = "add" /\ task' = [task EXCEPT ![t] = next]
    BY <1>4 DEF CreateRecommendation, At, Set
  <2>. HIDE DEF plan
  <2>2. next.pc = "ingest"
    BY <1>1 DEF RunType
  <2>. HIDE DEF next
  <2>. QED
    BY <2>1, <2>2 DEF RunInv, RunsOK, TellSame
<1>. QED
  BY <1>3, <1>4

LEMMA RaisedTells ==
  ASSUME SupervisorInv, NoticesInv, NEW t \in Tasks, CreateAlert(t)
  PROVE  NoticesInv'
<1>. USE DEF SupervisorInv
<1>. DEFINE q == task[t]
            a == Head(q.due)
            n == Len(alerts) + 1
            pc == IF a.zone = None THEN "tellAdmin" ELSE "tellZone"
            r == [q EXCEPT !.doc = n, !.pc = pc]
<1>1. q \in RunType /\ q.pc = "create"
  BY DEF RunInv, RunsOK, CreateAlert, At
<1>2. task' = [task EXCEPT ![t] = r]
  BY DEF CreateAlert, Set
<1>3. /\ Len(alerts') = n /\ n \in Nat /\ Len(alerts) \in Nat
      /\ \A j \in 1..Len(alerts) : alerts'[j] = alerts[j]
      /\ "room" \in alerts'[n].told /\ alerts'[n].zone = a.zone
  <2>. DEFINE b == [about |-> a.about, of |-> a.of, zone |-> a.zone,
                    active |-> TRUE, told |-> {"room"}, dropped |-> FALSE]
  <2>1. /\ a \in AlertDue /\ alerts' \in Seq(AlertDoc) /\ Len(alerts') = Len(alerts) + 1
        /\ \A j \in 1..Len(alerts) : alerts'[j] = alerts[j]
        /\ alerts'[Len(alerts) + 1] = b
    BY RaisedKeeps
  <2>2. b.zone = a.zone /\ b.told = {"room"}
    OBVIOUS
  <2>. HIDE DEF a, b
  <2>. QED
    BY <2>1, <2>2 DEF StoreInv
<1>4. r.doc = n /\ r.pc = pc /\ pc \in {"tellAdmin", "tellZone"} /\ (pc = "tellAdmin" => a.zone = None)
  BY <1>1 DEF RunType
<1>. HIDE DEF r, n, pc, a
<1>5. task'[t] = r /\ \A u \in Tasks : u # t => task'[u] = task[u]
  BY <1>2 DEF RunInv, RunsOK
<1>6. n \in 1..Len(alerts') /\ \A j \in 1..Len(alerts') : j \in 1..Len(alerts) \/ j = n
  BY <1>3 DEF n
<1>7. \A u \in Tasks : TellingOK(u)'
  <2>. TAKE u \in Tasks
  <2>1. CASE u = t
    BY <2>1, <1>3, <1>4, <1>5, <1>6 DEF TellingOK
  <2>2. CASE u # t
    <3>1. task'[u] = task[u] /\ TellingOK(u)
      BY <2>2, <1>5 DEF NoticesInv
    <3>2. \A j \in 1..Len(alerts) : j \in 1..Len(alerts') /\ alerts'[j] = alerts[j]
      BY <1>3 DEF n
    <3>. QED
      BY <3>1, <3>2 DEF TellingOK, Telling
  <2>. QED
    BY <2>1, <2>2
<1>8. ASSUME NEW j \in 1..Len(alerts') PROVE ToldOrTelling(j)'
  <2>1. CASE j = n
    BY <2>1, <1>4, <1>5 DEF ToldOrTelling, Telling
  <2>2. CASE j \in 1..Len(alerts)
    <3>1. ToldOrTelling(j) /\ alerts'[j] = alerts[j]
      BY <2>2, <1>3 DEF NoticesInv
    <3>2. \A u \in Tasks : Telling(u) => u # t /\ task'[u] = task[u]
      BY <1>1, <1>5 DEF Telling
    <3>. QED
      BY <3>1, <3>2 DEF ToldOrTelling, Telling
  <2>. QED
    BY <2>1, <2>2, <1>6
<1>. QED
  BY <1>7, <1>8 DEF NoticesInv

LEMMA TellKeepsNotices ==
  ASSUME SupervisorInv, NoticesInv, NEW t \in Tasks, TellManager(t) \/ TellAdmins(t)
  PROVE  NoticesInv'
<1>. USE DEF SupervisorInv
<1>. DEFINE q == task[t]
            d == q.doc
            manager == [q EXCEPT !.pc = "tellAdmin"]
            due == Tail(q.due)
            next == [q EXCEPT !.pc = "raise", !.due = due, !.doc = 0]
<1>1. q \in RunType /\ Telling(t)
  BY DEF RunInv, RunsOK, TellManager, TellAdmins, At, Telling
<1>2. d \in 1..Len(alerts) /\ "room" \in alerts[d].told
      /\ (q.pc = "tellAdmin" => alerts[d].zone = None \/ "manager" \in alerts[d].told)
  BY <1>1 DEF NoticesInv, TellingOK
<1>3. PICK who \in {"manager", "admin"} :
        /\ Hears(t, who)
        /\ who = "manager" => task' = [task EXCEPT ![t] = manager]
        /\ who = "admin" => q.pc = "tellAdmin" /\ task' = [task EXCEPT ![t] = next]
  BY DEF TellManager, TellAdmins, NextAlert, Set, At
<1>4. /\ alerts' \in Seq(AlertDoc) /\ Len(alerts') = Len(alerts)
      /\ \A j \in 1..Len(alerts) :
           /\ alerts'[j].zone = alerts[j].zone /\ alerts'[j].dropped = alerts[j].dropped
           /\ alerts'[j].told = alerts[j].told \cup (IF j = d THEN {who} ELSE {})
  BY <1>3, HearsKeeps
<1>5. AlertsGrow
  BY <1>4 DEF AlertsGrow
<1>. HIDE DEF due
<1>6. manager.pc = "tellAdmin" /\ manager.doc = d /\ next.pc = "raise"
  BY <1>1 DEF RunType
<1>. HIDE DEF manager, next
<1>7. \A u \in Tasks : u # t => task'[u] = task[u] /\ TellSame(u)
  BY <1>3 DEF RunInv, RunsOK, TellSame
<1>8. TellingOK(t)'
  <2>1. CASE who = "manager"
    <3>1. task'[t] = manager
      BY <2>1, <1>3 DEF RunInv, RunsOK
    <3>2. d \in 1..Len(alerts') /\ "room" \in alerts'[d].told /\ "manager" \in alerts'[d].told
      BY <2>1, <1>2, <1>4
    <3>. QED
      BY <3>1, <3>2, <1>6 DEF TellingOK
  <2>2. CASE who = "admin"
    <3>1. task'[t] = next
      BY <2>2, <1>3 DEF RunInv, RunsOK
    <3>. QED
      BY <3>1, <1>6 DEF TellingOK, Telling
  <2>. QED
    BY <2>1, <2>2
<1>9. \A u \in Tasks : TellingOK(u)'
  BY <1>5, <1>7, <1>8, OthersTell
<1>10. ASSUME NEW j \in 1..Len(alerts) PROVE ToldOrTelling(j)'
  <2>1. ToldOrTelling(j)
    BY DEF NoticesInv
  <2>2. CASE Heard(alerts[j]) \/ alerts[j].dropped
    BY <2>2, <1>5, HeardGrows DEF ToldOrTelling
  <2>3. ASSUME NEW u \in Tasks, Telling(u), task[u].doc = j, u # t PROVE ToldOrTelling(j)'
    <3>1. task'[u] = task[u]
      BY <2>3, <1>7
    <3>. QED
      BY <2>3, <3>1 DEF ToldOrTelling, Telling
  <2>4. CASE d = j
    <3>1. CASE who = "manager"
      <4>1. task'[t] = manager
        BY <3>1, <1>3 DEF RunInv, RunsOK
      <4>. QED
        BY <2>4, <4>1, <1>6 DEF ToldOrTelling, Telling
    <3>2. CASE who = "admin"
      <4>1. "admin" \in alerts'[d].told /\ "room" \in alerts'[d].told
            /\ (alerts'[d].zone = None \/ "manager" \in alerts'[d].told)
        BY <3>2, <1>2, <1>3, <1>4
      <4>. QED
        BY <2>4, <4>1 DEF ToldOrTelling, Heard
    <3>. QED
      BY <3>1, <3>2
  <2>. QED
    BY <2>1, <2>2, <2>3, <2>4 DEF ToldOrTelling
<1>. QED
  BY <1>4, <1>9, <1>10 DEF NoticesInv

\* A run, or all of them, end between an alert and its notices.
LEMMA DropKeepsNotices ==
  ASSUME SupervisorInv, NoticesInv, NEW runs \in SUBSET Tasks, DropNotices(runs),
         \A u \in Tasks : u \notin runs => task'[u] = task[u],
         \A u \in runs : task'[u].pc \in {"failed", "idle"}
  PROVE  NoticesInv'
<1>. USE DEF SupervisorInv
<1>1. /\ AlertsGrow
      /\ \A j \in 1..Len(alerts) : (\E t \in runs : Telling(t) /\ task[t].doc = j) => alerts'[j].dropped
  BY DropKeeps DEF AlertsGrow
<1>2. \A u \in Tasks : TellingOK(u)'
  <2>. TAKE u \in Tasks
  <2>1. CASE u \in runs
    BY <2>1 DEF TellingOK, Telling
  <2>2. CASE u \notin runs
    BY <2>2, <1>1, OthersTell DEF TellSame
  <2>. QED
    BY <2>1, <2>2
<1>3. ASSUME NEW j \in 1..Len(alerts) PROVE ToldOrTelling(j)'
  <2>1. ToldOrTelling(j)
    BY DEF NoticesInv
  <2>2. CASE Heard(alerts[j]) \/ alerts[j].dropped
    BY <2>2, <1>1, HeardGrows DEF ToldOrTelling
  <2>3. ASSUME NEW u \in Tasks, Telling(u), task[u].doc = j PROVE ToldOrTelling(j)'
    <3>1. CASE u \in runs
      BY <2>3, <3>1, <1>1 DEF ToldOrTelling
    <3>2. CASE u \notin runs
      BY <2>3, <3>2 DEF ToldOrTelling, Telling
    <3>. QED
      BY <3>1, <3>2
  <2>. QED
    BY <2>1, <2>2, <2>3 DEF ToldOrTelling
<1>. QED
  BY <1>1, <1>2, <1>3 DEF NoticesInv, AlertsGrow

LEMMA NoticesStep ==
  ASSUME SupervisorInv, NoticesInv, [Next]_vars
  PROVE  NoticesInv'
<1>. USE DEF SupervisorInv
<1>1. ASSUME NEW t \in Tasks, CreateAlert(t) PROVE NoticesInv'
  BY <1>1, RaisedTells
<1>2. ASSUME NEW t \in Tasks, TellManager(t) \/ TellAdmins(t) PROVE NoticesInv'
  BY <1>2, TellKeepsNotices
<1>3. ASSUME NEW t \in Tasks, Throws(t) PROVE NoticesInv'
  <2>. DEFINE r == [task[t] EXCEPT !.pc = "failed"]
  <2>1. r.pc = "failed" /\ task' = [task EXCEPT ![t] = r] /\ DropNotices({t})
    BY <1>3 DEF Throws, Set, RunInv, RunsOK, RunType
  <2>. HIDE DEF r
  <2>2. task'[t].pc = "failed" /\ \A u \in Tasks : u # t => task'[u] = task[u]
    BY <2>1 DEF RunInv, RunsOK
  <2>. QED
    BY <2>1, <2>2, DropKeepsNotices
<1>4. CASE Crash
  BY <1>4, IdleFacts, DropKeepsNotices DEF Crash
<1>5. CASE /\ \A t \in Tasks : ~(CreateAlert(t) \/ TellManager(t) \/ TellAdmins(t) \/ Throws(t))
           /\ ~Crash
  <2>1. AlertsGrow
    BY <1>5, AlertWriters, SteadyAlerts
  <2>2. \A u \in Tasks : TellSame(u)
    <3>1. CASE \A u \in Tasks : Focused(u)
      BY <3>1 DEF Focused, Critical, TellSame
    <3>2. ASSUME NEW t \in Tasks, FindDuplicate(t) \/ CreateRecommendation(t)
          PROVE  \A u \in Tasks : TellSame(u)
      BY <3>2, IngestTells
    <3>. QED
      BY <1>5, <3>1, <3>2, KeepsFocus DEF Telltale
  <2>. QED
    BY <2>1, <2>2, NoticesCarry
<1>. QED
  BY <1>1, <1>2, <1>3, <1>4, <1>5

\* Every alert is heard by its room, by the administrators, and by the manager of its
\* zone, unless the run that was telling of it failed: another run never has to.
THEOREM AlertsGetTold == Spec => []AlertsAreTold
<1>1. Init => NoticesInv
  BY IdleFacts DEF Init, TaskInit, AlertInit, NoticesInv, TellingOK, Telling
<1>2. SupervisorInv /\ NoticesInv /\ [Next]_vars => NoticesInv'
  BY NoticesStep
<1>3. SupervisorInv /\ NoticesInv => AlertsAreTold
  BY DEF SupervisorInv, StoreInv, NoticesInv, ToldOrTelling, Heard, AlertsAreTold
<1>. QED
  BY <1>1, <1>2, <1>3, SupervisorInvariant, PTL DEF Spec

-----------------------------------------------------------------------------
(* Recommendations that are alike.                                            *)

Class(S, action, area) == {q \in S : q.action = action /\ q.area = area}

\* One after the other in their class.
Ranked(S) ==
  /\ \A a, b \in S : a.action = b.action /\ a.area = b.area /\ a.nth = b.nth => a = b
  /\ \A a \in S : a.nth < Cardinality(Class(S, a.action, a.area))

Recent(q) == q.status = "PENDING" /\ ~q.old

Apart2(S) == \A a, b \in S :
  a.action = b.action /\ a.area = b.area /\ a.nth < b.nth /\ Recent(a) /\ Recent(b) => b.looked <= a.nth

\* What a run that is about to add a recommendation knows: when it looked, there were so
\* many alike and none of them recent.
LookedOK(r, S) == r.pc = "add" =>
  LET p == Head(r.plan) IN
  /\ r.doc <= Cardinality(Class(S, p.action, p.area))
  /\ \A q \in Class(S, p.action, p.area) : Recent(q) => r.doc <= q.nth

TwinsInv == Ranked(recs) /\ Apart2(recs) /\ \A t \in Tasks : LookedOK(task[t], recs)

LEMMA ClassFacts ==
  ASSUME NEW S, IsFiniteSet(S), NEW action, NEW area
  PROVE  /\ Class(S, action, area) \in SUBSET S /\ IsFiniteSet(Class(S, action, area))
         /\ Cardinality(Class(S, action, area)) \in Nat
<1>1. Class(S, action, area) \in SUBSET S
  BY DEF Class
<1>2. IsFiniteSet(Class(S, action, area))
  BY <1>1, FS_Subset
<1>. QED
  BY <1>1, <1>2, FS_CardinalityType

\* A class grows by what is new in it, and no other does.
LEMMA ClassGrows ==
  ASSUME NEW S, IsFiniteSet(S), NEW r, r \notin S, NEW action, NEW area
  PROVE  LET n == Cardinality(Class(S, action, area)) IN
         Cardinality(Class(S \cup {r}, action, area)) =
           IF r.action = action /\ r.area = area THEN n + 1 ELSE n
<1>. DEFINE C == Class(S, action, area)
            D == Class(S \cup {r}, action, area)
<1>1. IsFiniteSet(C) /\ r \notin C
  <2>1. C \in SUBSET S /\ IsFiniteSet(C)
    BY ClassFacts
  <2>. QED
    BY <2>1
<1>2. D = IF r.action = action /\ r.area = area THEN C \cup {r} ELSE C
  BY DEF Class
<1>. HIDE DEF C, D
<1>. QED
  BY <1>1, <1>2, FS_AddElement DEF C, D

\* Marks on recommendations leave every class as large as it is.
LEMMA MarkedClass ==
  ASSUME NEW S, IsFiniteSet(S), Ranked(S), NEW T, NEW f \in Surjection(S, T),
         \A q \in S : f[q].action = q.action /\ f[q].area = q.area /\ f[q].nth = q.nth,
         NEW action, NEW area
  PROVE  Cardinality(Class(T, action, area)) = Cardinality(Class(S, action, area))
<1>. DEFINE C == Class(S, action, area)
            D == Class(T, action, area)
            g == [q \in C |-> f[q]]
<1>1. IsFiniteSet(C) /\ C \in SUBSET S
  BY ClassFacts
<1>2. f \in [S -> T] /\ \A x \in T : \E q \in S : f[q] = x
  BY DEF Surjection
<1>3. g \in [C -> D]
  BY <1>1, <1>2 DEF Class
<1>4. \A x \in D : \E q \in C : g[q] = x
  BY <1>2 DEF Class
<1>5. \A a, b \in C : g[a] = g[b] => a = b
  <2>. TAKE a, b \in C
  <2>1. a \in S /\ b \in S /\ g[a] = f[a] /\ g[b] = f[b]
    BY <1>1
  <2>2. f[a] = f[b] => a.action = b.action /\ a.area = b.area /\ a.nth = b.nth
    BY <2>1
  <2>. QED
    BY <2>1, <2>2 DEF Ranked
<1>. HIDE DEF g, C, D
<1>6. g \in Bijection(C, D)
  BY <1>3, <1>4, <1>5 DEF Bijection, Injection, Surjection, IsInjective
<1>. QED
  BY <1>1, <1>6, FS_Bijection DEF ExistsBijection, C, D

LEMMA MarkedTwins ==
  ASSUME RunInv, StoreInv, TwinsInv, UNCHANGED task, NEW f \in Surjection(recs, recs'),
         recs \subseteq RecDoc, recs' \subseteq RecDoc,
         \A q \in recs : /\ f[q].action = q.action /\ f[q].area = q.area /\ f[q].nth = q.nth
                         /\ f[q].looked = q.looked /\ (Recent(f[q]) => Recent(q))
  PROVE  TwinsInv'
<1>. DEFINE T == recs'
<1>1. \A x \in T : \E q \in recs : f[q] = x
  BY DEF Surjection
<1>2. IsFiniteSet(recs) /\ Ranked(recs)
  BY DEF StoreInv, TwinsInv
<1>3. \A action, area : Cardinality(Class(T, action, area)) = Cardinality(Class(recs, action, area))
  <2>. HIDE DEF T
  <2>1. f \in Surjection(recs, T)
    BY DEF T
  <2>. QED
    BY <1>2, <2>1, MarkedClass
<1>. HIDE DEF T
<1>4. Ranked(T)
  <2>1. ASSUME NEW a \in T, NEW b \in T, a.action = b.action, a.area = b.area, a.nth = b.nth
        PROVE  a = b
    <3>1. PICK p \in recs : f[p] = a
      BY <1>1
    <3>2. PICK q \in recs : f[q] = b
      BY <1>1
    <3>3. p = q
      BY <2>1, <3>1, <3>2, <1>2 DEF Ranked
    <3>. QED
      BY <3>1, <3>2, <3>3
  <2>2. ASSUME NEW a \in T PROVE a.nth < Cardinality(Class(T, a.action, a.area))
    <3>1. PICK p \in recs : f[p] = a
      BY <1>1
    <3>2. p.nth < Cardinality(Class(recs, p.action, p.area))
      BY <1>2 DEF Ranked
    <3>. QED
      BY <3>1, <3>2, <1>3
  <2>. QED
    BY <2>1, <2>2 DEF Ranked
<1>5. Apart2(T)
  <2>. SUFFICES ASSUME NEW a \in T, NEW b \in T, a.action = b.action, a.area = b.area, a.nth < b.nth,
                       Recent(a), Recent(b)
                PROVE  b.looked <= a.nth
    BY DEF Apart2
  <2>1. PICK p \in recs : f[p] = a
    BY <1>1
  <2>2. PICK q \in recs : f[q] = b
    BY <1>1
  <2>. QED
    BY <2>1, <2>2 DEF TwinsInv, Apart2
<1>6. ASSUME NEW t \in Tasks PROVE LookedOK(task[t], T)
  <2>. DEFINE p == Head(task[t].plan)
  <2>. SUFFICES ASSUME task[t].pc = "add"
                PROVE  /\ task[t].doc <= Cardinality(Class(T, p.action, p.area))
                       /\ \A x \in Class(T, p.action, p.area) : Recent(x) => task[t].doc <= x.nth
    BY DEF LookedOK
  <2>1. /\ task[t].doc <= Cardinality(Class(recs, p.action, p.area))
        /\ \A q \in Class(recs, p.action, p.area) : Recent(q) => task[t].doc <= q.nth
    BY DEF TwinsInv, LookedOK
  <2>. HIDE DEF p
  <2>2. ASSUME NEW x \in Class(T, p.action, p.area), Recent(x) PROVE task[t].doc <= x.nth
    <3>1. x \in T /\ x.action = p.action /\ x.area = p.area
      BY DEF Class
    <3>2. PICK q \in recs : f[q] = x
      BY <3>1, <1>1
    <3>3. q \in Class(recs, p.action, p.area)
      BY <3>1, <3>2 DEF Class
    <3>. QED
      BY <2>1, <2>2, <3>2, <3>3
  <2>. QED
    BY <2>1, <2>2, <1>3
<1>. QED
  BY <1>4, <1>5, <1>6 DEF TwinsInv, T

LEMMA ReviewTwins ==
  ASSUME SupervisorInv, TwinsInv, ReviewRecommendation
  PROVE  TwinsInv'
<1>. USE DEF SupervisorInv
<1>1. PICK r \in recs, s \in {"APPROVED", "DISMISSED"} :
        recs' = (recs \ {r}) \cup {[r EXCEPT !.status = s]}
  BY DEF ReviewRecommendation
<1>. DEFINE x == [r EXCEPT !.status = s]
            f == [q \in recs |-> IF q = r THEN x ELSE q]
<1>2. /\ x \in RecDoc /\ x.status = s /\ x.action = r.action /\ x.area = r.area
      /\ x.nth = r.nth /\ x.looked = r.looked
  BY ReviewedRec DEF StoreInv
<1>3. recs' = (recs \ {r}) \cup {x}
  BY <1>1
<1>. HIDE DEF x
<1>4. f \in Surjection(recs, recs')
  BY <1>3 DEF Surjection
<1>5. \A q \in recs : /\ f[q].action = q.action /\ f[q].area = q.area /\ f[q].nth = q.nth
                      /\ f[q].looked = q.looked /\ (Recent(f[q]) => Recent(q))
  BY <1>2 DEF Recent
<1>6. UNCHANGED task /\ recs \subseteq RecDoc /\ recs' \subseteq RecDoc
  BY <1>2, <1>3 DEF ReviewRecommendation, StoreInv
<1>. HIDE DEF f
<1>. QED
  BY <1>4, <1>5, <1>6, MarkedTwins

LEMMA AgeTwins ==
  ASSUME SupervisorInv, TwinsInv, TwelveHoursGoBy
  PROVE  TwinsInv'
<1>. USE DEF SupervisorInv
<1>. DEFINE aged(q) == [q EXCEPT !.old = TRUE]
            f == [q \in recs |-> aged(q)]
<1>1. recs' = {aged(q) : q \in recs}
  BY DEF TwelveHoursGoBy
<1>2. \A q \in recs : /\ aged(q) \in RecDoc /\ aged(q).action = q.action /\ aged(q).area = q.area
                      /\ aged(q).nth = q.nth /\ aged(q).looked = q.looked /\ aged(q).old
  BY AgedRec DEF StoreInv
<1>. HIDE DEF aged
<1>3. f \in Surjection(recs, recs')
  BY <1>1 DEF Surjection
<1>4. \A q \in recs : /\ f[q].action = q.action /\ f[q].area = q.area /\ f[q].nth = q.nth
                      /\ f[q].looked = q.looked /\ (Recent(f[q]) => Recent(q))
  BY <1>2 DEF Recent
<1>5. UNCHANGED task /\ recs \subseteq RecDoc /\ recs' \subseteq RecDoc
  BY <1>1, <1>2 DEF TwelveHoursGoBy, StoreInv
<1>. HIDE DEF f
<1>. QED
  BY <1>3, <1>4, <1>5, MarkedTwins

LEMMA AlikeClass ==
  \A r : Alike(r) = Class(recs, r.action, r.area)
BY DEF Alike, Class

LEMMA AddTwins ==
  ASSUME SupervisorInv, TwinsInv, NEW t \in Tasks, CreateRecommendation(t)
  PROVE  TwinsInv'
<1>. USE DEF SupervisorInv
<1>. DEFINE q == task[t]
            p == Head(q.plan)
            n == Cardinality(Alike(p))
            d == q.doc
            r == [action |-> p.action, area |-> p.area, zone |-> p.zone, site |-> p.site,
                  priority |-> p.priority, why |-> p.why, status |-> "PENDING", old |-> FALSE,
                  nth |-> n, looked |-> d]
            plan == Tail(q.plan)
            next == [q EXCEPT !.pc = "ingest", !.plan = plan, !.doc = 0]
<1>1. q \in RunType /\ q.pc = "add" /\ task' = [task EXCEPT ![t] = next]
  BY DEF CreateRecommendation, At, Set, RunInv, RunsOK
<1>2. n \in Nat /\ r \in RecDoc /\ recs' = recs \cup {r}
  BY AddedKeeps
<1>3. /\ r.action = p.action /\ r.area = p.area /\ r.nth = n /\ r.looked = d /\ Recent(r)
      /\ n = Cardinality(Class(recs, p.action, p.area))
  BY AlikeClass DEF Recent
<1>4. d <= n /\ \A x \in Class(recs, p.action, p.area) : Recent(x) => d <= x.nth
  BY <1>1, <1>3 DEF TwinsInv, LookedOK
<1>5. d \in Nat
  BY <1>1 DEF RunType
<1>. HIDE DEF plan
<1>6. next.pc = "ingest"
  BY <1>1 DEF RunType
<1>. HIDE DEF p, n, d, r, next
<1>7. \A x \in recs : x.nth \in Nat /\ x.looked \in Nat
  BY DEF StoreInv, RecDoc, RecType0
<1>8. ASSUME NEW x \in recs, x.action = r.action, x.area = r.area
      PROVE  x \in Class(recs, p.action, p.area) /\ x.nth < r.nth
  <2>1. x.nth < Cardinality(Class(recs, x.action, x.area))
    BY DEF TwinsInv, Ranked
  <2>. QED
    BY <1>3, <1>8, <2>1 DEF Class
<1>9. r \notin recs
  BY <1>2, <1>3, <1>7, <1>8
<1>10. \A action, area :
         LET m == Cardinality(Class(recs, action, area)) IN
         /\ m \in Nat
         /\ Cardinality(Class(recs', action, area)) = IF r.action = action /\ r.area = area THEN m + 1 ELSE m
  <2>1. \A action, area : Cardinality(Class(recs, action, area)) \in Nat
    BY ClassFacts DEF StoreInv
  <2>2. IsFiniteSet(recs)
    BY DEF StoreInv
  <2>3. \A action, area : Cardinality(Class(recs \cup {r}, action, area)) =
          IF r.action = action /\ r.area = area THEN Cardinality(Class(recs, action, area)) + 1
          ELSE Cardinality(Class(recs, action, area))
    BY <1>9, <2>2, ClassGrows
  <2>. QED
    BY <1>2, <2>1, <2>3
<1>11. Ranked(recs')
  <2>1. ASSUME NEW a \in recs', NEW b \in recs', a.action = b.action, a.area = b.area, a.nth = b.nth
        PROVE  a = b
    <3>1. CASE a \in recs /\ b \in recs
      BY <2>1, <3>1 DEF TwinsInv, Ranked
    <3>2. CASE a = r /\ b \in recs
      BY <2>1, <3>2, <1>2, <1>3, <1>7, <1>8
    <3>3. CASE a \in recs /\ b = r
      BY <2>1, <3>3, <1>2, <1>3, <1>7, <1>8
    <3>. QED
      BY <1>2, <3>1, <3>2, <3>3
  <2>2. ASSUME NEW a \in recs' PROVE a.nth < Cardinality(Class(recs', a.action, a.area))
    <3>1. CASE a \in recs
      <4>1. a.nth < Cardinality(Class(recs, a.action, a.area))
        BY <3>1 DEF TwinsInv, Ranked
      <4>. QED
        BY <3>1, <4>1, <1>7, <1>10
    <3>2. CASE a = r
      BY <3>2, <1>2, <1>3, <1>10
    <3>. QED
      BY <1>2, <3>1, <3>2
  <2>. QED
    BY <2>1, <2>2 DEF Ranked
<1>12. Apart2(recs')
  <2>. SUFFICES ASSUME NEW a \in recs', NEW b \in recs', a.action = b.action, a.area = b.area, a.nth < b.nth,
                       Recent(a), Recent(b)
                PROVE  b.looked <= a.nth
    BY DEF Apart2
  <2>1. CASE a \in recs /\ b \in recs
    BY <2>1 DEF TwinsInv, Apart2
  <2>2. CASE a = r /\ b \in recs
    BY <2>2, <1>2, <1>3, <1>7, <1>8
  <2>3. CASE a \in recs /\ b = r
    BY <2>3, <1>3, <1>4, <1>8
  <2>4. CASE a = r /\ b = r
    BY <2>4, <1>2, <1>3
  <2>. QED
    BY <1>2, <2>1, <2>2, <2>3, <2>4
<1>13. ASSUME NEW u \in Tasks PROVE LookedOK(task'[u], recs')
  <2>1. CASE u = t
    <3>1. task'[u] = next
      BY <2>1, <1>1 DEF RunInv, RunsOK
    <3>. QED
      BY <3>1, <1>6 DEF LookedOK
  <2>2. CASE u # t
    <3>1. task'[u] = task[u]
      BY <2>2, <1>1 DEF RunInv, RunsOK
    <3>. DEFINE z == Head(task[u].plan)
                e == task[u].doc
    <3>. SUFFICES ASSUME task[u].pc = "add"
                  PROVE  /\ e <= Cardinality(Class(recs', z.action, z.area))
                         /\ \A x \in Class(recs', z.action, z.area) : Recent(x) => e <= x.nth
      BY <3>1 DEF LookedOK
    <3>2. /\ e <= Cardinality(Class(recs, z.action, z.area))
          /\ \A x \in Class(recs, z.action, z.area) : Recent(x) => e <= x.nth
      BY DEF TwinsInv, LookedOK
    <3>3. e \in Nat
      BY DEF RunInv, RunsOK, RunType
    <3>. HIDE DEF z, e
    <3>4. e <= Cardinality(Class(recs', z.action, z.area))
      BY <3>2, <3>3, <1>10
    <3>5. ASSUME NEW x \in Class(recs', z.action, z.area), Recent(x) PROVE e <= x.nth
      <4>1. CASE x = r
        <5>1. z.action = p.action /\ z.area = p.area
          BY <4>1, <1>3 DEF Class
        <5>. QED
          BY <4>1, <5>1, <3>2, <1>3
      <4>2. CASE x # r
        <5>1. x \in Class(recs, z.action, z.area)
          BY <4>2, <1>2 DEF Class
        <5>. QED
          BY <5>1, <3>2, <3>5
      <4>. QED
        BY <4>1, <4>2
    <3>. QED
      BY <3>4, <3>5
  <2>. QED
    BY <2>1, <2>2
<1>. QED
  BY <1>11, <1>12, <1>13 DEF TwinsInv

LEMMA LookTwins ==
  ASSUME SupervisorInv, TwinsInv, NEW t \in Tasks, FindDuplicate(t), recs' = recs
  PROVE  TwinsInv'
<1>. USE DEF SupervisorInv
<1>. DEFINE q == task[t]
            p == Head(q.plan)
            after == AfterIngest[q.kind]
            plan == Tail(q.plan)
            n == Cardinality(Alike(p))
            r1 == [q EXCEPT !.pc = after]
            r2 == [q EXCEPT !.plan = plan]
            r3 == [q EXCEPT !.pc = "add", !.doc = n]
<1>1. q \in RunType /\ Sound(q) /\ q.pc = "ingest"
  BY DEF FindDuplicate, At, RunInv, RunsOK
<1>2. \/ task' = [task EXCEPT ![t] = r1] \/ task' = [task EXCEPT ![t] = r2]
      \/ task' = [task EXCEPT ![t] = r3] /\ Duplicates(p) = {}
  BY DEF FindDuplicate, Set
<1>3. after \in {"done", "raise"}
  BY <1>1 DEF AfterIngest, Sound, PcOf, RunType, Kinds
<1>4. n = Cardinality(Class(recs, p.action, p.area)) /\ n \in Nat
  BY AlikeClass, AlikeFacts
<1>5. Duplicates(p) = {} => \A x \in Class(recs, p.action, p.area) : ~Recent(x)
  BY AlikeClass DEF Duplicates, Recent
<1>. HIDE DEF after, n
<1>6. r1.pc = after /\ r2.pc = "ingest" /\ r3.pc = "add" /\ r3.doc = n /\ r3.plan = q.plan
  BY <1>1 DEF RunType
<1>. HIDE DEF r1, r2, r3, p
<1>7. /\ LookedOK(r1, recs) /\ LookedOK(r2, recs)
      /\ Duplicates(p) = {} => LookedOK(r3, recs)
  BY <1>3, <1>4, <1>5, <1>6 DEF LookedOK, p
<1>8. ASSUME NEW u \in Tasks PROVE LookedOK(task'[u], recs)
  <2>1. CASE u = t
    BY <2>1, <1>2, <1>7 DEF RunInv, RunsOK
  <2>2. CASE u # t
    BY <2>2, <1>2 DEF RunInv, RunsOK, TwinsInv
  <2>. QED
    BY <2>1, <2>2
<1>. QED
  BY <1>8 DEF TwinsInv

\* The other steps of runs: nothing is added, and nobody is about to that was not before.
LEMMA OtherTwins ==
  ASSUME TwinsInv, recs' = recs,
         \A u \in Tasks : task'[u].pc = "add" =>
           task[u].pc = "add" /\ task'[u].doc = task[u].doc /\ task'[u].plan = task[u].plan
  PROVE  TwinsInv'
<1>. DEFINE R == recs
<1>1. ASSUME NEW u \in Tasks PROVE LookedOK(task'[u], R)
  <2>1. LookedOK(task[u], R)
    BY DEF TwinsInv
  <2>. HIDE DEF R
  <2>. QED
    BY <2>1 DEF LookedOK
<1>. QED
  BY <1>1 DEF TwinsInv

LEMMA TellersTwins ==
  ASSUME RunInv, NEW t \in Tasks, CreateAlert(t) \/ TellManager(t) \/ TellAdmins(t) \/ Throws(t)
  PROVE  \A u \in Tasks : task'[u].pc = "add" => task'[u] = task[u]
<1>. DEFINE q == task[t]
            n == Len(alerts) + 1
            pc == IF Head(q.due).zone = None THEN "tellAdmin" ELSE "tellZone"
            due == Tail(q.due)
            r1 == [q EXCEPT !.doc = n, !.pc = pc]
            r2 == [q EXCEPT !.pc = "tellAdmin"]
            r3 == [q EXCEPT !.pc = "raise", !.due = due, !.doc = 0]
            r4 == [q EXCEPT !.pc = "failed"]
<1>1. q \in RunType
  BY DEF RunInv, RunsOK
<1>2. CreateAlert(t) => task' = [task EXCEPT ![t] = r1]
  BY DEF CreateAlert, Set
<1>3. TellManager(t) => task' = [task EXCEPT ![t] = r2]
  BY DEF TellManager, Set
<1>4. TellAdmins(t) => task' = [task EXCEPT ![t] = r3]
  BY DEF TellAdmins, NextAlert, Set
<1>5. Throws(t) => task' = [task EXCEPT ![t] = r4]
  BY DEF Throws, Set
<1>6. pc \in {"tellAdmin", "tellZone"}
  OBVIOUS
<1>. HIDE DEF n, pc, due
<1>7. r1.pc = pc /\ r2.pc = "tellAdmin" /\ r3.pc = "raise" /\ r4.pc = "failed"
  BY <1>1 DEF RunType
<1>. HIDE DEF r1, r2, r3, r4
<1>. QED
  BY <1>2, <1>3, <1>4, <1>5, <1>6, <1>7 DEF RunInv, RunsOK

LEMMA TwinsStep ==
  ASSUME SupervisorInv, TwinsInv, [Next]_vars
  PROVE  TwinsInv'
<1>. USE DEF SupervisorInv
<1>1. CASE (\E t \in Tasks : CreateRecommendation(t)) \/ ReviewRecommendation \/ TwelveHoursGoBy
  BY <1>1, AddTwins, ReviewTwins, AgeTwins
<1>2. CASE ~((\E t \in Tasks : CreateRecommendation(t)) \/ ReviewRecommendation \/ TwelveHoursGoBy)
  <2>1. recs' = recs
    BY <1>2, RecWriters
  <2>2. CASE \A u \in Tasks : Focused(u)
    BY <2>1, <2>2, OtherTwins DEF Focused, Critical
  <2>3. ASSUME NEW t \in Tasks, FindDuplicate(t) PROVE TwinsInv'
    BY <2>1, <2>3, LookTwins
  <2>4. ASSUME NEW t \in Tasks, CreateAlert(t) \/ TellManager(t) \/ TellAdmins(t) \/ Throws(t)
        PROVE  TwinsInv'
    <3>1. \A u \in Tasks : task'[u].pc = "add" => task'[u] = task[u]
      BY <2>4, TellersTwins
    <3>. QED
      BY <2>1, <3>1, OtherTwins
  <2>5. CASE Crash
    BY <2>1, <2>5, IdleFacts, OtherTwins DEF Crash
  <2>. QED
    BY <1>2, <2>2, <2>3, <2>4, <2>5, KeepsFocus DEF Telltale
<1>. QED
  BY <1>1, <1>2

\* Two recent pending recommendations of one action and area come only from two runs of
\* which the second looked before the first wrote, however many runs overlap: the reviews
\* and the passing of the window bring none about.
THEOREM TwinsComeFromOverlaps == Spec => []NoTwins
<1>1. Init => TwinsInv
  <2>. SUFFICES ASSUME Init PROVE TwinsInv
    OBVIOUS
  <2>1. recs = {} /\ \A t \in Tasks : task[t].pc = "idle"
    BY IdleFacts DEF Init, TaskInit, RecInit
  <2>. QED
    BY <2>1 DEF TwinsInv, Ranked, Apart2, LookedOK
<1>2. SupervisorInv /\ TwinsInv /\ [Next]_vars => TwinsInv'
  BY TwinsStep
<1>3. TwinsInv => NoTwins
  BY DEF TwinsInv, Apart2, Recent, NoTwins
<1>. QED
  BY <1>1, <1>2, <1>3, SupervisorInvariant, PTL DEF Spec

-----------------------------------------------------------------------------
(* A five-minute tier that has the network to itself.                         *)

\* What has an active alert.
ActiveSet == {s \in Watched : ActiveAlerts("level", s) # {}}
\* What the run has yet to raise.
Due(due) == {due[k].of : k \in 1..Len(due)}
Listed(r) == Due(r.due)
\* It is known to the run whether an alert is due, and the alerts say so.
Settled(s, r, active, now) == IF Breach(s, now[s]) THEN s \in active \cup Listed(r) ELSE s \notin active

After == {"raise", "create", "tellZone", "tellAdmin", "done"}

\* How far a calm run has come, with these alerts and the network as it is now.
Good(r, active, now) ==
  /\ r.kind = "health"
  /\ \A s \in Listed(r) : s \in Watched /\ Breach(s, now[s])
  /\ r.pc \in {"read", "watch"} => \A s \in Services : r.seen[s] = now[s]
  /\ r.pc = "watch" /\ r.i > Cardinality(Services) => \A s \in Sites : r.seen[s] = now[s]
  /\ r.pc = "read" => r.i = Cardinality(Services) + 1
  /\ r.pc \in {"check", "done"} => r.due = << >>
  /\ r.pc \in {"read", "watch"} => \A j \in 1..(r.i - 1) : Settled(Watch[j], r, active, now)
  /\ r.pc \in After => \A s \in Watched : Settled(s, r, active, now)
  /\ r.pc \in {"tellZone", "tellAdmin"} => Head(r.due).of \in active

\* The alerts of loads and services are for the five-minute tier to raise.
DueOK(r) == \A k \in 1..Len(r.due) : r.due[k].about = "level" <=> r.kind = "health"

Alone(t) == \A u \in Tasks : u # t /\ task[u].kind = "health" => task[u].pc \in {"done", "failed"}

CalmInv ==
  /\ \A t \in Tasks : DueOK(task[t])
  /\ \A t \in Tasks : task[t].calm => Good(task[t], ActiveSet, level) /\ Alone(t)

LEMMA ActiveFacts ==
  ASSUME StoreInv
  PROVE  \A s \in Watched : s \in ActiveSet <=>
           \E j \in 1..Len(alerts) : alerts[j].active /\ alerts[j].about = "level" /\ alerts[j].of = s
<1>1. DOMAIN alerts = 1..Len(alerts)
  BY DEF StoreInv
<1>. QED
  BY <1>1 DEF ActiveSet, ActiveAlerts

LEMMA ActiveFactsNext ==
  ASSUME alerts' \in Seq(AlertDoc)
  PROVE  \A s \in Watched : s \in ActiveSet' <=>
           \E j \in 1..Len(alerts') : alerts'[j].active /\ alerts'[j].about = "level" /\ alerts'[j].of = s
<1>1. DOMAIN alerts' = 1..Len(alerts')
  OBVIOUS
<1>. QED
  BY <1>1 DEF ActiveSet, ActiveAlerts

LEMMA ActiveSame ==
  ASSUME StoreInv, alerts' \in Seq(AlertDoc), Len(alerts') = Len(alerts),
         \A j \in 1..Len(alerts) : /\ alerts'[j].about = alerts[j].about /\ alerts'[j].of = alerts[j].of
                                   /\ alerts'[j].active = alerts[j].active
  PROVE  ActiveSet' = ActiveSet
<1>1. \A s \in Watched : s \in ActiveSet <=> s \in ActiveSet'
  BY ActiveFacts, ActiveFactsNext
<1>. QED
  BY <1>1 DEF ActiveSet

LEMMA ActiveResolved ==
  ASSUME StoreInv, NEW x \in Watched, Resolve(x)
  PROVE  ActiveSet' = ActiveSet \ {x}
<1>1. /\ alerts' \in Seq(AlertDoc) /\ Len(alerts') = Len(alerts)
      /\ \A j \in 1..Len(alerts) :
           /\ alerts'[j].about = alerts[j].about /\ alerts'[j].of = alerts[j].of
           /\ alerts'[j].active <=> (alerts[j].active /\ ~(alerts[j].about = "level" /\ alerts[j].of = x))
  BY ResolveKeeps
<1>2. \A s \in Watched : s \in ActiveSet' <=> (s \in ActiveSet /\ s # x)
  BY <1>1, ActiveFacts, ActiveFactsNext
<1>. QED
  BY <1>2 DEF ActiveSet

LEMMA ActiveRaised ==
  ASSUME RunInv, StoreInv, NEW t \in Tasks, CreateAlert(t)
  PROVE  LET a == Head(task[t].due) IN
         ActiveSet' = ActiveSet \cup (IF a.about = "level" THEN {a.of} \cap Watched ELSE {})
<1>. DEFINE a == Head(task[t].due)
            n == Len(alerts) + 1
            b == [about |-> a.about, of |-> a.of, zone |-> a.zone,
                  active |-> TRUE, told |-> {"room"}, dropped |-> FALSE]
<1>1. /\ a \in AlertDue /\ alerts' \in Seq(AlertDoc) /\ Len(alerts') = Len(alerts) + 1
      /\ \A j \in 1..Len(alerts) : alerts'[j] = alerts[j]
      /\ alerts'[Len(alerts) + 1] = b
  BY RaisedKeeps
<1>2. b.about = a.about /\ b.of = a.of /\ b.active
  OBVIOUS
<1>3. Len(alerts) \in Nat
  BY DEF StoreInv
<1>. HIDE DEF a, b
<1>4. \A j : j \in 1..Len(alerts') <=> (j \in 1..Len(alerts) \/ j = n)
  BY <1>1, <1>3
<1>. HIDE DEF n
<1>5. \A s \in Watched : s \in ActiveSet' <=> (s \in ActiveSet \/ (a.about = "level" /\ a.of = s))
  BY <1>1, <1>2, <1>4, ActiveFacts, ActiveFactsNext DEF n
<1>. QED
  BY <1>5 DEF ActiveSet, a

LEMMA DueAppend ==
  ASSUME NEW S, NEW due \in Seq(S), NEW a \in S
  PROVE  Due(Append(due, a)) = Due(due) \cup {a.of}
<1>. DEFINE e == Append(due, a)
<1>1. /\ Len(due) \in Nat /\ Len(e) = Len(due) + 1 /\ e[Len(e)] = a
      /\ \A k \in 1..Len(due) : e[k] = due[k]
  OBVIOUS
<1>. HIDE DEF e
<1>2. \A k : k \in 1..Len(e) <=> (k \in 1..Len(due) \/ k = Len(e))
  BY <1>1
<1>3. Due(e) = Due(due) \cup {a.of}
  BY <1>1, <1>2 DEF Due
<1>. QED
  BY <1>3 DEF e

LEMMA DueTail ==
  ASSUME NEW S, NEW due \in Seq(S), due # << >>
  PROVE  Due(due) = {Head(due).of} \cup Due(Tail(due))
<1>. DEFINE e == Tail(due)
            h == Head(due)
<1>1. /\ Len(due) \in Nat /\ Len(due) > 0 /\ Len(e) = Len(due) - 1 /\ h = due[1]
      /\ \A k \in 1..Len(e) : e[k] = due[k + 1]
  OBVIOUS
<1>. HIDE DEF e, h
<1>2. \A k \in 1..Len(due) : k = 1 \/ (k - 1 \in 1..Len(e) /\ due[k] = e[k - 1])
  <2>. TAKE k \in 1..Len(due)
  <2>1. CASE k = 1
    BY <2>1
  <2>2. CASE k # 1
    <3>1. k - 1 \in 1..Len(e) /\ (k - 1) + 1 = k
      BY <1>1, <2>2
    <3>. QED
      BY <1>1, <3>1
  <2>. QED
    BY <2>1, <2>2
<1>3. \A k \in 1..Len(e) : k + 1 \in 1..Len(due) /\ e[k] = due[k + 1]
  BY <1>1
<1>4. 1 \in 1..Len(due)
  BY <1>1
<1>5. Due(due) \subseteq {h.of} \cup Due(e)
  BY <1>1, <1>2 DEF Due
<1>6. {h.of} \cup Due(e) \subseteq Due(due)
  BY <1>1, <1>3, <1>4 DEF Due
<1>7. Due(due) = {h.of} \cup Due(e)
  BY <1>5, <1>6
<1>. QED
  BY <1>7 DEF e, h

LEMMA CheckGood ==
  ASSUME SupervisorInv, NEW t \in Tasks, CheckServices(t), Good(task[t], ActiveSet, level)
  PROVE  Good(task'[t], ActiveSet', level') /\ task'[t].due = task[t].due /\ task'[t].kind = task[t].kind
<1>. USE DEF SupervisorInv
<1>. DEFINE q == task[t]
            seen == SeesNow(t, Services)
            pc == WatchPc(1)
            r == [q EXCEPT !.seen = seen, !.pc = pc]
<1>1. q \in RunType /\ Sound(q) /\ q.pc = "check" /\ task' = [task EXCEPT ![t] = r]
  BY DEF RunInv, RunsOK, CheckServices, At, Set
<1>2. q.i = 1 /\ q.due = << >> /\ q.kind = "health"
  BY <1>1 DEF Sound, Good
<1>3. ActiveSet' = ActiveSet /\ level' = level
  BY DEF CheckServices, ActiveSet, ActiveAlerts
<1>4. \A s \in Services : seen[s] = level[s]
  BY DEF SeesNow, Watched
<1>5. /\ pc \in {"raise", "read", "watch"}
      /\ pc = "read" => 1 = Cardinality(Services) + 1
      /\ pc = "watch" => ~(1 > Cardinality(Services))
      /\ pc = "raise" => Watched = {}
  BY WatchFacts DEF WatchPc
<1>6. Listed(q) = {}
  BY <1>2 DEF Listed, Due
<1>. HIDE DEF seen, pc
<1>7. /\ r.seen = seen /\ r.pc = pc /\ r.due = << >> /\ r.i = 1 /\ r.kind = "health"
      /\ task'[t] = r
  BY <1>1, <1>2 DEF RunInv, RunsOK, RunType
<1>. HIDE DEF r
<1>8. Listed(r) = {}
  BY <1>7 DEF Listed, Due
<1>9. Good(r, ActiveSet, level)
  BY <1>4, <1>5, <1>7, <1>8 DEF Good, After
<1>. QED
  BY <1>2, <1>3, <1>7, <1>9

LEMMA ReadGood ==
  ASSUME SupervisorInv, NEW t \in Tasks, ReadSites(t), Good(task[t], ActiveSet, level)
  PROVE  Good(task'[t], ActiveSet', level') /\ task'[t].due = task[t].due /\ task'[t].kind = task[t].kind
<1>. USE DEF SupervisorInv
<1>. DEFINE q == task[t]
            seen == SeesNow(t, Sites)
            r == [q EXCEPT !.seen = seen, !.pc = "watch"]
<1>1. q \in RunType /\ q.pc = "read" /\ task' = [task EXCEPT ![t] = r]
  BY DEF RunInv, RunsOK, ReadSites, At, Set
<1>3. ActiveSet' = ActiveSet /\ level' = level
  BY DEF ReadSites, ActiveSet, ActiveAlerts
<1>4. /\ \A s \in Sites : seen[s] = level[s]
      /\ \A s \in Services : seen[s] = q.seen[s]
  BY NetworkAssumption DEF SeesNow, Watched, Sites
<1>. HIDE DEF seen
<1>7. /\ r.seen = seen /\ r.pc = "watch" /\ r.due = q.due /\ r.i = q.i /\ r.kind = q.kind
      /\ task'[t] = r
  BY <1>1 DEF RunInv, RunsOK, RunType
<1>. HIDE DEF r
<1>8. Listed(r) = Listed(q)
  BY <1>7 DEF Listed
<1>9. \A x : Settled(x, q, ActiveSet, level) => Settled(x, r, ActiveSet, level)
  BY <1>8 DEF Settled
<1>10. Good(r, ActiveSet, level)
  BY <1>1, <1>4, <1>7, <1>8, <1>9 DEF Good, After
<1>. QED
  BY <1>3, <1>7, <1>10

\* The steps that leave what a run has to raise as it is.
LEMMA SameDue ==
  ASSUME RunsOK, NEW t \in Tasks,
         \/ CheckServices(t) \/ ReadSites(t) \/ CreateAlert(t) \/ TellManager(t) \/ IngestStep(t)
         \/ DetectStep(t) \/ Look(t) \/ Plan(t) \/ WriteReport(t) \/ Throws(t)
  PROVE  task'[t].due = task[t].due
<1>. DEFINE q == task[t]
<1>1. q \in RunType /\ \A r : Set(t, r) => task'[t] = r
  BY DEF RunsOK, Set
<1>2. ASSUME NEW pc, Set(t, [q EXCEPT !.pc = pc]) PROVE task'[t].due = q.due
  BY <1>1, <1>2 DEF RunType
<1>3. ASSUME NEW pc, NEW seen, Set(t, [q EXCEPT !.seen = seen, !.pc = pc]) PROVE task'[t].due = q.due
  BY <1>1, <1>3 DEF RunType
<1>4. CASE CheckServices(t) \/ ReadSites(t)
  <2>1. \E pc, seen : Set(t, [q EXCEPT !.seen = seen, !.pc = pc])
    BY <1>4 DEF CheckServices, ReadSites
  <2>. QED
    BY <2>1, <1>3
<1>5. CASE CreateAlert(t)
  <2>1. PICK n, pc : Set(t, [q EXCEPT !.doc = n, !.pc = pc])
    BY <1>5 DEF CreateAlert
  <2>. QED
    BY <1>1, <2>1 DEF RunType
<1>6. CASE TellManager(t) \/ WriteReport(t) \/ Throws(t)
  <2>1. \E pc : Set(t, [q EXCEPT !.pc = pc])
    BY <1>6 DEF TellManager, WriteReport, Throws
  <2>. QED
    BY <2>1, <1>2
<1>7. CASE IngestStep(t)
  <2>1. \/ \E pc : Set(t, [q EXCEPT !.pc = pc])
        \/ \E plan : Set(t, [q EXCEPT !.plan = plan])
        \/ \E pc, n : Set(t, [q EXCEPT !.pc = pc, !.doc = n])
        \/ \E pc, n, plan : Set(t, [q EXCEPT !.pc = pc, !.plan = plan, !.doc = n])
    BY <1>7 DEF IngestStep, FindDuplicate, CreateRecommendation
  <2>2. ASSUME NEW plan, Set(t, [q EXCEPT !.plan = plan]) PROVE task'[t].due = q.due
    BY <1>1, <2>2 DEF RunType
  <2>3. ASSUME NEW pc, NEW n, Set(t, [q EXCEPT !.pc = pc, !.doc = n]) PROVE task'[t].due = q.due
    BY <1>1, <2>3 DEF RunType
  <2>4. ASSUME NEW pc, NEW n, NEW plan, Set(t, [q EXCEPT !.pc = pc, !.plan = plan, !.doc = n])
        PROVE  task'[t].due = q.due
    BY <1>1, <2>4 DEF RunType
  <2>. QED
    BY <2>1, <1>2, <2>2, <2>3, <2>4
<1>8. CASE DetectStep(t)
  <2>1. ASSUME NEW pc, NEW i, NEW plan, Set(t, [q EXCEPT !.pc = pc, !.i = i, !.verdict = None, !.plan = plan])
        PROVE  task'[t].due = q.due
    BY <1>1, <2>1 DEF RunType
  <2>2. ASSUME NEW pc, NEW i, Set(t, [q EXCEPT !.pc = pc, !.i = i]) PROVE task'[t].due = q.due
    BY <1>1, <2>2 DEF RunType
  <2>3. ASSUME NEW i, NEW v, Set(t, [q EXCEPT !.pc = "match", !.i = i, !.verdict = v])
        PROVE  task'[t].due = q.due
    BY <1>1, <2>3 DEF RunType
  <2>4. Stored(t) => \E pc, i, plan : Set(t, [q EXCEPT !.pc = pc, !.i = i, !.verdict = None, !.plan = plan])
    BY DEF Stored
  <2>5. \/ Stored(t) \/ \E pc : Set(t, [q EXCEPT !.pc = pc])
        \/ \E pc, i : Set(t, [q EXCEPT !.pc = pc, !.i = i])
        \/ \E i, v : Set(t, [q EXCEPT !.pc = "match", !.i = i, !.verdict = v])
    BY <1>8 DEF DetectStep, ReadAll, Assess, AssessZone, MatchAnomaly, InsertAnomaly
  <2>. QED
    BY <1>2, <2>1, <2>2, <2>3, <2>4, <2>5
<1>9. CASE Look(t)
  <2>1. PICK seen, plan : Set(t, [q EXCEPT !.seen = seen, !.plan = plan, !.pc = "predict"])
    BY <1>9 DEF Look
  <2>. QED
    BY <1>1, <2>1 DEF RunType
<1>10. CASE Plan(t)
  <2>1. \/ Set(t, [q EXCEPT !.pc = "ingest", !.i = 1, !.seen = Unseen, !.hot = {}])
        \/ \E i, plan : Set(t, [q EXCEPT !.i = i, !.plan = plan])
    BY <1>10 DEF Plan
  <2>2. ASSUME Set(t, [q EXCEPT !.pc = "ingest", !.i = 1, !.seen = Unseen, !.hot = {}])
        PROVE  task'[t].due = q.due
    BY <1>1, <2>2 DEF RunType
  <2>3. ASSUME NEW i, NEW plan, Set(t, [q EXCEPT !.i = i, !.plan = plan]) PROVE task'[t].due = q.due
    BY <1>1, <2>3 DEF RunType
  <2>. QED
    BY <2>1, <2>2, <2>3
<1>. QED
  BY <1>4, <1>5, <1>6, <1>7, <1>8, <1>9, <1>10

LEMMA DueStep ==
  ASSUME SupervisorInv, NEW t \in Tasks, Inner(t), DueOK(task[t])
  PROVE  DueOK(task'[t])
<1>. USE DEF SupervisorInv
<1>. DEFINE q == task[t]
            r == task'[t]
<1>1. /\ q \in RunType /\ Sound(q) /\ RunsOK
      /\ r.kind = q.kind
  <2>1. Moves(t)
    BY InnerMoves DEF RunInv, StoreInv
  <2>. QED
    BY <2>1 DEF RunInv, RunsOK, Moves, Kept
<1>2. CASE r.due = q.due
  BY <1>1, <1>2 DEF DueOK
<1>3. ASSUME q.due # << >>, r.due = Tail(q.due) PROVE DueOK(r)
  <2>. DEFINE e == Tail(q.due)
  <2>1. /\ Len(e) = Len(q.due) - 1 /\ Len(q.due) \in Nat
        /\ \A k \in 1..Len(e) : e[k] = q.due[k + 1] /\ k + 1 \in 1..Len(q.due)
    BY <1>1, <1>3 DEF RunType
  <2>2. r.due = e
    BY <1>3
  <2>. HIDE DEF e, r, q
  <2>. QED
    BY <1>1, <2>1, <2>2 DEF DueOK, q
<1>4. CASE FindAlert(t)
  <2>. DEFINE d == Tail(q.due)
              x == [q EXCEPT !.due = d]
  <2>1. (\E pc : Set(t, [q EXCEPT !.pc = pc])) \/ (q.due # << >> /\ Set(t, x))
    BY <1>4 DEF FindAlert
  <2>2. ASSUME NEW pc, Set(t, [q EXCEPT !.pc = pc]) PROVE r.due = q.due
    BY <1>1, <2>2 DEF RunType, Set, RunsOK
  <2>. HIDE DEF d
  <2>3. x.due = d
    BY <1>1 DEF RunType
  <2>4. Set(t, x) => r = x
    BY <1>1 DEF Set, RunsOK
  <2>. QED
    BY <2>1, <2>2, <2>3, <2>4, <1>2, <1>3 DEF d
<1>5. CASE TellAdmins(t)
  <2>. DEFINE d == Tail(q.due)
              x == [q EXCEPT !.pc = "raise", !.due = d, !.doc = 0]
  <2>1. q.due # << >> /\ task' = [task EXCEPT ![t] = x]
    BY <1>1, <1>5 DEF TellAdmins, NextAlert, Set, At, Sound
  <2>. HIDE DEF d
  <2>3. x.due = d
    BY <1>1 DEF RunType
  <2>4. r = x
    BY <1>1, <2>1 DEF RunsOK
  <2>. QED
    BY <2>1, <2>3, <2>4, <1>3 DEF d
<1>6. CASE WatchOne(t)
  <2>. DEFINE i == q.i
              s == Watch[i]
              last == WatchPc(i + 1) = "raise"
              pc == WatchPc(i + 1)
              next == [q EXCEPT !.i = IF last THEN 1 ELSE i + 1, !.pc = pc,
                                !.seen = IF last THEN Unseen ELSE q.seen]
              a == Alert("level", s, IF s \in Services THEN None ELSE ZoneOf[s])
              due == Append(next.due, a)
              more == [next EXCEPT !.due = due]
  <2>1. q.pc = "watch" /\ (task' = [task EXCEPT ![t] = next] \/ task' = [task EXCEPT ![t] = more])
    BY <1>6 DEF WatchOne, At, Set
  <2>2. next.due = q.due
    BY <1>1 DEF RunType
  <2>3. more.due = due
    <3>. HIDE DEF due, pc, last, i
    <3>. QED
      BY <1>1 DEF RunType
  <2>. HIDE DEF next, more
  <2>4. r.due = q.due \/ r.due = Append(q.due, a)
    BY <1>1, <2>1, <2>2, <2>3 DEF RunsOK
  <2>5. a.about = "level" /\ q.kind = "health"
    BY <1>1, <2>1 DEF Alert, Sound, PcOf, RunType, Kinds
  <2>. HIDE DEF a
  <2>6. CASE r.due = Append(q.due, a)
    <3>1. q.due \in Seq(AlertDue)
      BY <1>1 DEF RunType
    <3>2. /\ Len(q.due) \in Nat /\ Len(r.due) = Len(q.due) + 1 /\ r.due[Len(q.due) + 1] = a
          /\ \A k \in 1..Len(q.due) : r.due[k] = q.due[k]
      BY <3>1, <2>6
    <3>3. \A k \in 1..Len(r.due) : r.due[k].about = "level"
      <4>. TAKE k \in 1..Len(r.due)
      <4>1. k \in 1..Len(q.due) \/ k = Len(q.due) + 1
        BY <3>2
      <4>2. \A n \in 1..Len(q.due) : q.due[n].about = "level"
        BY <2>5 DEF DueOK
      <4>. QED
        BY <4>1, <4>2, <3>2, <2>5
    <3>. QED
      BY <1>1, <2>5, <3>3 DEF DueOK
  <2>. QED
    BY <2>4, <2>6, <1>2
<1>7. CASE Predict(t)
  <2>. DEFINE Raised(sure) == [k \in DOMAIN SetToSeq(sure) |->
                                 Alert("predicted", SetToSeq(sure)[k], ZoneOf[SetToSeq(sure)[k]])]
  <2>0. PICK hot \in SUBSET Predictable(t) : \E sure \in SUBSET hot :
          task' = [task EXCEPT ![t] = [q EXCEPT !.hot = hot, !.pc = IF sure = {} THEN "plan" ELSE "raise",
                                                !.due = Raised(sure)]]
    BY <1>7 DEF Predict, Set
  <2>1. PICK sure \in SUBSET hot :
          task' = [task EXCEPT ![t] = [q EXCEPT !.hot = hot, !.pc = IF sure = {} THEN "plan" ELSE "raise",
                                                !.due = Raised(sure)]]
    BY <2>0
  <2>. DEFINE pc == IF sure = {} THEN "plan" ELSE "raise"
              due == Raised(sure)
              x == [q EXCEPT !.hot = hot, !.pc = pc, !.due = due]
  <2>2. q.pc = "predict" /\ r = x
    BY <1>1, <1>7, <2>1 DEF RunsOK, Predict, At
  <2>3. q.kind # "health"
    BY <1>1, <2>2 DEF Sound, PcOf, RunType, Kinds
  <2>4. SetToSeq(sure) \in Seq(sure)
    <3>1. Nros \in SUBSET Nros /\ sure \in SUBSET Nros
      BY DEF Predictable
    <3>2. IsFiniteSet(sure)
      BY <3>1, NetworkAssumption, FS_Subset
    <3>. QED
      BY <3>2, SetToSeqType
  <2>5. \A k \in 1..Len(due) : due[k].about = "predicted"
    <3>. DEFINE nros == SetToSeq(sure)
    <3>1. nros \in Seq(sure)
      BY <2>4
    <3>. HIDE DEF nros
    <3>2. DOMAIN nros = 1..Len(nros) /\ Len(nros) \in Nat
      BY <3>1
    <3>. DEFINE d == [k \in 1..Len(nros) |-> Alert("predicted", nros[k], ZoneOf[nros[k]])]
    <3>3. Len(d) = Len(nros) /\ \A k \in 1..Len(d) : d[k].about = "predicted"
      BY <3>2 DEF Alert
    <3>4. due = d
      BY <3>2 DEF nros
    <3>. QED
      BY <3>3, <3>4
  <2>. HIDE DEF due, pc
  <2>6. x.due = due
    BY <1>1 DEF RunType
  <2>. QED
    BY <1>1, <2>2, <2>3, <2>5, <2>6 DEF DueOK
<1>8. CASE AnalyzeComplaints(t)
  <2>. DEFINE one == <<Alert("complaints", None, None)>>
  <2>1. PICK plan, due : Set(t, [q EXCEPT !.plan = plan, !.pc = "ingest", !.due = due]) /\ due \in {one, << >>}
    BY <1>8 DEF AnalyzeComplaints
  <2>2. r.due = due
    BY <1>1, <2>1 DEF RunType, Set, RunsOK
  <2>3. q.kind # "health"
    BY <1>1, <1>8 DEF AnalyzeComplaints, At, Sound, PcOf, RunType, Kinds
  <2>4. \A k \in 1..Len(one) : one[k].about = "complaints"
    BY DEF Alert
  <2>5. \A k \in 1..Len(<< >>) : FALSE
    OBVIOUS
  <2>. HIDE DEF one
  <2>. QED
    BY <1>1, <2>1, <2>2, <2>3, <2>4, <2>5 DEF DueOK
<1>. QED
  BY <1>1, <1>2, <1>4, <1>5, <1>6, <1>7, <1>8, SameDue
     DEF Inner, AnalysisStep, HealthStep, RaiseStep

\* One more is looked at: what is over its threshold is to be raised, anything else resolved.
LEMMA WatchSettles ==
  ASSUME NEW q, NEW r, NEW active, NEW active2, NEW now, Good(q, active, now), q.pc = "watch",
         q.i \in DOMAIN Watch, q.i \in Nat \ {0}, r.kind = q.kind, r.pc = WatchPc(q.i + 1),
         r.pc # "raise" => r.i = q.i + 1 /\ r.seen = q.seen,
         \/ Breach(Watch[q.i], now[Watch[q.i]]) /\ Listed(r) = Listed(q) \cup {Watch[q.i]} /\ active2 = active
         \/ ~Breach(Watch[q.i], now[Watch[q.i]]) /\ Listed(r) = Listed(q) /\ active2 = active \ {Watch[q.i]}
  PROVE  Good(r, active2, now)
<1>. DEFINE i == q.i
            s == Watch[i]
            n == Cardinality(Services)
<1>1. s \in Watched /\ n \in Nat /\ Len(Watch) \in Nat /\ i \in 1..Len(Watch) /\ DOMAIN Watch = 1..Len(Watch)
  BY WatchFacts
<1>2. \A x \in Listed(q) : x \in Watched /\ Breach(x, now[x])
  BY DEF Good
<1>3. \A j \in 1..(i - 1) : Settled(Watch[j], q, active, now)
  BY DEF Good
<1>4. \A x : Settled(x, q, active, now) => Settled(x, r, active2, now)
  BY <1>2 DEF Settled
<1>5. Settled(s, r, active2, now)
  <2>1. CASE Breach(s, now[s])
    BY <2>1 DEF Settled
  <2>2. CASE ~Breach(s, now[s])
    BY <2>2 DEF Settled
  <2>. QED
    BY <2>1, <2>2
<1>6. \A j \in 1..i : Settled(Watch[j], r, active2, now)
  <2>. TAKE j \in 1..i
  <2>1. j \in 1..(i - 1) \/ j = i
    BY <1>1
  <2>. QED
    BY <2>1, <1>3, <1>4, <1>5
<1>7. \A x \in Listed(r) : x \in Watched /\ Breach(x, now[x])
  BY <1>1, <1>2
<1>8. /\ r.pc \in {"raise", "read", "watch"}
      /\ r.pc = "raise" <=> i + 1 > Len(Watch)
      /\ r.pc = "read" => i + 1 = n + 1
      /\ r.pc = "watch" => i + 1 # n + 1
  BY <1>1 DEF WatchPc
<1>9. r.kind = "health"
  BY DEF Good
<1>10. ASSUME r.pc \in {"read", "watch"}
       PROVE  /\ \A x \in Services : r.seen[x] = now[x]
              /\ r.pc = "watch" /\ r.i > n => \A x \in Sites : r.seen[x] = now[x]
              /\ r.pc = "read" => r.i = n + 1
              /\ \A j \in 1..(r.i - 1) : Settled(Watch[j], r, active2, now)
  <2>1. r.i = i + 1 /\ r.seen = q.seen /\ (r.i - 1) = i
    BY <1>10, <1>1
  <2>2. \A x \in Services : r.seen[x] = now[x]
    BY <2>1 DEF Good
  <2>3. r.pc = "watch" /\ r.i > n => i > n
    BY <2>1, <1>1, <1>8
  <2>4. r.pc = "watch" /\ r.i > n => \A x \in Sites : r.seen[x] = now[x]
    BY <2>1, <2>3 DEF Good
  <2>. QED
    BY <2>1, <2>2, <2>4, <1>6, <1>8
<1>11. ASSUME r.pc = "raise" PROVE \A x \in Watched : Settled(x, r, active2, now)
  <2>1. i = Len(Watch)
    BY <1>11, <1>1, <1>8
  <2>2. \A x \in Watched : \E j \in 1..i : Watch[j] = x
    BY <2>1, <1>1, WatchFacts
  <2>. QED
    BY <2>2, <1>6
<1>. QED
  BY <1>7, <1>8, <1>9, <1>10, <1>11 DEF Good, After

\* What is raised was to be raised.
LEMMA RaiseSettles ==
  ASSUME NEW q, NEW r, NEW active, NEW active2, NEW now, Good(q, active, now), q.pc \in After,
         r.kind = q.kind, r.pc \in After, r.pc = "done" => r.due = << >>,
         r.pc \in {"tellZone", "tellAdmin"} => Head(r.due).of \in active2,
         active \subseteq active2, active2 \subseteq active \cup Listed(q), Listed(r) \subseteq Listed(q),
         active \cup Listed(q) \subseteq active2 \cup Listed(r)
  PROVE  Good(r, active2, now)
<1>1. /\ r.kind = "health"
      /\ \A x \in Listed(q) : x \in Watched /\ Breach(x, now[x])
      /\ \A x \in Watched : Settled(x, q, active, now)
  BY DEF Good
<1>2. \A x \in Watched : Settled(x, r, active2, now)
  BY <1>1 DEF Settled
<1>3. r.pc \notin {"read", "watch", "check"}
  BY DEF After
<1>. QED
  BY <1>1, <1>2, <1>3 DEF Good

LEMMA WatchGood ==
  ASSUME SupervisorInv, NEW t \in Tasks, WatchOne(t), Good(task[t], ActiveSet, level)
  PROVE  Good(task'[t], ActiveSet', level')
<1>. USE DEF SupervisorInv
<1>. DEFINE q == task[t]
            i == q.i
            s == Watch[i]
            last == WatchPc(i + 1) = "raise"
            j == IF last THEN 1 ELSE i + 1
            seen == IF last THEN Unseen ELSE q.seen
            pc == WatchPc(i + 1)
            next == [q EXCEPT !.i = j, !.pc = pc, !.seen = seen]
            a == Alert("level", s, IF s \in Services THEN None ELSE ZoneOf[s])
            more == [next EXCEPT !.due = Append(next.due, a)]
<1>1. q \in RunType /\ Sound(q) /\ q.pc = "watch" /\ q.kind = "health"
  BY DEF RunInv, RunsOK, WatchOne, At, Good
<1>2. i \in DOMAIN Watch /\ i \in Nat \ {0} /\ s \in Watched
  BY <1>1, WatchFacts DEF Sound, RunType
<1>3. q.seen[s] = level[s]
  <2>1. s \in Services => q.seen[s] = level[s]
    BY <1>1 DEF Good
  <2>2. s \notin Services => i > Cardinality(Services) /\ s \in Sites
    BY <1>2, WatchFacts DEF Watched, RunType
  <2>. QED
    BY <1>1, <2>1, <2>2 DEF Good
<1>4. /\ level' = level
      /\ \/ Breach(s, level[s]) /\ task' = [task EXCEPT ![t] = more] /\ UNCHANGED alerts
         \/ ~Breach(s, level[s]) /\ task' = [task EXCEPT ![t] = next] /\ Resolve(s)
  BY <1>3 DEF WatchOne, Set
<1>5. a.of = s
  BY DEF Alert
<1>. HIDE DEF a
<1>6. /\ next.kind = q.kind /\ next.pc = pc /\ next.i = j /\ next.seen = seen /\ next.due = q.due
      /\ next \in [kind : {q.kind}, pc : {pc}, scope : {q.scope}, lang : {q.lang}, i : {j}, seen : {seen},
                   due : {q.due}, plan : {q.plan}, on : {q.on}, calm : {q.calm}, doc : {q.doc},
                   verdict : {q.verdict}, hot : {q.hot}, from : {q.from}]
  <2>. HIDE DEF pc, j, seen
  <2>. QED
    BY <1>1 DEF RunType
<1>7. /\ more.kind = q.kind /\ more.pc = pc /\ more.i = j /\ more.seen = seen
      /\ more.due = Append(q.due, a)
  <2>. HIDE DEF next, pc, j, seen
  <2>. QED
    BY <1>6
<1>8. pc # "raise" => j = i + 1 /\ seen = q.seen
  OBVIOUS
<1>. HIDE DEF next, more, j, seen, pc, last
<1>9. Listed(next) = Listed(q) /\ Listed(more) = Listed(q) \cup {s}
  <2>1. Listed(next) = Listed(q)
    BY <1>6 DEF Listed
  <2>2. q.due \in Seq({q.due[k] : k \in DOMAIN q.due} \cup {a})
    BY <1>1 DEF RunType
  <2>3. Due(Append(q.due, a)) = Due(q.due) \cup {s}
    BY <1>5, <2>2, DueAppend
  <2>. QED
    BY <1>7, <2>1, <2>3 DEF Listed
<1>10. CASE Breach(s, level[s])
  <2>1. ActiveSet' = ActiveSet /\ task'[t] = more
    BY <1>4, <1>10 DEF ActiveSet, ActiveAlerts, RunInv, RunsOK
  <2>2. Good(more, ActiveSet, level)
    BY <1>1, <1>2, <1>7, <1>8, <1>9, <1>10, WatchSettles DEF pc
  <2>. QED
    BY <2>1, <2>2, <1>4
<1>11. CASE ~Breach(s, level[s])
  <2>1. ActiveSet' = ActiveSet \ {s} /\ task'[t] = next
    BY <1>2, <1>4, <1>11, ActiveResolved DEF RunInv, RunsOK
  <2>2. Good(next, ActiveSet \ {s}, level)
    BY <1>1, <1>2, <1>6, <1>8, <1>9, <1>11, WatchSettles DEF pc
  <2>. QED
    BY <2>1, <2>2, <1>4
<1>. QED
  BY <1>10, <1>11

LEMMA FindGood ==
  ASSUME SupervisorInv, NEW t \in Tasks, FindAlert(t), Good(task[t], ActiveSet, level), DueOK(task[t])
  PROVE  Good(task'[t], ActiveSet', level')
<1>. USE DEF SupervisorInv
<1>. DEFINE q == task[t]
            due == q.due
            d == Tail(due)
            h == Head(due)
            r1 == [q EXCEPT !.pc = "done"]
            r2 == [q EXCEPT !.due = d]
            r3 == [q EXCEPT !.pc = "create"]
<1>1. q \in RunType /\ q.pc = "raise" /\ q.kind = "health"
  BY DEF RunInv, RunsOK, FindAlert, At, Good
<1>2. AfterRaise[q.kind] = "done"
  BY <1>1 DEF AfterRaise
<1>3. \/ due = << >> /\ task' = [task EXCEPT ![t] = r1]
      \/ due # << >> /\ ActiveAlerts(h.about, h.of) # {} /\ task' = [task EXCEPT ![t] = r2]
      \/ due # << >> /\ task' = [task EXCEPT ![t] = r3]
  BY <1>2 DEF FindAlert, Set
<1>4. ActiveSet' = ActiveSet /\ level' = level
  BY DEF FindAlert, ActiveSet, ActiveAlerts
<1>5. due \in Seq(AlertDue)
  BY <1>1 DEF RunType
<1>6. ASSUME due # << >>
      PROVE  h.about = "level" /\ Due(due) = {h.of} \cup Due(d) /\ h.of \in Watched
  <2>1. 1 \in 1..Len(due) /\ h = due[1]
    BY <1>5, <1>6
  <2>2. Due(due) = {h.of} \cup Due(d)
    BY <1>5, <1>6, DueTail
  <2>3. h.of \in Listed(q)
    BY <2>2 DEF Listed
  <2>. QED
    BY <1>1, <2>1, <2>2, <2>3 DEF DueOK, Good
<1>. HIDE DEF d, h
<1>7. /\ r1.pc = "done" /\ r1.due = due /\ r1.kind = q.kind
      /\ r2.pc = "raise" /\ r2.due = d /\ r2.kind = q.kind
      /\ r3.pc = "create" /\ r3.due = due /\ r3.kind = q.kind
  BY <1>1 DEF RunType
<1>. HIDE DEF r1, r2, r3
<1>8. Listed(r1) = Listed(q) /\ Listed(r2) = Due(d) /\ Listed(r3) = Listed(q) /\ Listed(q) = Due(due)
  BY <1>7 DEF Listed
<1>9. due = << >> => Good(r1, ActiveSet, level)
  BY <1>1, <1>7, <1>8, RaiseSettles DEF After
<1>10. Good(r3, ActiveSet, level)
  BY <1>1, <1>7, <1>8, RaiseSettles DEF After
<1>11. ASSUME due # << >>, ActiveAlerts(h.about, h.of) # {} PROVE Good(r2, ActiveSet, level)
  <2>1. h.of \in ActiveSet
    BY <1>6, <1>11 DEF ActiveSet
  <2>. QED
    BY <1>1, <1>6, <1>7, <1>8, <1>11, <2>1, RaiseSettles DEF After
<1>. QED
  BY <1>3, <1>4, <1>9, <1>10, <1>11 DEF RunInv, RunsOK

LEMMA CreateGood ==
  ASSUME SupervisorInv, NEW t \in Tasks, CreateAlert(t), Good(task[t], ActiveSet, level), DueOK(task[t])
  PROVE  Good(task'[t], ActiveSet', level')
<1>. USE DEF SupervisorInv
<1>. DEFINE q == task[t]
            h == Head(q.due)
            n == Len(alerts) + 1
            pc == IF h.zone = None THEN "tellAdmin" ELSE "tellZone"
            r == [q EXCEPT !.doc = n, !.pc = pc]
<1>1. q \in RunType /\ Sound(q) /\ q.pc = "create" /\ q.kind = "health"
  BY DEF RunInv, RunsOK, CreateAlert, At, Good
<1>2. task' = [task EXCEPT ![t] = r] /\ level' = level
  BY DEF CreateAlert, Set
<1>3. h.about = "level" /\ h.of \in Listed(q) /\ h.of \in Watched
  <2>1. q.due \in Seq(AlertDue) /\ q.due # << >>
    BY <1>1 DEF Sound, RunType
  <2>2. 1 \in 1..Len(q.due) /\ h = q.due[1]
    BY <2>1
  <2>. QED
    BY <1>1, <2>2 DEF DueOK, Good, Listed, Due
<1>4. ActiveSet' = ActiveSet \cup {h.of}
  <2>1. ActiveSet' = ActiveSet \cup (IF h.about = "level" THEN {h.of} \cap Watched ELSE {})
    BY ActiveRaised
  <2>. QED
    BY <2>1, <1>3
<1>5. pc \in {"tellAdmin", "tellZone"}
  OBVIOUS
<1>. HIDE DEF n, pc
<1>6. r.pc = pc /\ r.due = q.due /\ r.kind = q.kind
  BY <1>1 DEF RunType
<1>. HIDE DEF r
<1>7. Listed(r) = Listed(q)
  BY <1>6 DEF Listed
<1>8. Good(r, ActiveSet \cup {h.of}, level)
  BY <1>1, <1>3, <1>5, <1>6, <1>7, RaiseSettles DEF After
<1>. QED
  BY <1>2, <1>4, <1>8 DEF RunInv, RunsOK

LEMMA TellGood ==
  ASSUME SupervisorInv, NEW t \in Tasks, TellManager(t) \/ TellAdmins(t), Good(task[t], ActiveSet, level)
  PROVE  Good(task'[t], ActiveSet', level')
<1>. USE DEF SupervisorInv
<1>. DEFINE q == task[t]
            h == Head(q.due)
            d == Tail(q.due)
            r1 == [q EXCEPT !.pc = "tellAdmin"]
            r2 == [q EXCEPT !.pc = "raise", !.due = d, !.doc = 0]
<1>1. q \in RunType /\ Sound(q) /\ q.pc \in {"tellZone", "tellAdmin"} /\ q.kind = "health"
  BY DEF RunInv, RunsOK, TellManager, TellAdmins, At, Good
<1>2. (task' = [task EXCEPT ![t] = r1] \/ task' = [task EXCEPT ![t] = r2]) /\ level' = level
  BY DEF TellManager, TellAdmins, NextAlert, Set
<1>3. ActiveSet' = ActiveSet
  <2>1. Hears(t, "manager") \/ Hears(t, "admin")
    BY DEF TellManager, TellAdmins
  <2>2. /\ alerts' \in Seq(AlertDoc) /\ Len(alerts') = Len(alerts)
        /\ \A j \in 1..Len(alerts) : /\ alerts'[j].about = alerts[j].about /\ alerts'[j].of = alerts[j].of
                                     /\ alerts'[j].active = alerts[j].active
    BY <2>1, HearsKeeps
  <2>. QED
    BY <2>2, ActiveSame
<1>4. h.of \in ActiveSet
  BY <1>1 DEF Good
<1>5. Due(q.due) = {h.of} \cup Due(d)
  <2>1. q.due \in Seq(AlertDue) /\ q.due # << >>
    BY <1>1 DEF Sound, RunType
  <2>. QED
    BY <2>1, DueTail
<1>. HIDE DEF d
<1>6. /\ r1.pc = "tellAdmin" /\ r1.due = q.due /\ r1.kind = q.kind
      /\ r2.pc = "raise" /\ r2.due = d /\ r2.kind = q.kind
  BY <1>1 DEF RunType
<1>. HIDE DEF r1, r2
<1>7. Listed(r1) = Listed(q) /\ Listed(r2) = Due(d) /\ Listed(q) = Due(q.due)
  BY <1>6 DEF Listed
<1>8. Good(r1, ActiveSet, level)
  BY <1>1, <1>4, <1>6, <1>7, RaiseSettles DEF After
<1>9. Good(r2, ActiveSet, level)
  BY <1>1, <1>4, <1>5, <1>6, <1>7, RaiseSettles DEF After
<1>. QED
  BY <1>2, <1>3, <1>8, <1>9 DEF RunInv, RunsOK

LEMMA ThrowsGood ==
  ASSUME SupervisorInv, NEW t \in Tasks, Throws(t), Good(task[t], ActiveSet, level)
  PROVE  Good(task'[t], ActiveSet', level')
<1>. USE DEF SupervisorInv
<1>. DEFINE q == task[t]
            r == [q EXCEPT !.pc = "failed"]
<1>1. q \in RunType /\ task' = [task EXCEPT ![t] = r] /\ level' = level
  BY DEF RunInv, RunsOK, Throws, Set
<1>2. r.pc = "failed" /\ r.due = q.due /\ r.kind = q.kind
  BY <1>1 DEF RunType
<1>. HIDE DEF r
<1>3. Listed(r) = Listed(q)
  BY <1>2 DEF Listed
<1>4. Good(r, ActiveSet', level')
  BY <1>1, <1>2, <1>3 DEF Good, After
<1>. QED
  BY <1>1, <1>4 DEF RunInv, RunsOK

\* What a calm run does on its own.
LEMMA OwnGood ==
  ASSUME SupervisorInv, NEW t \in Tasks, Inner(t), Good(task[t], ActiveSet, level), DueOK(task[t])
  PROVE  Good(task'[t], ActiveSet', level')
<1>1. task[t].kind = "health" /\ Sound(task[t])
  BY DEF Good, SupervisorInv, RunInv, RunsOK
<1>2. task[t].pc \in {"check", "read", "watch", "raise", "create", "tellZone", "tellAdmin", "done", "failed"}
  BY <1>1 DEF Sound, PcOf
<1>3. ~(AnalysisStep(t) \/ AnalyzeComplaints(t) \/ WriteReport(t) \/ IngestStep(t) \/ DetectStep(t))
  BY <1>1, <1>2 DEF AnalysisStep, Look, Predict, Plan, AnalyzeComplaints, WriteReport, IngestStep,
     FindDuplicate, CreateRecommendation, DetectStep, ReadAll, Assess, AssessZone, MatchAnomaly, InsertAnomaly, At
<1>. QED
  BY <1>3, CheckGood, ReadGood, WatchGood, FindGood, CreateGood, TellGood, ThrowsGood
     DEF Inner, HealthStep, RaiseStep

\* What has an active alert changes with five-minute tiers only.
LEMMA OthersActive ==
  ASSUME SupervisorInv, NEW t \in Tasks, Step(t) \/ Throws(t), task[t].kind # "health", DueOK(task[t])
  PROVE  ActiveSet' = ActiveSet /\ level' = level
<1>. USE DEF SupervisorInv
<1>. DEFINE q == task[t]
<1>1. q \in RunType /\ Sound(q)
  BY DEF RunInv, RunsOK
<1>2. q.pc \notin {"check", "watch"}
  BY <1>1 DEF Sound, PcOf, RunType, Kinds
<1>3. UNCHANGED alerts => ActiveSet' = ActiveSet
  BY DEF ActiveSet, ActiveAlerts
<1>4. ASSUME alerts' \in Seq(AlertDoc), Len(alerts') = Len(alerts),
             \A j \in 1..Len(alerts) : /\ alerts'[j].about = alerts[j].about /\ alerts'[j].of = alerts[j].of
                                       /\ alerts'[j].active = alerts[j].active
      PROVE  ActiveSet' = ActiveSet
  BY <1>4, ActiveSame
<1>5. CASE CreateAlert(t)
  <2>. DEFINE h == Head(q.due)
  <2>1. q.pc = "create" /\ level' = level
    BY <1>5 DEF CreateAlert, At
  <2>2. q.due \in Seq(AlertDue) /\ q.due # << >>
    BY <1>1, <2>1 DEF Sound, RunType
  <2>3. 1 \in 1..Len(q.due) /\ h = q.due[1]
    BY <2>2
  <2>4. h.about # "level"
    BY <2>3 DEF DueOK
  <2>5. ActiveSet' = ActiveSet \cup (IF h.about = "level" THEN {h.of} \cap Watched ELSE {})
    BY <1>5, ActiveRaised
  <2>. QED
    BY <2>1, <2>4, <2>5
<1>6. CASE TellManager(t) \/ TellAdmins(t)
  <2>1. (Hears(t, "manager") \/ Hears(t, "admin")) /\ level' = level
    BY <1>6 DEF TellManager, TellAdmins
  <2>. QED
    BY <2>1, <1>4, HearsKeeps
<1>7. CASE Throws(t)
  <2>1. DropNotices({t}) /\ level' = level
    BY <1>7 DEF Throws
  <2>. QED
    BY <2>1, <1>4, DropKeeps
<1>8. CASE OwnStep(t)
  BY <1>3, <1>8 DEF OwnStep, JoinAnalysis, AnalysisStep, AnalyzeComplaints, Look, Predict, Plan, OnlyTask,
                    storeVars, WriteReport, Settle
<1>9. CASE HealthStep(t) \/ FindAlert(t)
  BY <1>2, <1>3, <1>9 DEF HealthStep, CheckServices, ReadSites, WatchOne, FindAlert, At
<1>10. CASE IngestStep(t) /\ UNCHANGED alerts
  BY <1>3, <1>10 DEF IngestStep, FindDuplicate, CreateRecommendation
<1>11. CASE DetectStep(t) /\ UNCHANGED alerts
  BY <1>3, <1>11 DEF DetectStep, ReadAll, Assess, AssessZone, MatchAnomaly, InsertAnomaly
<1>. QED
  BY <1>5, <1>6, <1>7, <1>8, <1>9, <1>10, <1>11 DEF Step, RaiseStep

\* Whatever else goes on.
LEMMA CalmCarries ==
  ASSUME CalmInv, ActiveSet' = ActiveSet, level' = level,
         \A u \in Tasks : task'[u] = task[u]
           \/ (task'[u].kind # "health" /\ ~task'[u].calm /\ DueOK(task'[u]))
  PROVE  CalmInv'
<1>. DEFINE A == ActiveSet
            L == level
<1>1. ASSUME NEW u \in Tasks PROVE DueOK(task'[u])
  <2>1. DueOK(task[u])
    BY DEF CalmInv
  <2>. QED
    BY <2>1
<1>2. ASSUME NEW t \in Tasks, task'[t].calm PROVE Good(task'[t], A, L) /\ Alone(t)'
  <2>1. task'[t] = task[t]
    BY <1>2
  <2>2. Good(task[t], A, L) /\ Alone(t)
    BY <1>2, <2>1 DEF CalmInv
  <2>3. Good(task'[t], A, L)
    BY <2>1, <2>2
  <2>4. Alone(t)'
    BY <2>2 DEF Alone
  <2>. QED
    BY <2>3, <2>4
<1>. HIDE DEF A, L
<1>3. A = ActiveSet' /\ L = level'
  BY DEF A, L
<1>4. \A t \in Tasks : task'[t].calm => Good(task'[t], ActiveSet', level')
  BY <1>2, <1>3
<1>. QED
  BY <1>1, <1>2, <1>4 DEF CalmInv

LEMMA InnerCalm ==
  ASSUME SupervisorInv, CalmInv, NEW t \in Tasks, Step(t) \/ Throws(t), Inner(t)
  PROVE  CalmInv'
<1>. USE DEF SupervisorInv
<1>. DEFINE q == task[t]
<1>1. Moves(t)
  BY InnerMoves DEF RunInv, StoreInv
<1>2. PICK r \in RunType : Sound(r) /\ Kept(r, q) /\ task' = [task EXCEPT ![t] = r]
  BY <1>1 DEF Moves
<1>3. /\ task'[t] = r /\ r.kind = q.kind /\ r.calm = q.calm
      /\ \A u \in Tasks : u # t => task'[u] = task[u]
  BY <1>2 DEF Kept, RunInv, RunsOK
<1>4. \A u \in Tasks : DueOK(task[u])
  BY DEF CalmInv
<1>5. DueOK(task'[t])
  BY <1>4, DueStep
<1>6. q.pc \notin {"done", "failed"}
  BY DEF Inner, AnalysisStep, Look, Predict, Plan, AnalyzeComplaints, WriteReport, Throws, Running,
     HealthStep, CheckServices, ReadSites, WatchOne, RaiseStep, FindAlert, CreateAlert, TellManager, TellAdmins,
     IngestStep, FindDuplicate, CreateRecommendation, DetectStep, ReadAll, Assess, AssessZone,
     MatchAnomaly, InsertAnomaly, At
<1>7. CASE q.kind # "health"
  <2>1. ~q.calm
    BY <1>7 DEF CalmInv, Good
  <2>2. ActiveSet' = ActiveSet /\ level' = level
    BY <1>4, <1>7, OthersActive
  <2>. QED
    BY <1>3, <1>5, <1>7, <2>1, <2>2, CalmCarries
<1>8. CASE q.kind = "health"
  <2>1. \A u \in Tasks : task[u].calm => u = t
    BY <1>6, <1>8 DEF CalmInv, Alone
  <2>2. \A u \in Tasks : task'[u].calm => u = t /\ q.calm
    BY <1>3, <2>1
  <2>3. ASSUME q.calm PROVE Good(task'[t], ActiveSet', level') /\ Alone(t)'
    <3>1. Good(task[t], ActiveSet, level) /\ Alone(t)
      BY <2>3 DEF CalmInv
    <3>2. Good(task'[t], ActiveSet', level')
      BY <1>4, <3>1, OwnGood
    <3>3. Alone(t)'
      BY <1>3, <3>1 DEF Alone
    <3>. QED
      BY <3>2, <3>3
  <2>4. \A u \in Tasks : task'[u].calm => Good(task'[u], ActiveSet', level') /\ Alone(u)'
    BY <2>2, <2>3
  <2>5. \A u \in Tasks : DueOK(task'[u])
    BY <1>3, <1>4, <1>5
  <2>. QED
    BY <2>4, <2>5 DEF CalmInv
<1>. QED
  BY <1>7, <1>8

\* A run that is started for an asker is no five-minute tier.
LEMMA SharingCalm ==
  ASSUME SupervisorInv, CalmInv, NEW c \in Askers, Call(c)
  PROVE  CalmInv'
<1>. USE DEF SupervisorInv
<1>. DEFINE a == asker[c]
            kind == Head(a.kinds)
<1>1. kind \in Askable /\ a.lang \in Langs /\ a.scope \in Scopes
  BY CallRun
<1>2. PICK t \in Tasks : Share(kind, a.scope, a.lang, t) /\ Set(t, Started(kind, a.scope, a.lang, t))
  BY DEF Call
<1>3. Free # {} \/ inFlight[KeyOf(kind, a.scope, a.lang)] # None
  BY DEF Call
<1>. DEFINE r == Started(kind, a.scope, a.lang, t)
<1>4. /\ r \in RunType /\ Sound(r) /\ r.kind = kind /\ r.scope = a.scope /\ r.lang = a.lang
      /\ r = task[t] \/ (task[t].pc = "idle" /\ task[t].kind = "none" /\ r.pc = FirstPc[kind]
                          /\ r.due = << >> /\ ~r.calm)
      /\ inFlight' \in [Keys -> Tasks \cup {None}]
      /\ inFlight' = [inFlight EXCEPT ![<<kind, a.scope, a.lang>>] = t]
  BY <1>1, <1>2, <1>3, SharedRun
<1>5. task' = [task EXCEPT ![t] = r]
  BY <1>2 DEF Set
<1>. HIDE DEF r
<1>6. r.due = << >> => DueOK(r)
  BY DEF DueOK
<1>7. r = task[t] \/ (r.kind # "health" /\ ~r.calm /\ DueOK(r))
  BY <1>1, <1>4, <1>6 DEF Askable
<1>8. ActiveSet' = ActiveSet /\ level' = level
  BY DEF Call, storeVars, ActiveSet, ActiveAlerts
<1>. QED
  BY <1>5, <1>7, <1>8, CalmCarries DEF RunInv, RunsOK

LEMMA JoinCalm ==
  ASSUME SupervisorInv, CalmInv, NEW t \in Tasks, JoinAnalysis(t)
  PROVE  CalmInv'
<1>. USE DEF SupervisorInv
<1>. DEFINE q == task[t]
<1>1. q \in RunType /\ q.pc = "join" /\ q.kind = "report" /\ q.lang \in Langs /\ q.scope \in Scopes
  BY JoinRun
<1>2. PICK u \in Tasks :
        /\ Share("analysis", q.scope, q.lang, u)
        /\ task' = [task EXCEPT ![u] = Started("analysis", q.scope, q.lang, u),
                                ![t] = [q EXCEPT !.pc = "wait", !.on = u]]
  BY DEF JoinAnalysis
<1>3. "analysis" \in Askable /\ (Free # {} \/ inFlight[KeyOf("analysis", q.scope, q.lang)] # None)
  BY DEF JoinAnalysis, Askable
<1>. DEFINE a == Started("analysis", q.scope, q.lang, u)
            w == [q EXCEPT !.pc = "wait", !.on = u]
<1>4. /\ a \in RunType /\ Sound(a) /\ a.kind = "analysis" /\ a.scope = q.scope /\ a.lang = q.lang
      /\ a = task[u] \/ (task[u].pc = "idle" /\ task[u].kind = "none" /\ a.pc = FirstPc["analysis"]
                          /\ a.due = << >> /\ ~a.calm)
      /\ inFlight' \in [Keys -> Tasks \cup {None}]
      /\ inFlight' = [inFlight EXCEPT ![<<"analysis", q.scope, q.lang>>] = u]
  BY <1>1, <1>2, <1>3, SharedRun
<1>5. task' = [task EXCEPT ![u] = a, ![t] = w]
  BY <1>2
<1>. HIDE DEF a
<1>6. w.kind = q.kind /\ w.due = q.due /\ w.calm = q.calm
  BY <1>1 DEF RunType
<1>. HIDE DEF w
<1>7. a.due = << >> => DueOK(a)
  BY DEF DueOK
<1>8. a = task[u] \/ (a.kind # "health" /\ ~a.calm /\ DueOK(a))
  BY <1>4, <1>7
<1>9. w.kind # "health" /\ ~w.calm /\ DueOK(w)
  <2>1. DueOK(q) /\ ~q.calm
    BY <1>1 DEF CalmInv, Good
  <2>. QED
    BY <2>1, <1>1, <1>6 DEF DueOK
<1>10. ActiveSet' = ActiveSet /\ level' = level
  BY DEF JoinAnalysis, storeVars, ActiveSet, ActiveAlerts
<1>. QED
  BY <1>5, <1>8, <1>9, <1>10, CalmCarries DEF RunInv, RunsOK

LEMMA SettleCalm ==
  ASSUME SupervisorInv, CalmInv, NEW t \in Tasks, Settle(t)
  PROVE  CalmInv'
<1>. USE DEF SupervisorInv
<1>1. task' = [u \in Tasks |-> Resumed(u, t)]
  BY DEF Settle
<1>2. DueOK(IdleTask)
  BY IdleFacts DEF DueOK
<1>3. ASSUME NEW u \in Tasks, u # t
      PROVE  task'[u] = task[u] \/ (task'[u].kind # "health" /\ ~task'[u].calm /\ DueOK(task'[u]))
  <2>. DEFINE r == Resumed(u, t)
              q == task[u]
  <2>1. r.kind = q.kind /\ (r = q \/ (q.pc = "wait" /\ r.pc \in {"failed", "complaints"} /\ r.due = q.due /\ r.calm = q.calm))
    BY <1>3, ResumedFacts
  <2>2. task'[u] = r
    BY <1>1
  <2>3. q.pc = "wait" => q.kind # "health"
    BY DEF RunInv, RunsOK, Sound, PcOf, RunType
  <2>4. DueOK(q) /\ (q.calm => q.kind = "health")
    BY DEF CalmInv, Good
  <2>. HIDE DEF r
  <2>. QED
    BY <2>1, <2>2, <2>3, <2>4 DEF DueOK
<1>4. task'[t] = IdleTask
  BY <1>1 DEF Resumed
<1>5. ActiveSet' = ActiveSet /\ level' = level
  BY DEF Settle, storeVars, ActiveSet, ActiveAlerts
<1>. QED
  BY <1>2, <1>3, <1>4, <1>5, IdleFacts, CalmCarries

LEMMA StartCalm ==
  ASSUME SupervisorInv, CalmInv, StartHealth
  PROVE  CalmInv'
<1>. USE DEF SupervisorInv
<1>. DEFINE alone == \A u \in Tasks : task[u].kind = "health" => ~Running(u)
            new == NewRun("health", None, None, "check")
            r == [new EXCEPT !.calm = alone]
<1>1. PICK t \in Free : task' = [u \in Tasks |-> IF u = t THEN r ELSE [task[u] EXCEPT !.calm = FALSE]]
  BY DEF StartHealth
<1>2. t \in Tasks
  BY DEF Free
<1>3. /\ new \in RunType /\ new.kind = "health" /\ new.pc = "check" /\ new.i = 1 /\ new.due = << >>
  BY NewRunFacts DEF Kinds, Pcs, Scopes
<1>4. alone => Alone(t)
  BY DEF Alone, Running, RunInv, RunsOK, Sound, PcOf
<1>5. alone \in BOOLEAN
  OBVIOUS
<1>. HIDE DEF new, alone
<1>6. r.kind = "health" /\ r.pc = "check" /\ r.due = << >> /\ r.calm = alone
  BY <1>3, <1>5 DEF RunType
<1>. HIDE DEF r
<1>7. DueOK(r) /\ Listed(r) = {}
  BY <1>6 DEF DueOK, Listed, Due
<1>8. Good(r, ActiveSet', level')
  BY <1>6, <1>7 DEF Good, After
<1>9. ASSUME NEW u \in Tasks, u # t
      PROVE  ~task'[u].calm /\ task'[u].due = task[u].due /\ task'[u].kind = task[u].kind /\ task'[u].pc = task[u].pc
  <2>. DEFINE q == task[u]
              x == [q EXCEPT !.calm = FALSE]
  <2>1. q \in RunType /\ Sound(q) /\ FALSE \in BOOLEAN /\ task'[u] = x
    BY <1>1, <1>9 DEF RunInv, RunsOK
  <2>2. x.due = q.due /\ x.kind = q.kind /\ x.pc = q.pc /\ x.calm = FALSE
    <3>. HIDE DEF q
    <3>. QED
      BY <2>1, CalmFacts
  <2>. HIDE DEF x
  <2>. QED
    BY <2>1, <2>2
<1>10. \A u \in Tasks : DueOK(task'[u])
  <2>. TAKE u \in Tasks
  <2>1. CASE u = t
    BY <2>1, <1>1, <1>7
  <2>2. CASE u # t
    BY <2>2, <1>9 DEF CalmInv, DueOK
  <2>. QED
    BY <2>1, <2>2
<1>11. task'[t] = r
  BY <1>1, <1>2
<1>12. alone => Alone(t)'
  BY <1>4, <1>9 DEF Alone
<1>13. \A u \in Tasks : task'[u].calm => Good(task'[u], ActiveSet', level') /\ Alone(u)'
  <2>. TAKE u \in Tasks
  <2>. SUFFICES ASSUME task'[u].calm PROVE Good(task'[u], ActiveSet', level') /\ Alone(u)'
    OBVIOUS
  <2>1. u = t
    BY <1>9
  <2>. QED
    BY <2>1, <1>6, <1>8, <1>11, <1>12
<1>. QED
  BY <1>10, <1>13 DEF CalmInv

LEMMA ChangeCalm ==
  ASSUME SupervisorInv, CalmInv, NetworkChanges
  PROVE  CalmInv'
<1>. USE DEF SupervisorInv
<1>1. ASSUME NEW u \in Tasks PROVE ~task'[u].calm /\ DueOK(task'[u])
  <2>. DEFINE q == task[u]
              x == [q EXCEPT !.calm = FALSE]
  <2>1. q \in RunType /\ Sound(q) /\ FALSE \in BOOLEAN /\ task'[u] = x
    BY DEF RunInv, RunsOK, NetworkChanges
  <2>2. x.due = q.due /\ x.kind = q.kind /\ x.calm = FALSE
    <3>. HIDE DEF q
    <3>. QED
      BY <2>1, CalmFacts
  <2>3. DueOK(q)
    BY DEF CalmInv
  <2>. HIDE DEF x
  <2>. QED
    BY <2>1, <2>2, <2>3 DEF DueOK
<1>. QED
  BY <1>1 DEF CalmInv

LEMMA CalmStep ==
  ASSUME SupervisorInv, CalmInv, [Next]_vars
  PROVE  CalmInv'
<1>1. UNCHANGED <<level, task, alerts>> => CalmInv'
  BY CalmCarries DEF ActiveSet, ActiveAlerts
<1>2. ASSUME NEW t \in Tasks, Step(t) PROVE CalmInv'
  BY <1>2, InnerCalm, JoinCalm, SettleCalm DEF Step, OwnStep, Inner
<1>3. ASSUME NEW t \in Tasks, Throws(t) PROVE CalmInv'
  BY <1>3, InnerCalm DEF Inner
<1>4. ASSUME NEW c \in Askers, Ask(c) PROVE UNCHANGED <<level, task, alerts>>
  BY <1>4 DEF Ask, storeVars
<1>5. CASE Crash
  <2>1. \A u \in Tasks : task'[u] = IdleTask
    BY <1>5 DEF Crash
  <2>2. DueOK(IdleTask)
    BY IdleFacts DEF DueOK
  <2>. QED
    BY <2>1, <2>2, IdleFacts DEF CalmInv
<1>6. (ReviewRecommendation \/ TwelveHoursGoBy) /\ UNCHANGED <<alerts, anomalies>> => UNCHANGED <<level, task, alerts>>
  BY DEF ReviewRecommendation, TwelveHoursGoBy
<1>7. ReviewAnomaly /\ UNCHANGED alerts => UNCHANGED <<level, task, alerts>>
  BY DEF ReviewAnomaly
<1>8. UNCHANGED vars => UNCHANGED <<level, task, alerts>>
  BY DEF vars, taskVars, storeVars
<1>. QED
  BY <1>1, <1>2, <1>3, <1>4, <1>5, <1>6, <1>7, <1>8, SharingCalm, StartCalm, ChangeCalm DEF Next, Work

\* A five-minute tier that ran alone on a network at rest ends with alerts about what is
\* over its threshold and nothing else, from whatever crashes, failures and overlapping
\* tiers had left, for any number of services, NROs and FDTs.
THEOREM AlertsAlwaysMirror == Spec => []AlertsMirror
<1>1. Init => CalmInv
  <2>. SUFFICES ASSUME Init PROVE CalmInv
    OBVIOUS
  <2>1. \A u \in Tasks : task[u] = IdleTask
    BY DEF Init, TaskInit
  <2>2. DueOK(IdleTask)
    BY IdleFacts DEF DueOK
  <2>. QED
    BY <2>1, <2>2, IdleFacts DEF CalmInv
<1>2. SupervisorInv /\ CalmInv /\ [Next]_vars => CalmInv'
  BY CalmStep
<1>3. CalmInv => AlertsMirror
  <2>. SUFFICES ASSUME CalmInv, NEW t \in Tasks, At(t, "done"), task[t].kind = "health", task[t].calm,
                       NEW s \in Watched
                PROVE  ActiveAlerts("level", s) # {} <=> Breach(s, level[s])
    BY DEF AlertsMirror
  <2>1. Good(task[t], ActiveSet, level) /\ task[t].pc = "done"
    BY DEF CalmInv, At
  <2>2. task[t].due = << >> /\ Settled(s, task[t], ActiveSet, level)
    BY <2>1 DEF Good, After
  <2>3. Listed(task[t]) = {}
    BY <2>2 DEF Listed, Due
  <2>. QED
    BY <2>2, <2>3 DEF Settled, ActiveSet
<1>. QED
  BY <1>1, <1>2, <1>3, SupervisorInvariant, PTL DEF Spec

=============================================================================
