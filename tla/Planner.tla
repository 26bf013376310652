-------------------------------- MODULE Planner --------------------------------
(***************************************************************************)
(* InfrastructurePlannerAgent and SimulationService: what the supervisor   *)
(* proposes for one saturated NRO or FDT.  Pure functions of a site        *)
(* [used, total], of its zone and of the clusters its contracts form; the  *)
(* language model may reword a proposal and changes nothing else.          *)
(*                                                                         *)
(* Percentages are in tenths, rounded half up as Math.round does.          *)
(***************************************************************************)
EXTENDS Integers, Sequences, FiniteSets, SequencesExt

CONSTANT None   \* no zone, no site, no plan

\* The defaults of the INFRA_PLANNER_* settings and of the thresholds' own.
NRO_CRITICAL_PCT == 90
FDT_CRITICAL_PCT == 90
FDT_WARNING_PCT == 70
TYPICAL_FDT_PORTS == 32
TYPICAL_NRO_CAPACITY_GB == 300
MinContracts == 5
MinDistance == 5          \* tenths of a kilometre

\* A site with no capacity counts as empty.
AtLeast(pct, used, total) == total > 0 /\ used * 100 >= pct * total

Tenths(a, b) == IF b <= 0 THEN 0 ELSE (2000 * a + b) \div (2 * b)

\* What n more ports, or Gb, take off the occupation.
AddedCapacity(site, n) == Tenths(site.used * n, site.total * (site.total + n))

\* A share k of n contracts, with its load, goes from one site to another.
Redistribution(from, to, k, n) ==
  [gain |-> Tenths(from.used * k, n * from.total),
   target |-> Tenths(to.used * n + from.used * k, n * to.total)]

-----------------------------------------------------------------------------
(* Where a new site could be.  A cluster has so many contracts, lies inside  *)
(* its zone or not, is so far from the next site of its kind (-1: there is   *)
(* none) and has so much ease, the part of its score that is geometry.       *)

ClusterType == [contracts : Nat, inside : BOOLEAN, distance : Int, ease : Nat]

Contracts(clusters) == Cardinality(UNION {{i} \X (1..clusters[i].contracts) : i \in DOMAIN clusters})

\* The three largest cells of the grid, the first ones on a tie.
Largest(clusters) ==
  {i \in DOMAIN clusters :
     Cardinality({j \in DOMAIN clusters :
       \/ clusters[j].contracts > clusters[i].contracts
       \/ clusters[j].contracts = clusters[i].contracts /\ j < i}) < 3}

ValidCandidate(c) ==
  /\ c.inside
  /\ c.distance = -1 \/ c.distance >= MinDistance
  /\ c.contracts >= MinContracts

Candidates(clusters) == {i \in Largest(clusters) : ValidCandidate(clusters[i])}

\* Coverage .3 and saturation reduction .25, which are the same share; density .15.
Score(clusters, i) ==
  LET k == clusters[i].contracts
      n == Contracts(clusters)
      most == CHOOSE m \in {clusters[j].contracts : j \in DOMAIN clusters} :
                \A j \in DOMAIN clusters : m >= clusters[j].contracts
  IN  (2 * (55 * k * most + 15 * k * n + clusters[i].ease * n * most) + n * most) \div (2 * n * most)

\* The highest score; on a tie the larger cluster, then the first.
Best(clusters) == CHOOSE i \in Candidates(clusters) : \A j \in Candidates(clusters) :
  \/ Score(clusters, i) > Score(clusters, j)
  \/ /\ Score(clusters, i) = Score(clusters, j)
     /\ \/ clusters[i].contracts > clusters[j].contracts
        \/ clusters[i].contracts = clusters[j].contracts /\ i <= j

\* What the planner makes of the contracts of a site: how many there are, and where a
\* new site had best be.
Ground(clusters) ==
  [contracts |-> Contracts(clusters),
   best |-> IF Candidates(clusters) = {} THEN None ELSE clusters[Best(clusters)]]

-----------------------------------------------------------------------------
(* Proposals.  An area is a zone's name or, where the code uses regionId,    *)
(* its id; why is what the proposal was computed from.                       *)

ByName(z) == <<"name", z>>
ById(z) == <<"id", z>>

Proposal(action, area, zone, site, priority, why) ==
  [action |-> action, area |-> area, zone |-> zone, site |-> site,
   priority |-> priority, why |-> why]

Urgent(site, otherwise) == IF AtLeast(100, site.used, site.total) THEN "URGENT" ELSE otherwise

NoCandidate(id, zone) == {Proposal("ADMIN_REVIEW", ById(zone), zone, id, "HIGH", None)}

IncreaseCapacity(id, site, zone) ==
  {Proposal("INCREASE_CAPACITY", ById(zone), zone, id, Urgent(site, "HIGH"), None)}

\* A site for the contracts of one cluster.
NewSite(action, id, site, zone, cluster) ==
  {Proposal(action, ByName(zone), zone, id, Urgent(site, "HIGH"), cluster)}

\* planForSaturatedNro: predicted is the load in 90 days in percent, 0 when unknown.
PlanNro(id, nro, zone, ground, predicted) ==
  LET n == ground.contracts
      empty == [used |-> 0, total |-> TYPICAL_NRO_CAPACITY_GB]
  IN
  IF ~AtLeast(NRO_CRITICAL_PCT, nro.used, nro.total) /\ predicted < NRO_CRITICAL_PCT THEN {}
  ELSE IF zone = None \/ n = 0 THEN NoCandidate(id, zone)
  ELSE IF ground.best = None \/ AddedCapacity(nro, TYPICAL_NRO_CAPACITY_GB) >
            Redistribution(nro, empty, ground.best.contracts, n).gain
  THEN IncreaseCapacity(id, nro, zone)
  ELSE NewSite("CREATE_NRO", id, nro, zone, ground.best)

\* The sibling with the smallest share of ports in use; one without ports counts as full.
\* Of equal ones the code takes the first the query returned, which is in no order.
LeastLoaded(fdts) == CHOOSE f \in fdts : \A g \in fdts :
  LET worth(x) == IF x.total = 0 THEN [used |-> 1, total |-> 1] ELSE x
  IN  worth(f).used * worth(g).total <= worth(g).used * worth(f).total

\* Faulty variant: the sibling may be filled up.
PlanAnyFdt(id, fdt, zone, ground, siblings) ==
  LET n == ground.contracts
      k == ground.best.contracts
      to == LeastLoaded(siblings)
      moves == Redistribution(fdt, to, k, n)
  IN
  IF ~AtLeast(FDT_CRITICAL_PCT, fdt.used, fdt.total) THEN {}
  ELSE IF zone = None \/ n = 0 THEN NoCandidate(id, zone)
  ELSE IF ground.best = None THEN IncreaseCapacity(id, fdt, zone)
  ELSE IF siblings # {} /\ moves.gain > AddedCapacity(fdt, TYPICAL_FDT_PORTS)
  THEN {Proposal("MOVE_CONTRACTS", ByName(zone), zone, id, Urgent(fdt, "MEDIUM"),
                 [from |-> fdt, to |-> to, moved |-> k, of |-> n])}
  ELSE NewSite("CREATE_FDT", id, fdt, zone, ground.best)

\* planForSaturatedFdt: contracts move to a sibling below the same NRO when that takes
\* more off than 32 new ports would, and does not make the sibling critical in turn.
PlanFdt(id, fdt, zone, ground, siblings) ==
  LET n == ground.contracts
      k == ground.best.contracts
      to == LeastLoaded(siblings)
      moves == Redistribution(fdt, to, k, n)
  IN
  IF ~AtLeast(FDT_CRITICAL_PCT, fdt.used, fdt.total) THEN {}
  ELSE IF zone = None \/ n = 0 THEN NoCandidate(id, zone)
  ELSE IF ground.best = None THEN IncreaseCapacity(id, fdt, zone)
  ELSE IF /\ siblings # {} /\ moves.target < 10 * FDT_CRITICAL_PCT
          /\ moves.gain > AddedCapacity(fdt, TYPICAL_FDT_PORTS)
  THEN {Proposal("MOVE_CONTRACTS", ByName(zone), zone, id, Urgent(fdt, "MEDIUM"),
                 [from |-> fdt, to |-> to, moved |-> k, of |-> n])}
  ELSE NewSite("CREATE_FDT", id, fdt, zone, ground.best)
=============================================================================
