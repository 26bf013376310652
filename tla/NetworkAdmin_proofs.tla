------------------------- MODULE NetworkAdmin_proofs -------------------------
(***************************************************************************)
(* What GeoJSON imports promise, whatever payloads, requests and audits    *)
(* come in between: documents keep their types, an import that fails       *)
(* leaves no trace, one that commits leaves right counters and replaces    *)
(* nothing that others changed meanwhile.                                  *)
(*                                                                         *)
(* The argument is one about snapshots.  SessionInv: what a session has    *)
(* not written is as it was when the session began, and what it has        *)
(* written nobody else has changed or may change.  CountInv: in the        *)
(* session's own view the counters recomputed so far are right.  Nothing   *)
(* that others do touches either; at the commit the two give the counters  *)
(* of the network.                                                         *)
(***************************************************************************)
EXTENDS NetworkAdmin, Gigabytes_proofs

\* What the document of k looks like.
DocOf(k, doc) ==
  /\ k \in Zones => doc \in ZoneDoc
  /\ k \in Centrales => doc \in CentraleDoc /\ (doc.live => doc.zone # None)
  /\ k \in Nros => doc \in NroDoc
  /\ k \in Fdts => doc \in FdtDoc
  /\ k \in Contracts => doc \in ContractDoc
  /\ k \in Fibers => doc \in FiberDoc

LEMMA EachDocument ==
  ASSUME NEW d
  PROVE  Documents(d) <=> DOMAIN d = Ids /\ \A k \in Ids : DocOf(k, d[k])
BY DEF Documents, DocOf, Ids

\* One document is replaced.
LEMMA OneDocument ==
  ASSUME NEW d, Documents(d), NEW e, NEW k \in Ids, DOMAIN e = Ids, DocOf(k, e[k]),
         \A j \in Ids : j # k => e[j] = d[j]
  PROVE  Documents(e)
<1>1. \A j \in Ids : DocOf(j, d[j])
  BY EachDocument
<1>2. \A j \in Ids : DocOf(j, e[j])
  <2>. TAKE j \in Ids
  <2>1. CASE j = k
    BY <2>1
  <2>2. CASE j # k
    BY <1>1, <2>2
  <2>. QED
    BY <2>1, <2>2
<1>. QED
  BY <1>2, EachDocument

-----------------------------------------------------------------------------
(* What an import writes.                                                  *)

\* A feature of an accepted payload.
Sent(z, s) == s \in Seq(Feature) /\ \A n \in DOMAIN s : OwnId(s[n]) /\ Valid(s[n], z)

LEMMA SentFeature ==
  ASSUME NEW z, NEW s, Sent(z, s), NEW n \in DOMAIN s
  PROVE  /\ s[n] \in Feature
         /\ Class(s[n]) \in {"zone", "centrale", "nro", "fdt", "contract"}
         /\ Class(s[n]) = "centrale" => s[n].id \in Centrales
         /\ Class(s[n]) = "nro" => s[n].id \in Nros /\ s[n].status \in NroStatus
         /\ Class(s[n]) = "fdt" => s[n].id \in Fdts
         /\ Class(s[n]) = "contract" => s[n].id \in Contracts /\ s[n].status \in ContractStatus
<1>1. s[n] \in Feature
  BY DEF Sent
<1>2. OwnId(s[n]) /\ Valid(s[n], z)
  BY DEF Sent
<1>3. /\ Class(s[n]) \in {"zone", "centrale", "nro", "fdt", "contract"}
      /\ Class(s[n]) \in {"centrale", "nro", "fdt", "contract"} => s[n].id # None
  BY <1>2 DEF Valid
<1>. QED
  BY <1>1, <1>2, <1>3 DEF OwnId

LEMMA SyncZoneType ==
  ASSUME NEW d, Documents(d), NEW z \in Zones, NEW x \in Feature
  PROVE  Documents(SyncZone(d, z, x))
<1>. DEFINE e == SyncZone(d, z, x)
<1>0. z \in Ids /\ DOMAIN d = Ids /\ d[z] \in ZoneDoc
  BY DEF Ids, Documents
<1>1. /\ DOMAIN e = Ids /\ \A j \in Ids : j # z => e[j] = d[j]
      /\ e[z] = [d[z] EXCEPT !.covers = x.covers]
  BY <1>0 DEF SyncZone
<1>2. DocOf(z, e[z])
  BY <1>0, <1>1, InfraAssumption DEF DocOf, ZoneDoc, Feature
<1>. HIDE DEF e
<1>. QED
  BY <1>0, <1>1, <1>2, OneDocument DEF e

LEMMA SyncCentraleType ==
  ASSUME NEW d, Documents(d), NEW z \in Zones, NEW x \in Feature, x.id \in Centrales
  PROVE  Documents(SyncCentrale(d, z, x))
<1>. DEFINE k == x.id
            e == SyncCentrale(d, z, x)
<1>0. k \in Ids /\ DOMAIN d = Ids /\ d[k] \in CentraleDoc /\ x.gb \in Nat
  BY DEF Ids, Documents, Feature
<1>1. /\ DOMAIN e = Ids /\ \A j \in Ids : j # k => e[j] = d[j]
      /\ e[k] = [live |-> TRUE, oid |-> IF d[k].live THEN d[k].oid ELSE d[k].oid + 1,
                 zone |-> z, cap |-> x.gb]
  BY <1>0 DEF SyncCentrale
<1>2. e[k] \in CentraleDoc /\ e[k].zone # None
  BY <1>0, <1>1, InfraAssumption DEF CentraleDoc, Ids
<1>3. DocOf(k, e[k])
  BY <1>2, InfraAssumption DEF DocOf
<1>. HIDE DEF e, k
<1>. QED
  BY <1>0, <1>1, <1>3, OneDocument DEF e

LEMMA ParentCentraleType ==
  ASSUME NEW d, Documents(d), NEW z \in Zones, NEW s, Sent(z, s), NEW x \in Feature
  PROVE  ParentCentrale(d, z, x, s) \in CentraleRef
<1>. DEFINE own == ZoneCentrales(d, z)
            sent == OfClass(s, "centrale")
            first == {s[n].id : n \in {m \in sent : \A l \in sent : m <= l}}
<1>1. \A k \in Centrales : RefTo(d, k) \in CentraleRef
  BY DEF RefTo, CentraleRef, Documents, CentraleDoc
<1>2. own \subseteq Centrales
  BY DEF ZoneCentrales
<1>3. first \subseteq Centrales
  <2>1. \A n \in sent : s[n].id \in Centrales
    BY SentFeature DEF OfClass
  <2>. QED
    BY <2>1
<1>4. NoCentrale \in CentraleRef
  BY DEF NoCentrale, CentraleRef
<1>5. ParentCentrale(d, z, x, s) \in
        {RefTo(d, k) : k \in own \cup first} \cup {NoCentrale}
  <2>1. (first # {} => (CHOOSE k \in first : TRUE) \in first)
        /\ (own # {} => (CHOOSE k \in own : TRUE) \in own)
    OBVIOUS
  <2>. QED
    BY <2>1 DEF ParentCentrale
<1>. QED
  BY <1>1, <1>2, <1>3, <1>4, <1>5

LEMMA SyncNroType ==
  ASSUME NEW d, Documents(d), NEW z \in Zones, NEW s, Sent(z, s),
         NEW x \in Feature, x.id \in Nros, x.status \in NroStatus
  PROVE  Documents(SyncNro(d, z, x, s))
<1>. DEFINE k == x.id
            parent == ParentCentrale(d, z, x, s)
            old == IF d[k].live THEN d[k] ELSE NoNro
            new == [old EXCEPT !.live = TRUE, !.region = IdOf(z),
                               !.centrale = IF parent = NoCentrale THEN old.centrale ELSE parent,
                               !.max = x.gb, !.gb = x.gb, !.status = x.status, !.sat = "NORMAL"]
            e == SyncNro(d, z, x, s)
<1>0. k \in Ids /\ DOMAIN d = Ids /\ d[k] \in NroDoc /\ x.gb \in Nat
  BY DEF Ids, Documents, Feature
<1>1. DOMAIN e = Ids /\ (\A j \in Ids : j # k => e[j] = d[j]) /\ e[k] = new
  BY <1>0 DEF SyncNro
<1>2. parent \in CentraleRef /\ IdOf(z) \in Region
  BY ParentCentraleType DEF IdOf, Region
<1>3. old \in NroDoc
  BY <1>0 DEF NoNro, NroDoc, Region, NoCentrale, CentraleRef, NroStatus, Saturation
<1>. HIDE DEF old, parent, k
<1>4. new \in NroDoc
  BY <1>0, <1>2, <1>3 DEF NroDoc, Saturation, k
<1>5. DocOf(k, new)
  BY <1>4, InfraAssumption DEF DocOf, k
<1>. HIDE DEF e, new
<1>. QED
  BY <1>0, <1>1, <1>5, OneDocument DEF e

LEMMA SyncFdtType ==
  ASSUME NEW d, Documents(d), NEW z \in Zones, NEW x \in Feature, x.id \in Fdts
  PROVE  Documents(SyncFdt(d, z, x))
<1>. DEFINE k == x.id
            old == IF d[k].live THEN d[k] ELSE NoFdt
            new == [old EXCEPT !.live = TRUE, !.region = IdOf(z), !.nro = x.nro,
                               !.total = x.gb, !.statut = "DISPONIBLE"]
            e == SyncFdt(d, z, x)
<1>0. k \in Ids /\ DOMAIN d = Ids /\ d[k] \in FdtDoc /\ x.gb \in Nat /\ x.nro \in Nros \cup {None}
  BY DEF Ids, Documents, Feature
<1>1. DOMAIN e = Ids /\ (\A j \in Ids : j # k => e[j] = d[j]) /\ e[k] = new
  BY <1>0 DEF SyncFdt
<1>2. IdOf(z) \in Region
  BY DEF IdOf, Region
<1>3. old \in FdtDoc
  BY <1>0 DEF NoFdt, FdtDoc, Region
<1>. HIDE DEF old, k
<1>4. new \in FdtDoc
  BY <1>0, <1>2, <1>3 DEF FdtDoc, k
<1>5. DocOf(k, new)
  BY <1>4, InfraAssumption DEF DocOf, k
<1>. HIDE DEF e, new
<1>. QED
  BY <1>0, <1>1, <1>5, OneDocument DEF e

LEMMA SyncContractType ==
  ASSUME NEW d, Documents(d), NEW z \in Zones,
         NEW x \in Feature, x.id \in Contracts, x.status \in ContractStatus
  PROVE  Documents(SyncContract(d, z, x))
<1>. DEFINE owner == IF x.nro # None THEN x.nro
                     ELSE IF x.fdt \in ZoneFdts(d, z) THEN d[x.fdt].nro ELSE None
            new == [live |-> TRUE, status |-> x.status, zone |-> z, fdt |-> x.fdt,
                    nro |-> owner, gb |-> x.gb, phone |-> x.phone]
            renamed == {c \in Contracts : ~d[x.id].live /\ d[c].live /\ d[c].phone = x.phone}
            e == SyncContract(d, z, x)
<1>1. DOMAIN e = Ids /\ \A j \in Ids : e[j] = IF j = x.id THEN new
                                              ELSE IF j \in renamed THEN NoContract ELSE d[j]
  BY DEF SyncContract
<1>2. owner \in Nros \cup {None}
  <2>1. x.nro \in Nros \cup {None} /\ \A f \in Fdts : d[f].nro \in Nros \cup {None}
    BY DEF Feature, Documents, FdtDoc
  <2>. QED
    BY <2>1 DEF ZoneFdts
<1>. HIDE DEF owner
<1>3. new \in ContractDoc /\ NoContract \in ContractDoc
  BY <1>2 DEF ContractDoc, NoContract, ContractStatus, Feature
<1>. HIDE DEF new
<1>4. \A j \in Ids : DocOf(j, d[j])
  BY EachDocument
<1>5. \A j \in Contracts : DocOf(j, new) /\ DocOf(j, NoContract)
  BY <1>3, InfraAssumption DEF DocOf
<1>6. \A j \in Ids : DocOf(j, e[j])
  BY <1>1, <1>4, <1>5
<1>. HIDE DEF e
<1>. QED
  BY <1>1, <1>6, EachDocument DEF e

\* executeSynchronization writes documents.
LEMMA SyncedType ==
  ASSUME NEW d, Documents(d), NEW z \in Zones, NEW s, Sent(z, s), NEW n \in DOMAIN s
  PROVE  Documents(Synced(d, z, s[n], s))
<1>1. CASE Class(s[n]) = "zone"
  BY <1>1, SentFeature, SyncZoneType DEF Synced
<1>2. CASE Class(s[n]) = "centrale"
  BY <1>2, SentFeature, SyncCentraleType DEF Synced
<1>3. CASE Class(s[n]) = "nro"
  BY <1>3, SentFeature, SyncNroType DEF Synced
<1>4. CASE Class(s[n]) = "fdt"
  BY <1>4, SentFeature, SyncFdtType DEF Synced
<1>5. CASE Class(s[n]) = "contract"
  BY <1>5, SentFeature, SyncContractType DEF Synced
<1>. QED
  BY <1>1, <1>2, <1>3, <1>4, <1>5, SentFeature

-----------------------------------------------------------------------------
(* What it counts.                                                         *)

LEMMA FiniteParts ==
  /\ IsFiniteSet(Contracts) /\ IsFiniteSet(Nros) /\ IsFiniteSet(Fdts)
  /\ \A S \in SUBSET Contracts : IsFiniteSet(S) /\ Cardinality(S) \in Nat
  /\ \A S \in SUBSET Nros : IsFiniteSet(S)
  /\ \A S \in SUBSET Fdts : Cardinality(S) \in Nat
<1>1. IsFiniteSet(Ids)
  BY InfraAssumption
<1>2. \A S \in SUBSET Ids : IsFiniteSet(S) /\ Cardinality(S) \in Nat
  BY <1>1, FS_Subset, FS_CardinalityType
<1>. QED
  BY <1>2 DEF Ids

LEMMA SumGbType ==
  ASSUME NEW d, NEW S, IsFiniteSet(S), \A k \in S : d[k].gb \in Nat
  PROVE  SumGb(d, S) \in Nat
<1>. DEFINE gb == [k \in S |-> d[k].gb]
<1>1. \A k \in S : gb[k] \in Nat
  OBVIOUS
<1>. HIDE DEF gb
<1>2. Units(gb, S) \in Nat
  BY <1>1, UnitsFinite
<1>. QED
  BY <1>2 DEF SumGb, gb

\* The same gigabytes of the same documents add up to the same.
LEMMA SumGbSame ==
  ASSUME NEW d, NEW e, NEW S, \A k \in S : e[k].gb = d[k].gb
  PROVE  SumGb(e, S) = SumGb(d, S)
<1>1. [k \in S |-> e[k].gb] = [k \in S |-> d[k].gb]
  OBVIOUS
<1>. QED
  BY <1>1 DEF SumGb

\* An FDT, an NRO or a centrale is counted: nothing else changes.
CountsOne(d, e, k) ==
  /\ DOMAIN e = Ids /\ \A j \in Ids : j # k => e[j] = d[j]
  /\ DocOf(k, e[k])
  /\ e[k].live = d[k].live
  /\ k \in Fdts => /\ e[k].region = d[k].region
                   /\ e[k].clients = Cardinality(ActiveOn(d, k)) /\ e[k].ports = e[k].clients
  /\ k \in Nros => /\ e[k].region = d[k].region
                   /\ e[k].used = GbUnder(d, k)

LEMMA RecountFdtStep ==
  ASSUME NEW d, Documents(d), NEW k \in Fdts
  PROVE  CountsOne(d, RecountFdt(d, k), k)
<1>. DEFINE n == Cardinality(ActiveOn(d, k))
            statut == IF n >= d[k].total THEN "PLEIN"
                      ELSE IF 10 * n >= 8 * d[k].total THEN "CHARGE" ELSE "DISPONIBLE"
            new == [d[k] EXCEPT !.clients = n, !.ports = n, !.statut = statut]
            e == RecountFdt(d, k)
<1>0. k \in Ids /\ DOMAIN d = Ids /\ d[k] \in FdtDoc
  BY DEF Ids, Documents
<1>1. n \in Nat
  BY FiniteParts DEF ActiveOn
<1>2. statut \in {"PLEIN", "CHARGE", "DISPONIBLE"}
  OBVIOUS
<1>3. DOMAIN e = Ids /\ (\A j \in Ids : j # k => e[j] = d[j])
  BY <1>0 DEF RecountFdt
<1>4. e[k] = new
  BY <1>0 DEF RecountFdt
<1>. HIDE DEF n, statut, e
<1>5. /\ new \in FdtDoc /\ new.live = d[k].live /\ new.region = d[k].region
      /\ new.clients = n /\ new.ports = n
  BY <1>0, <1>1, <1>2 DEF FdtDoc
<1>6. DocOf(k, new)
  BY <1>5, InfraAssumption DEF DocOf
<1>. HIDE DEF new
<1>7. k \notin Nros
  BY InfraAssumption
<1>. QED
  BY <1>3, <1>4, <1>5, <1>6, <1>7 DEF CountsOne, n, e

LEMMA RecountNroStep ==
  ASSUME NEW d, Documents(d), NEW k \in Nros
  PROVE  CountsOne(d, RecountNro(d, k), k)
<1>. DEFINE used == SumGb(d, ActiveUnder(d, k))
            fdts == Cardinality({f \in Fdts : d[f].live /\ d[f].nro = k})
            load == Cardinality(ActiveUnder(d, k))
            percent == IF d[k].gb > 0 THEN (100 * used) \div d[k].gb ELSE 0
            sat == IF percent >= 90 THEN "SATURE" ELSE IF percent >= 75 THEN "CHARGE" ELSE "NORMAL"
            new == [d[k] EXCEPT !.fdts = fdts, !.load = load, !.used = used, !.sat = sat]
            e == RecountNro(d, k)
<1>0. k \in Ids /\ DOMAIN d = Ids /\ d[k] \in NroDoc
  BY DEF Ids, Documents
<1>1. used \in Nat
  <2>1. \A c \in ActiveUnder(d, k) : d[c].gb \in Nat
    BY DEF ActiveUnder, Documents, ContractDoc
  <2>2. IsFiniteSet(ActiveUnder(d, k))
    BY FiniteParts DEF ActiveUnder
  <2>. QED
    BY <2>1, <2>2, SumGbType
<1>2. fdts \in Nat /\ load \in Nat
  BY FiniteParts DEF ActiveUnder
<1>3. sat \in Saturation
  BY DEF Saturation
<1>4. DOMAIN e = Ids /\ (\A j \in Ids : j # k => e[j] = d[j])
  BY <1>0 DEF RecountNro
<1>5. e[k] = new
  BY <1>0 DEF RecountNro
<1>. HIDE DEF used, fdts, load, sat, e
<1>6. new \in NroDoc /\ new.live = d[k].live /\ new.region = d[k].region /\ new.used = used
  BY <1>0, <1>1, <1>2, <1>3 DEF NroDoc
<1>7. DocOf(k, new)
  BY <1>6, InfraAssumption DEF DocOf
<1>. HIDE DEF new
<1>8. k \notin Fdts
  BY InfraAssumption
<1>. QED
  BY <1>4, <1>5, <1>6, <1>7, <1>8 DEF CountsOne, GbUnder, used, e

LEMMA RecountCentraleStep ==
  ASSUME NEW d, Documents(d), NEW k \in Centrales
  PROVE  CountsOne(d, RecountCentrale(d, k), k)
<1>. DEFINE S == {n \in Nros : d[n].live /\ d[n].centrale = RefTo(d, k)}
            new == [d[k] EXCEPT !.cap = SumGb(d, S)]
            e == RecountCentrale(d, k)
<1>0. /\ k \in Ids /\ DOMAIN d = Ids /\ d[k] \in CentraleDoc
      /\ d[k].live => d[k].zone # None
  BY DEF Ids, Documents
<1>1. SumGb(d, S) \in Nat
  <2>1. \A n \in S : d[n].gb \in Nat
    BY DEF Documents, NroDoc
  <2>2. IsFiniteSet(S)
    BY FiniteParts
  <2>. QED
    BY <2>1, <2>2, SumGbType
<1>2. DOMAIN e = Ids /\ (\A j \in Ids : j # k => e[j] = d[j]) /\ e[k] = new
  BY <1>0 DEF RecountCentrale
<1>. HIDE DEF S, e
<1>3. new \in CentraleDoc /\ new.live = d[k].live /\ new.zone = d[k].zone
  BY <1>0, <1>1 DEF CentraleDoc
<1>4. DocOf(k, new)
  BY <1>0, <1>3, InfraAssumption DEF DocOf
<1>. HIDE DEF new
<1>5. k \notin Fdts /\ k \notin Nros
  BY InfraAssumption
<1>. QED
  BY <1>2, <1>3, <1>4, <1>5 DEF CountsOne, e

LEMMA RecountedStep ==
  ASSUME NEW d, Documents(d), NEW k \in Fdts \cup Nros \cup Centrales
  PROVE  Documents(Recounted(d, k)) /\ CountsOne(d, Recounted(d, k), k)
<1>1. CountsOne(d, Recounted(d, k), k)
  <2>1. CASE k \in Fdts
    <3>1. k \notin Nros
      BY <2>1, InfraAssumption
    <3>2. Recounted(d, k) = RecountFdt(d, k)
      BY <2>1, <3>1 DEF Recounted
    <3>. QED
      BY <2>1, <3>2, RecountFdtStep
  <2>2. CASE k \in Nros /\ k \notin Fdts
    BY <2>2, RecountNroStep DEF Recounted
  <2>3. CASE k \in Centrales /\ k \notin Fdts /\ k \notin Nros
    BY <2>3, RecountCentraleStep DEF Recounted
  <2>. QED
    BY <2>1, <2>2, <2>3
<1>2. k \in Ids
  BY DEF Ids
<1>. QED
  BY <1>1, <1>2, OneDocument DEF CountsOne

\* The counters of zone z in the documents d are right, but for those in left.
RightCounts(d, z, left) ==
  /\ \A f \in ZoneFdts(d, z) \ left :
       d[f].clients = Cardinality(ActiveOn(d, f)) /\ d[f].ports = d[f].clients
  /\ \A n \in ZoneNros(d, z) \ left : d[n].used = GbUnder(d, n)

LEMMA CountsKept ==
  ASSUME NEW d, Documents(d), NEW z, NEW left, NEW k \in Fdts \cup Nros \cup Centrales,
         RightCounts(d, z, left), NEW e, CountsOne(d, e, k)
  PROVE  RightCounts(e, z, left \ {k})
<1>1. \A c \in Contracts : e[c] = d[c]
  BY InfraAssumption DEF CountsOne, Ids
<1>2. ASSUME NEW f \in ZoneFdts(e, z), f \notin left \ {k}
      PROVE  e[f].clients = Cardinality(ActiveOn(e, f)) /\ e[f].ports = e[f].clients
  <2>1. ActiveOn(e, f) = ActiveOn(d, f)
    BY <1>1 DEF ActiveOn
  <2>2. f \in Fdts /\ f \in Ids
    BY DEF ZoneFdts, Ids
  <2>3. CASE f = k
    BY <2>1, <2>2, <2>3 DEF CountsOne
  <2>4. CASE f # k
    <3>1. e[f] = d[f]
      BY <2>2, <2>4 DEF CountsOne
    <3>2. f \in ZoneFdts(d, z)
      BY <3>1 DEF ZoneFdts
    <3>. QED
      BY <1>2, <2>1, <2>4, <3>1, <3>2 DEF RightCounts
  <2>. QED
    BY <2>3, <2>4
<1>3. ASSUME NEW n \in ZoneNros(e, z), n \notin left \ {k}
      PROVE  e[n].used = GbUnder(e, n)
  <2>1. GbUnder(e, n) = GbUnder(d, n)
    <3>1. ActiveUnder(e, n) = ActiveUnder(d, n)
      BY <1>1 DEF ActiveUnder
    <3>2. \A c \in ActiveUnder(d, n) : e[c].gb = d[c].gb
      BY <1>1 DEF ActiveUnder
    <3>. QED
      BY <3>1, <3>2, SumGbSame DEF GbUnder
  <2>2. n \in Nros /\ n \in Ids
    BY DEF ZoneNros, Ids
  <2>3. CASE n = k
    BY <2>1, <2>2, <2>3 DEF CountsOne
  <2>4. CASE n # k
    <3>1. e[n] = d[n]
      BY <2>2, <2>4 DEF CountsOne
    <3>2. n \in ZoneNros(d, z)
      BY <3>1 DEF ZoneNros
    <3>. QED
      BY <1>3, <2>1, <2>4, <3>1, <3>2 DEF RightCounts
  <2>. QED
    BY <2>3, <2>4
<1>. QED
  BY <1>2, <1>3 DEF RightCounts

-----------------------------------------------------------------------------
(* Types.                                                                  *)

\* What a request has read is of the collection it is about.
ReadFits(a, read) ==
  /\ a.op = "nro.create" => read.centrale \in CentraleRef
  /\ a.op = "fdt.create" => read.region \in Region
  /\ a.op = "fdt.new" => read.nro \in Nros \cup {None} /\ read.region \in Region
  /\ a.op \notin {"nro.create", "fdt.create", "fdt.new"} => DocOf(a.id, read.doc)
  /\ a.op = "centrale.delete" => read.doc.live

ImportRec == [at : ImportAt, zone : Zones \cup {None}, features : Seq(Feature), todo : SUBSET Nat,
              left : SUBSET (Fdts \cup Nros \cup Centrales)]

Running(i) == imp[i].at \in {"validate", "begin", "sync", "recount"}

SessionType ==
  /\ DOMAIN txn = Importers
  /\ \A i \in Importers : /\ DOMAIN txn[i] = {"open", "base", "view", "dirty"}
                          /\ txn[i].open \in BOOLEAN /\ txn[i].dirty \subseteq Ids
                          /\ txn[i].open => Documents(txn[i].base) /\ Documents(txn[i].view)

ImporterType ==
  /\ imp \in [Importers -> ImportRec]
  /\ \A i \in Importers : Running(i) =>
       /\ imp[i].zone \in Zones /\ Sent(imp[i].zone, imp[i].features)
       /\ imp[i].todo \subseteq DOMAIN imp[i].features
  /\ wrote \in [Importers -> BOOLEAN]
  /\ begun \in 0..MaxBegun /\ faults \in 0..MaxFaults

ClerkType ==
  /\ DOMAIN req = Clerks
  /\ \A p \in Clerks : /\ DOMAIN req[p] = {"at", "ask", "read"}
                       /\ req[p].at \in {"idle", "write"}
                       /\ req[p].ask \in Requests \cup {NoRequest.ask}
                       /\ req[p].at = "write" =>
                            req[p].ask \in Requests /\ ReadFits(req[p].ask, req[p].read)
  /\ notices \subseteq Notice

AuditType ==
  /\ DOMAIN audit = {"at", "left", "read"}
  /\ audit.at \in {"off", "contracts", "nros"} /\ audit.left \subseteq Ids
  /\ audit.at = "contracts" => audit.left \subseteq Contracts
  /\ audit.at = "nros" => audit.left \subseteq Nros
  /\ \A k \in audit.left : DocOf(k, audit.read[k])

\* The session is open while the features are stored and the counters recomputed.
SessionsFit ==
  \A i \in Importers : txn[i].open <=> Transactional /\ imp[i].at \in {"sync", "recount"}

TypeInv == Documents(db) /\ SessionType /\ ImporterType /\ SessionsFit /\ ClerkType /\ AuditType

LEMMA TypeInvEnough == TypeInv => TypeOK
BY DEF TypeInv, TypeOK, SessionType, ImporterType, ClerkType, AuditType, ImportType, ImportRec, Ids

LEMMA TypeInit == Init => TypeInv
<1>. SUFFICES ASSUME Init
              PROVE  TypeInv
  OBVIOUS
<1>1. Documents(db)
  BY StoredAssumption DEF Init, ImportInit
<1>2. SessionType
  BY DEF Init, ImportInit, SessionType, NoSession
<1>3. ImporterType
  <2>1. IdleImport \in ImportRec
    BY DEF IdleImport, ImportRec, ImportAt
  <2>2. \A i \in Importers : ~Running(i)
    BY DEF Init, ImportInit, Running, IdleImport
  <2>. QED
    BY <2>1, <2>2, ImportAssumption DEF Init, ImportInit, ImporterType
<1>4. ClerkType /\ AuditType
  BY DEF Init, ClerkType, AuditType, NoRequest, AuditOff
<1>5. SessionsFit
  BY DEF Init, ImportInit, SessionsFit, NoSession, IdleImport
<1>. QED
  BY <1>1, <1>2, <1>3, <1>4, <1>5 DEF TypeInv

LEMMA PutType ==
  ASSUME Documents(db), NEW k \in Ids, NEW doc, DocOf(k, doc), Put(k, doc)
  PROVE  Documents(db')
<1>1. DOMAIN db = Ids
  BY DEF Documents
<1>2. DOMAIN db' = Ids /\ db'[k] = doc /\ \A j \in Ids : j # k => db'[j] = db[j]
  BY <1>1 DEF Put
<1>. QED
  BY <1>2, OneDocument

\* document.save() leaves a document of the same kind.
LEMMA SaveType ==
  ASSUME Documents(db), NEW k \in Ids \ Centrales, NEW read, DocOf(k, read),
         NEW new, DocOf(k, new), Save(k, read, new)
  PROVE  Documents(db')
<1>. DEFINE doc == Network!SaveModified(db[k], read, new)
<1>1. DocOf(k, db[k])
  BY EachDocument
<1>2. /\ DOMAIN doc = DOMAIN db[k]
      /\ \A x \in DOMAIN db[k] : doc[x] = IF new[x] # read[x] THEN new[x] ELSE db[k][x]
      /\ doc = [x \in DOMAIN db[k] |-> IF new[x] # read[x] THEN new[x] ELSE db[k][x]]
  BY DEF Network!SaveModified
<1>3. k \in Zones => doc \in ZoneDoc
  BY <1>1, <1>2 DEF DocOf, ZoneDoc
<1>4. k \in Nros => doc \in NroDoc
  BY <1>1, <1>2 DEF DocOf, NroDoc
<1>5. k \in Fdts => doc \in FdtDoc
  BY <1>1, <1>2 DEF DocOf, FdtDoc
<1>6. k \in Contracts => doc \in ContractDoc
  BY <1>1, <1>2 DEF DocOf, ContractDoc
<1>7. k \in Fibers => doc \in FiberDoc
  BY <1>1, <1>2 DEF DocOf, FiberDoc
<1>8. DocOf(k, doc)
  BY <1>3, <1>4, <1>5, <1>6, <1>7 DEF DocOf
<1>9. Put(k, doc)
  BY DEF Save
<1>. HIDE DEF doc
<1>. QED
  BY <1>8, <1>9, PutType

\* Writes through a session or past it.
LEMMA StoreType ==
  ASSUME TypeInv, NEW i \in Importers, NEW new, Documents(new), Store(i, new)
  PROVE  Documents(db') /\ SessionType' /\ wrote' \in [Importers -> BOOLEAN]
<1>1. Write(i, new) /\ wrote' = [wrote EXCEPT ![i] = @ \/ db' # db]
  BY DEF Store
<1>2. wrote' \in [Importers -> BOOLEAN]
  BY <1>1 DEF TypeInv, ImporterType
<1>3. CASE txn[i].open
  <2>1. /\ db' = db
        /\ txn' = [txn EXCEPT ![i].view = new,
                              ![i].dirty = @ \cup {k \in Ids : new[k] # txn[i].view[k]}]
    BY <1>1, <1>3 DEF Write
  <2>2. SessionType'
    BY <2>1, <1>3 DEF TypeInv, SessionType
  <2>. QED
    BY <1>2, <2>1, <2>2 DEF TypeInv
<1>4. CASE ~txn[i].open
  BY <1>1, <1>2, <1>4 DEF Write, TypeInv, SessionType
<1>. QED
  BY <1>3, <1>4

LEMMA StoreEffect ==
  ASSUME TypeInv, NEW i \in Importers, NEW new, Store(i, new)
  PROVE  /\ ~Refused(i, new)
         /\ \A j \in Importers : j # i => txn'[j] = txn[j] /\ wrote'[j] = wrote[j]
         /\ txn'[i].open = txn[i].open
         /\ txn[i].open =>
              /\ db' = db /\ wrote'[i] = wrote[i]
              /\ txn'[i].base = txn[i].base /\ txn'[i].view = new
              /\ txn'[i].dirty = txn[i].dirty \cup {k \in Ids : new[k] # txn[i].view[k]}
<1>1. ~Refused(i, new) /\ Write(i, new) /\ wrote' = [wrote EXCEPT ![i] = @ \/ db' # db]
  BY DEF Store
<1>2. /\ DOMAIN txn = Importers /\ DOMAIN txn[i] = {"open", "base", "view", "dirty"}
      /\ wrote \in [Importers -> BOOLEAN]
  BY DEF TypeInv, SessionType, ImporterType
<1>3. CASE txn[i].open
  <2>. DEFINE dirty == txn[i].dirty \cup {k \in Ids : new[k] # txn[i].view[k]}
              t == [txn[i] EXCEPT !.view = new, !.dirty = dirty]
  <2>1. /\ db' = db
        /\ txn' = [txn EXCEPT ![i].view = new, ![i].dirty = dirty]
    BY <1>1, <1>3 DEF Write
  <2>. HIDE DEF dirty
  <2>2. txn' = [txn EXCEPT ![i] = t]
    BY <1>2, <2>1
  <2>3. t.open = txn[i].open /\ t.base = txn[i].base /\ t.view = new /\ t.dirty = dirty
    BY <1>2
  <2>. HIDE DEF t
  <2>4. txn'[i] = t /\ \A j \in Importers : j # i => txn'[j] = txn[j]
    BY <1>2, <2>2
  <2>5. \A j \in Importers : wrote'[j] = wrote[j]
    BY <1>1, <1>2, <2>1
  <2>. QED
    BY <1>1, <2>1, <2>3, <2>4, <2>5 DEF dirty
<1>4. CASE ~txn[i].open
  BY <1>1, <1>2, <1>4 DEF Write
<1>. QED
  BY <1>3, <1>4

LEMMA ViewType ==
  ASSUME TypeInv, NEW i \in Importers
  PROVE  Documents(View(i))
BY DEF TypeInv, SessionType, View

\* Another place for importer i, the rest of it as before.
LEMMA MoveType ==
  ASSUME TypeInv, NEW i \in Importers, NEW to \in ImportAt, Move(i, to), Running(i),
         UNCHANGED <<wrote, begun, faults>>
  PROVE  ImporterType'
<1>1. imp[i] \in ImportRec
  BY DEF TypeInv, ImporterType
<1>2. [imp[i] EXCEPT !.at = to] \in ImportRec
  BY <1>1 DEF ImportRec
<1>3. \A j \in Importers : imp'[j] = IF j = i THEN [imp[i] EXCEPT !.at = to] ELSE imp[j]
  BY DEF Move, TypeInv, ImporterType
<1>4. imp' \in [Importers -> ImportRec]
  BY <1>2 DEF Move, TypeInv, ImporterType
<1>5. \A j \in Importers : /\ (imp'[j].at \in {"validate", "begin", "sync", "recount"}) => Running(j)
                           /\ imp'[j].zone = imp[j].zone /\ imp'[j].features = imp[j].features
                           /\ imp'[j].todo = imp[j].todo
  BY <1>1, <1>3 DEF ImportRec, Running
<1>. QED
  BY <1>4, <1>5 DEF TypeInv, ImporterType, Running

LEMMA IdleType ==
  ASSUME TypeInv, NEW i \in Importers, NEW to \in {"idle", "failed"},
         imp' = [imp EXCEPT ![i] = [IdleImport EXCEPT !.at = to]]
  PROVE  /\ imp' \in [Importers -> ImportRec]
         /\ \A j \in Importers : (Running(j))' =>
              /\ imp'[j].zone \in Zones /\ Sent(imp'[j].zone, imp'[j].features)
              /\ imp'[j].todo \subseteq DOMAIN imp'[j].features
<1>1. [IdleImport EXCEPT !.at = to] \in ImportRec
  <2>1. IdleImport \in ImportRec
    BY DEF IdleImport, ImportRec, ImportAt
  <2>. QED
    BY <2>1 DEF ImportRec, ImportAt
<1>2. [IdleImport EXCEPT !.at = to].at = to
  BY DEF IdleImport
<1>3. \A j \in Importers : imp'[j] = IF j = i THEN [IdleImport EXCEPT !.at = to] ELSE imp[j]
  BY DEF TypeInv, ImporterType
<1>. QED
  BY <1>1, <1>2, <1>3 DEF TypeInv, ImporterType, Running

LEMMA StartImportType ==
  ASSUME TypeInv, NEW i \in Importers, StartImport(i)
  PROVE  Documents(db') /\ SessionType' /\ ImporterType'
<1>1. PICK p \in Payloads :
        /\ begun < MaxBegun /\ Accepted(p[2], p[1])
        /\ imp' = [imp EXCEPT ![i] = [at |-> "validate", zone |-> p[1], features |-> p[2],
                                      todo |-> Parsed(p[2]), left |-> {}]]
  BY DEF StartImport
<1>2. wrote' = [wrote EXCEPT ![i] = FALSE] /\ begun' = begun + 1 /\ UNCHANGED <<db, txn, faults>>
  BY DEF StartImport
<1>. DEFINE z == p[1]
            s == p[2]
            new == [at |-> "validate", zone |-> z, features |-> s, todo |-> Parsed(s), left |-> {}]
<1>3. z \in Zones /\ Sent(z, s)
  BY <1>1, ImportAssumption DEF Accepted, Sent
<1>4. Parsed(s) \subseteq DOMAIN s /\ DOMAIN s \subseteq Nat
  BY <1>3 DEF Parsed, Sent
<1>5. s \in Seq(Feature)
  BY <1>3 DEF Sent
<1>. HIDE DEF s, z
<1>6. new \in ImportRec
  BY <1>3, <1>4, <1>5 DEF ImportRec, ImportAt
<1>7. \A j \in Importers : imp'[j] = IF j = i THEN new ELSE imp[j]
  BY <1>1 DEF TypeInv, ImporterType, s, z
<1>8. imp' \in [Importers -> ImportRec]
  BY <1>1, <1>6 DEF TypeInv, ImporterType, s, z
<1>9. begun' \in 0..MaxBegun /\ faults' \in 0..MaxFaults /\ wrote' \in [Importers -> BOOLEAN]
  BY <1>1, <1>2, ImportAssumption DEF TypeInv, ImporterType
<1>10. ImporterType'
  BY <1>3, <1>4, <1>7, <1>8, <1>9 DEF TypeInv, ImporterType, Running
<1>. QED
  BY <1>2, <1>10 DEF TypeInv, SessionType

LEMMA SyncFeatureType ==
  ASSUME TypeInv, NEW i \in Importers, SyncFeature(i)
  PROVE  Documents(db') /\ SessionType' /\ ImporterType'
<1>1. PICK n \in NextFeature(i) :
        Store(i, NextSynced(i, n)) /\ imp' = [imp EXCEPT ![i].todo = @ \ {n}]
  BY DEF SyncFeature
<1>2. /\ imp[i] \in ImportRec /\ Running(i)
      /\ imp[i].zone \in Zones /\ Sent(imp[i].zone, imp[i].features)
      /\ imp[i].todo \subseteq DOMAIN imp[i].features
  BY DEF TypeInv, ImporterType, SyncFeature, Running
<1>3. n \in DOMAIN imp[i].features
  BY <1>2 DEF NextFeature, Foremost
<1>4. Documents(NextSynced(i, n))
  BY <1>2, <1>3, ViewType, SyncedType DEF NextSynced
<1>5. Documents(db') /\ SessionType' /\ wrote' \in [Importers -> BOOLEAN]
  BY <1>1, <1>4, StoreType
<1>6. \A j \in Importers : imp'[j] = IF j = i THEN [imp[i] EXCEPT !.todo = @ \ {n}] ELSE imp[j]
  BY <1>1 DEF TypeInv, ImporterType
<1>7. [imp[i] EXCEPT !.todo = @ \ {n}] \in ImportRec
  BY <1>2 DEF ImportRec
<1>8. imp' \in [Importers -> ImportRec]
  BY <1>1, <1>7 DEF TypeInv, ImporterType
<1>9. \A j \in Importers : /\ imp'[j].at = imp[j].at
                           /\ imp'[j].zone = imp[j].zone /\ imp'[j].features = imp[j].features
                           /\ imp'[j].todo \subseteq imp[j].todo
  BY <1>2, <1>6 DEF ImportRec
<1>10. begun' \in 0..MaxBegun /\ faults' \in 0..MaxFaults
  BY DEF SyncFeature, TypeInv, ImporterType
<1>11. \A j \in Importers : Running(j)' =>
         /\ imp'[j].zone \in Zones /\ Sent(imp'[j].zone, imp'[j].features)
         /\ imp'[j].todo \subseteq DOMAIN imp'[j].features
  BY <1>9 DEF TypeInv, ImporterType, Running
<1>. QED
  BY <1>5, <1>8, <1>10, <1>11 DEF ImporterType

LEMMA RecountType ==
  ASSUME TypeInv, NEW i \in Importers, Recount(i)
  PROVE  Documents(db') /\ SessionType' /\ ImporterType'
<1>1. PICK k \in NextToCount(imp[i].left) :
        Store(i, Recounted(View(i), k)) /\ imp' = [imp EXCEPT ![i].left = @ \ {k}]
  BY DEF Recount
<1>2. imp[i] \in ImportRec
  BY DEF TypeInv, ImporterType
<1>3. k \in Fdts \cup Nros \cup Centrales
  BY <1>2 DEF ImportRec, NextToCount
<1>4. Documents(Recounted(View(i), k))
  BY <1>3, ViewType, RecountedStep
<1>5. Documents(db') /\ SessionType' /\ wrote' \in [Importers -> BOOLEAN]
  BY <1>1, <1>4, StoreType
<1>6. \A j \in Importers : imp'[j] = IF j = i THEN [imp[i] EXCEPT !.left = @ \ {k}] ELSE imp[j]
  BY <1>1 DEF TypeInv, ImporterType
<1>7. [imp[i] EXCEPT !.left = @ \ {k}] \in ImportRec
  BY <1>2 DEF ImportRec
<1>8. imp' \in [Importers -> ImportRec]
  BY <1>1, <1>7 DEF TypeInv, ImporterType
<1>9. \A j \in Importers : /\ imp'[j].at = imp[j].at
                           /\ imp'[j].zone = imp[j].zone /\ imp'[j].features = imp[j].features
                           /\ imp'[j].todo = imp[j].todo
  BY <1>2, <1>6 DEF ImportRec
<1>10. begun' \in 0..MaxBegun /\ faults' \in 0..MaxFaults
  BY DEF Recount, TypeInv, ImporterType
<1>11. \A j \in Importers : Running(j)' =>
         /\ imp'[j].zone \in Zones /\ Sent(imp'[j].zone, imp'[j].features)
         /\ imp'[j].todo \subseteq DOMAIN imp'[j].features
  BY <1>9 DEF TypeInv, ImporterType, Running
<1>. QED
  BY <1>5, <1>8, <1>10, <1>11 DEF ImporterType

LEMMA CommitType ==
  ASSUME TypeInv, NEW i \in Importers, CommitImport(i)
  PROVE  Documents(db') /\ SessionType' /\ ImporterType'
<1>1. imp' = [imp EXCEPT ![i] = [IdleImport EXCEPT !.at = "idle"]]
  BY DEF CommitImport, IdleImport
<1>2. begun' = begun /\ faults' = faults
  BY DEF CommitImport
<1>3. CASE Transactional
  <2>1. /\ db' = Merge(db, txn[i].dirty, txn[i].view)
        /\ txn' = [txn EXCEPT ![i] = NoSession] /\ wrote' = [wrote EXCEPT ![i] = @ \/ db' # db]
    BY <1>3 DEF CommitImport, CommitSession
  <2>2. Documents(txn[i].view) /\ Documents(db)
    BY <1>3 DEF TypeInv, SessionType, SessionsFit, CommitImport
  <2>3. Documents(db')
    <3>1. DOMAIN db' = Ids /\ \A k \in Ids : db'[k] \in {txn[i].view[k], db[k]}
      BY <2>1 DEF Merge
    <3>. QED
      BY <2>2, <3>1, EachDocument
  <2>4. SessionType'
    BY <2>1 DEF TypeInv, SessionType, NoSession
  <2>5. wrote' \in [Importers -> BOOLEAN]
    BY <2>1 DEF TypeInv, ImporterType
  <2>6. ImporterType'
    BY <1>1, <1>2, <2>5, IdleType DEF TypeInv, ImporterType
  <2>. QED
    BY <2>3, <2>4, <2>6
<1>4. CASE ~Transactional
  <2>1. UNCHANGED <<db, txn, wrote>>
    BY <1>4 DEF CommitImport
  <2>2. ImporterType'
    BY <1>1, <1>2, <2>1, IdleType DEF TypeInv, ImporterType
  <2>. QED
    BY <2>1, <2>2 DEF TypeInv, SessionType
<1>. QED
  BY <1>3, <1>4

LEMMA AbortType ==
  ASSUME TypeInv, NEW i \in Importers, Abort(i), faults' \in 0..MaxFaults
  PROVE  Documents(db') /\ SessionType' /\ ImporterType'
<1>1. imp' = [imp EXCEPT ![i] = [IdleImport EXCEPT !.at = "failed"]] /\ UNCHANGED <<wrote, begun>>
  BY DEF Abort
<1>2. ImporterType'
  BY <1>1, IdleType DEF TypeInv, ImporterType
<1>3. SessionType'
  BY DEF Abort, TypeInv, SessionType, NoSession
<1>. QED
  BY <1>2, <1>3 DEF Abort, TypeInv

LEMMA ImportTypeNext ==
  ASSUME TypeInv, ImportNext
  PROVE  Documents(db') /\ SessionType' /\ ImporterType'
<1>1. PICK i \in Importers : StartImport(i) \/ ImportStep(i) \/ FailImport(i)
  BY DEF ImportNext
<1>2. CASE ValidateHierarchy(i)
  <2>1. Running(i) /\ UNCHANGED <<db, txn, wrote, begun, faults>>
    BY <1>2 DEF ValidateHierarchy, Running
  <2>2. CASE Move(i, "begin")
    BY <2>1, <2>2, MoveType DEF TypeInv, SessionType, ImportAt
  <2>3. CASE imp' = [imp EXCEPT ![i] = IdleImport]
    <3>1. imp' = [imp EXCEPT ![i] = [IdleImport EXCEPT !.at = "idle"]]
      BY <2>3 DEF IdleImport
    <3>2. ImporterType'
      BY <2>1, <3>1, IdleType DEF TypeInv, ImporterType
    <3>. QED
      BY <2>1, <3>2 DEF TypeInv, SessionType
  <2>. QED
    BY <1>2, <2>2, <2>3 DEF ValidateHierarchy
<1>3. CASE BeginSync(i)
  <2>1. Running(i) /\ Move(i, "sync") /\ UNCHANGED <<db, wrote, begun, faults>>
    BY <1>3 DEF BeginSync, Running
  <2>2. ImporterType'
    BY <2>1, MoveType DEF ImportAt
  <2>3. SessionType'
    <3>1. CASE Transactional
      <4>. DEFINE new == [open |-> TRUE, base |-> db, view |-> db, dirty |-> {}]
      <4>1. txn' = [txn EXCEPT ![i] = new]
        BY <1>3, <3>1 DEF BeginSync, StartSession
      <4>2. /\ DOMAIN new = {"open", "base", "view", "dirty"} /\ new.open \in BOOLEAN
            /\ new.dirty \subseteq Ids /\ new.base = db /\ new.view = db
        OBVIOUS
      <4>. HIDE DEF new
      <4>. QED
        BY <4>1, <4>2 DEF TypeInv, SessionType
    <3>2. CASE ~Transactional
      BY <1>3, <3>2 DEF BeginSync, TypeInv, SessionType
    <3>. QED
      BY <3>1, <3>2
  <2>. QED
    BY <2>1, <2>2, <2>3 DEF TypeInv
<1>4. CASE LoadZone(i)
  <2>. DEFINE left == ZoneDocs(View(i), imp[i].zone)
              new == [imp[i] EXCEPT !.at = "recount", !.left = left]
  <2>1. /\ Running(i) /\ UNCHANGED <<db, txn, wrote, begun, faults>>
        /\ imp' = [imp EXCEPT ![i].at = "recount", ![i].left = left]
    BY <1>4 DEF LoadZone, Running
  <2>2. left \subseteq Fdts \cup Nros \cup Centrales
    BY DEF ZoneDocs, ZoneFdts, ZoneNros, ZoneCentrales
  <2>3. imp[i] \in ImportRec
    BY DEF TypeInv, ImporterType
  <2>4. /\ new \in ImportRec
        /\ new.zone = imp[i].zone /\ new.features = imp[i].features /\ new.todo = imp[i].todo
    BY <2>2, <2>3 DEF ImportRec, ImportAt
  <2>5. \A j \in Importers : imp'[j] = IF j = i THEN new ELSE imp[j]
    BY <2>1 DEF TypeInv, ImporterType
  <2>6. imp' \in [Importers -> ImportRec]
    BY <2>1, <2>4 DEF TypeInv, ImporterType
  <2>. HIDE DEF new
  <2>7. \A j \in Importers : /\ imp'[j].at \in {"validate", "begin", "sync", "recount"} => Running(j)
                             /\ imp'[j].zone = imp[j].zone /\ imp'[j].features = imp[j].features
                             /\ imp'[j].todo = imp[j].todo
    BY <2>1, <2>4, <2>5 DEF Running
  <2>8. ImporterType'
    BY <2>1, <2>6, <2>7 DEF TypeInv, ImporterType, Running
  <2>. QED
    BY <2>1, <2>8 DEF TypeInv, SessionType
<1>5. CASE RefuseWrite(i) \/ FailImport(i)
  <2>1. Abort(i) /\ faults' \in 0..MaxFaults
    BY <1>5, ImportAssumption DEF RefuseWrite, FailImport, TypeInv, ImporterType
  <2>. QED
    BY <2>1, AbortType
<1>. QED
  BY <1>1, <1>2, <1>3, <1>4, <1>5, StartImportType, SyncFeatureType, RecountType, CommitType
  DEF ImportStep

\* An importer changes nothing of the others.
LEMMA OthersApart ==
  ASSUME TypeInv, NEW i \in Importers, StartImport(i) \/ ImportStep(i) \/ FailImport(i)
  PROVE  \A j \in Importers \ {i} : imp'[j] = imp[j] /\ txn'[j] = txn[j] /\ wrote'[j] = wrote[j]
<1>1. \A j \in Importers : j # i => imp'[j] = imp[j]
  BY DEF ImportStep, StartImport, ValidateHierarchy, BeginSync, SyncFeature, LoadZone, Recount,
         CommitImport, RefuseWrite, FailImport, Abort, Move, TypeInv, ImporterType
<1>2. \A j \in Importers : j # i => txn'[j] = txn[j]
  BY DEF ImportStep, StartImport, ValidateHierarchy, BeginSync, SyncFeature, LoadZone, Recount,
         CommitImport, RefuseWrite, FailImport, Abort, StartSession, CommitSession, Store, Write,
         TypeInv, SessionType
<1>3. \A j \in Importers : j # i => wrote'[j] = wrote[j]
  BY DEF ImportStep, StartImport, ValidateHierarchy, BeginSync, SyncFeature, LoadZone, Recount,
         CommitImport, RefuseWrite, FailImport, Abort, Store, TypeInv, ImporterType
<1>. QED
  BY <1>1, <1>2, <1>3

LEMMA SessionsFitNext ==
  ASSUME TypeInv, ImportNext
  PROVE  SessionsFit'
<1>1. PICK i \in Importers : StartImport(i) \/ ImportStep(i) \/ FailImport(i)
  BY DEF ImportNext
<1>4. txn'[i].open <=> Transactional /\ imp'[i].at \in {"sync", "recount"}
  <2>0. /\ txn[i].open <=> Transactional /\ imp[i].at \in {"sync", "recount"}
        /\ DOMAIN txn = Importers /\ DOMAIN txn[i] = {"open", "base", "view", "dirty"}
        /\ imp \in [Importers -> ImportRec] /\ imp[i] \in ImportRec
    BY DEF TypeInv, SessionsFit, SessionType, ImporterType
  <2>1. CASE StartImport(i) \/ ValidateHierarchy(i)
    BY <2>0, <2>1 DEF StartImport, Free, ValidateHierarchy, Move, IdleImport, ImportRec
  <2>2. CASE BeginSync(i)
    BY <2>0, <2>2 DEF BeginSync, Move, StartSession, ImportRec
  <2>3. CASE SyncFeature(i) \/ Recount(i)
    <3>1. txn'[i].open = txn[i].open
      BY <2>3, StoreEffect DEF SyncFeature, Recount
    <3>2. imp'[i].at = imp[i].at
      BY <2>0, <2>3 DEF SyncFeature, Recount, ImportRec
    <3>. QED
      BY <2>0, <3>1, <3>2
  <2>4. CASE LoadZone(i)
    BY <2>0, <2>4 DEF LoadZone, ImportRec
  <2>5. CASE CommitImport(i)
    BY <2>0, <2>5 DEF CommitImport, CommitSession, NoSession, IdleImport
  <2>6. CASE RefuseWrite(i) \/ FailImport(i)
    BY <2>0, <2>6 DEF RefuseWrite, FailImport, Abort, NoSession, IdleImport
  <2>. QED
    BY <1>1, <2>1, <2>2, <2>3, <2>4, <2>5, <2>6 DEF ImportStep
<1>. QED
  BY <1>1, <1>4, OthersApart DEF TypeInv, SessionsFit

-----------------------------------------------------------------------------
(* Requests and audits.                                                    *)

LEMMA SubjectOf ==
  ASSUME NEW a \in Requests
  PROVE  /\ a.id \in Ids
         /\ a.op \in {"zone.update", "zone.remove"} => a.id \in Zones
         /\ a.op \in {"centrale.create", "centrale.update", "centrale.delete"} => a.id \in Centrales
         /\ a.op \in {"nro.create", "nro.update", "nro.remove"} => a.id \in Nros
         /\ a.op \in {"fdt.create", "fdt.update", "fdt.remove", "fdt.new"} => a.id \in Fdts
         /\ a.op \in {"fiber.create", "fiber.update", "fiber.delete"} => a.id \in Fibers
<1>1. <<a.op, a.id>> \in Operations
  BY RequestAssumption
<1>. QED
  BY <1>1 DEF Operations, Ids

LEMMA Served ==
  ASSUME TypeInv, NEW p \in Clerks, req' = [req EXCEPT ![p] = NoRequest], notices' \subseteq Notice
  PROVE  ClerkType'
BY DEF TypeInv, ClerkType, NoRequest

LEMMA TellType ==
  ASSUME TypeInv, NEW a \in Requests, NEW region \in Region,
         NEW event \in {"CENTRALE_NEW", "CENTRALE_DELETE", "NRO_NEW", "NRO_DELETE", "FDT_NEW",
                        "FDT_DELETE"},
         Tell(a, event, region)
  PROVE  notices' \subseteq Notice
<1>1. [event |-> event, id |-> a.id, region |-> region] \in Notice
  BY SubjectOf DEF Notice
<1>. QED
  BY <1>1 DEF Tell, TypeInv, ClerkType

\* The identities of zones, and the values that requests carry.
LEMMA RequestValues ==
  ASSUME NEW a \in Requests
  PROVE  /\ a.zone \in Zones /\ a.region \in Region /\ a.nro \in Nros \cup {None}
         /\ a.zone # None
         /\ a.op # "fdt.create" => a.centrale \in Centrales
         /\ a.op = "fdt.create" => a.nro \in Nros
         /\ a.gb \in Nat /\ a.used \in Nat /\ a.status \in NroStatus /\ a.active \in BOOLEAN
         /\ IdOf(a.zone) \in Region /\ NameOf(a.zone) \in Region
<1>1. /\ a.zone \in Zones /\ a.region \in Region /\ a.nro \in Nros \cup {None}
      /\ a.op # "fdt.create" => a.centrale \in Centrales
      /\ a.op = "fdt.create" => a.nro # None
      /\ a.gb \in Nat /\ a.used \in Nat /\ a.status \in NroStatus /\ a.active \in BOOLEAN
  BY RequestAssumption
<1>2. None \notin Ids
  BY InfraAssumption
<1>. QED
  BY <1>1, <1>2 DEF IdOf, NameOf, Region, Ids

LEMMA EmptyDocs ==
  /\ NoNro \in NroDoc /\ NoFdt \in FdtDoc /\ NoContract \in ContractDoc /\ NoFiber \in FiberDoc
  /\ Stub \in CentraleDoc /\ ~Stub.live
<1>1. NoNro \in NroDoc
  BY DEF NoNro, NroDoc, Region, NoCentrale, CentraleRef, NroStatus, Saturation
<1>2. NoFdt \in FdtDoc
  BY DEF NoFdt, FdtDoc, Region
<1>3. NoContract \in ContractDoc /\ NoFiber \in FiberDoc /\ Stub \in CentraleDoc /\ ~Stub.live
  BY DEF NoContract, ContractDoc, ContractStatus, NoFiber, FiberDoc, Stub, CentraleDoc
<1>. QED
  BY <1>1, <1>2, <1>3

\* A document is of one collection.
LEMMA DocKind ==
  ASSUME NEW k, NEW doc
  PROVE  /\ k \in Zones => (DocOf(k, doc) <=> doc \in ZoneDoc)
         /\ k \in Centrales => (DocOf(k, doc) <=> doc \in CentraleDoc /\ (doc.live => doc.zone # None))
         /\ k \in Nros => (DocOf(k, doc) <=> doc \in NroDoc)
         /\ k \in Fdts => (DocOf(k, doc) <=> doc \in FdtDoc)
         /\ k \in Contracts => (DocOf(k, doc) <=> doc \in ContractDoc)
         /\ k \in Fibers => (DocOf(k, doc) <=> doc \in FiberDoc)
BY InfraAssumption DEF DocOf

LEMMA RegionBelowType ==
  ASSUME Documents(db), NEW n \in Nros \cup {None}, NEW asked \in Region
  PROVE  RegionBelow(n, asked) \in Region
BY DEF RegionBelow, Documents, NroDoc

LEMMA ReadsForType ==
  ASSUME TypeInv, NEW a \in Requests, Admissible(a), NEW read \in ReadsFor(a)
  PROVE  ReadFits(a, read)
<1>1. Documents(db)
  BY DEF TypeInv
<1>2. CASE a.op = "nro.create"
  <2>1. read = [centrale |-> RefTo(db, a.centrale)]
    BY <1>2 DEF ReadsFor
  <2>2. RefTo(db, a.centrale) \in CentraleRef
    BY <1>1, <1>2, RequestValues DEF RefTo, CentraleRef, Documents, CentraleDoc
  <2>. QED
    BY <1>2, <2>1, <2>2 DEF ReadFits
<1>3. CASE a.op = "fdt.create"
  <2>1. read = [region |-> RegionBelow(a.nro, a.region)]
    BY <1>3 DEF ReadsFor
  <2>2. RegionBelow(a.nro, a.region) \in Region
    BY <1>1, RequestValues, RegionBelowType
  <2>. QED
    BY <1>3, <2>1, <2>2 DEF ReadFits
<1>4. CASE a.op = "fdt.new"
  <2>1. PICK n \in NewParents(a) : read = [nro |-> n, region |-> RegionBelow(n, IdOf(a.zone))]
    BY <1>4 DEF ReadsFor
  <2>2. n \in Nros \cup {None}
    BY RequestValues DEF NewParents, ZoneNros
  <2>3. RegionBelow(n, IdOf(a.zone)) \in Region
    BY <1>1, <2>2, RequestValues, RegionBelowType
  <2>. QED
    BY <1>4, <2>1, <2>2, <2>3 DEF ReadFits
<1>5. CASE a.op \notin {"nro.create", "fdt.create", "fdt.new"}
  <2>1. read = [doc |-> db[a.id]]
    BY <1>5 DEF ReadsFor
  <2>2. DocOf(a.id, db[a.id])
    BY <1>1, SubjectOf, EachDocument
  <2>3. a.op = "centrale.delete" => db[a.id].live
    BY DEF Admissible
  <2>. QED
    BY <1>5, <2>1, <2>2, <2>3 DEF ReadFits
<1>. QED
  BY <1>2, <1>3, <1>4, <1>5

LEMMA ReceiveType ==
  ASSUME TypeInv, NEW p \in Clerks, Receive(p)
  PROVE  ClerkType'
<1>1. PICK a \in Requests : \E read \in ReadsFor(a) :
        Admissible(a) /\ req' = [req EXCEPT ![p] = [at |-> "write", ask |-> a, read |-> read]]
  BY DEF Receive
<1>2. PICK read \in ReadsFor(a) :
        Admissible(a) /\ req' = [req EXCEPT ![p] = [at |-> "write", ask |-> a, read |-> read]]
  BY <1>1
<1>3. ReadFits(a, read)
  BY <1>2, ReadsForType
<1>. DEFINE new == [at |-> "write", ask |-> a, read |-> read]
<1>4. /\ DOMAIN new = {"at", "ask", "read"} /\ new.at = "write" /\ new.ask = a
      /\ new.read = read
  OBVIOUS
<1>. HIDE DEF new
<1>5. DOMAIN req' = Clerks /\ \A q \in Clerks : req'[q] = IF q = p THEN new ELSE req[q]
  BY <1>2 DEF TypeInv, ClerkType, new
<1>6. notices' = notices
  BY DEF Receive
<1>. QED
  BY <1>3, <1>4, <1>5, <1>6 DEF TypeInv, ClerkType

LEMMA ZoneRequestType ==
  ASSUME TypeInv, NEW p \in Clerks, UpdateZone(p) \/ RemoveZone(p)
  PROVE  Documents(db') /\ ClerkType'
<1>. DEFINE a == req[p].ask
            doc == req[p].read.doc
            new(on) == [doc EXCEPT !.active = on]
<1>1. a \in Requests /\ ReadFits(a, req[p].read) /\ a.op \in {"zone.update", "zone.remove"}
  BY DEF TypeInv, ClerkType, UpdateZone, RemoveZone, Handle
<1>2. a.id \in Zones /\ a.id \in Ids \ Centrales /\ a.active \in BOOLEAN
  BY <1>1, SubjectOf, RequestValues, InfraAssumption
<1>3. doc \in ZoneDoc
  BY <1>1, <1>2, DocKind DEF ReadFits
<1>4. \A on \in BOOLEAN : new(on) \in ZoneDoc
  BY <1>3 DEF ZoneDoc
<1>5. /\ \E on \in BOOLEAN : Save(a.id, doc, new(on))
      /\ req' = [req EXCEPT ![p] = NoRequest] /\ notices' = notices
  BY <1>2 DEF UpdateZone, RemoveZone, Handle
<1>6. ClerkType'
  BY <1>5, Served DEF TypeInv, ClerkType
<1>7. Documents(db')
  <2>1. PICK on \in BOOLEAN : Save(a.id, doc, new(on))
    BY <1>5
  <2>2. DocOf(a.id, doc) /\ DocOf(a.id, new(on)) /\ Documents(db)
    BY <1>2, <1>3, <1>4, DocKind DEF TypeInv
  <2>. HIDE DEF doc, a, new
  <2>. QED
    BY <1>2, <2>1, <2>2, SaveType
<1>. QED
  BY <1>6, <1>7

LEMMA CentraleRequestType ==
  ASSUME TypeInv, NEW p \in Clerks, CreateCentrale(p) \/ UpdateCentrale(p) \/ DeleteCentrale(p)
  PROVE  Documents(db') /\ ClerkType'
<1>. DEFINE a == req[p].ask
            k == a.id
<1>1. /\ a \in Requests /\ ReadFits(a, req[p].read)
      /\ a.op \in {"centrale.create", "centrale.update", "centrale.delete"}
      /\ req' = [req EXCEPT ![p] = NoRequest]
  BY DEF TypeInv, ClerkType, CreateCentrale, UpdateCentrale, DeleteCentrale, Handle
<1>2. k \in Centrales /\ k \in Ids
  BY <1>1, SubjectOf
<1>3. Documents(db) /\ db[k] \in CentraleDoc /\ (db[k].live => db[k].zone # None)
  BY <1>2 DEF TypeInv, Documents
<1>4. a.zone \in Zones /\ a.zone # None /\ a.gb \in Nat /\ IdOf(a.zone) \in Region
  BY <1>1, RequestValues
<1>5. CASE CreateCentrale(p)
  <2>. DEFINE new == [live |-> TRUE, oid |-> db[k].oid + 1, zone |-> a.zone, cap |-> a.gb]
  <2>1. Put(k, new) /\ Tell(a, "CENTRALE_NEW", IdOf(a.zone))
    BY <1>5 DEF CreateCentrale
  <2>2. new \in CentraleDoc /\ new.zone # None
    BY <1>3, <1>4 DEF CentraleDoc
  <2>. HIDE DEF new, k
  <2>3. Documents(db')
    BY <1>2, <1>3, <2>1, <2>2, DocKind, PutType
  <2>4. notices' \subseteq Notice
    BY <1>1, <1>4, <2>1, TellType
  <2>. QED
    BY <1>1, <2>3, <2>4, Served
<1>6. CASE UpdateCentrale(p)
  <2>. DEFINE new == [db[k] EXCEPT !.zone = a.zone, !.cap = a.gb]
  <2>1. Put(k, new) /\ notices' = notices
    BY <1>6 DEF UpdateCentrale
  <2>2. new \in CentraleDoc /\ new.zone # None
    BY <1>3, <1>4 DEF CentraleDoc
  <2>. HIDE DEF new, k
  <2>3. Documents(db')
    BY <1>2, <1>3, <2>1, <2>2, DocKind, PutType
  <2>. QED
    BY <1>1, <2>1, <2>3, Served DEF TypeInv, ClerkType
<1>7. CASE DeleteCentrale(p)
  <2>. DEFINE new == [Stub EXCEPT !.oid = db[k].oid]
              doc == req[p].read.doc
  <2>1. Put(k, new) /\ Tell(a, "CENTRALE_DELETE", IdOf(doc.zone)) /\ a.op = "centrale.delete"
    BY <1>7 DEF DeleteCentrale, Handle
  <2>2. new \in CentraleDoc /\ ~new.live
    BY <1>3, EmptyDocs DEF CentraleDoc
  <2>3. doc \in CentraleDoc /\ doc.zone # None
    BY <1>1, <1>2, <2>1, DocKind DEF ReadFits
  <2>4. IdOf(doc.zone) \in Region
    BY <2>3 DEF IdOf, Region, CentraleDoc
  <2>. HIDE DEF new, k, doc
  <2>5. Documents(db')
    BY <1>2, <1>3, <2>1, <2>2, DocKind, PutType
  <2>6. notices' \subseteq Notice
    BY <1>1, <2>1, <2>4, TellType
  <2>. QED
    BY <1>1, <2>5, <2>6, Served
<1>. QED
  BY <1>5, <1>6, <1>7

LEMMA NroRequestType ==
  ASSUME TypeInv, NEW p \in Clerks, CreateNro(p) \/ UpdateNroDoc(p) \/ RemoveNro(p)
  PROVE  Documents(db') /\ ClerkType'
<1>. DEFINE a == req[p].ask
            k == a.id
            doc == req[p].read.doc
<1>1. /\ a \in Requests /\ ReadFits(a, req[p].read)
      /\ a.op \in {"nro.create", "nro.update", "nro.remove"}
      /\ req' = [req EXCEPT ![p] = NoRequest]
  BY DEF TypeInv, ClerkType, CreateNro, UpdateNroDoc, RemoveNro, Handle
<1>2. k \in Nros /\ k \in Ids \ Centrales
  BY <1>1, SubjectOf, InfraAssumption
<1>3. Documents(db)
  BY DEF TypeInv
<1>4. /\ a.gb \in Nat /\ a.status \in NroStatus
      /\ a.region \in Region /\ NameOf(a.zone) \in Region
  BY <1>1, RequestValues
<1>5. CASE CreateNro(p)
  <2>. DEFINE new == [NoNro EXCEPT !.live = TRUE, !.region = NameOf(a.zone), !.max = a.gb,
                                   !.centrale = req[p].read.centrale]
  <2>1. Put(k, new) /\ Tell(a, "NRO_NEW", NameOf(a.zone)) /\ a.op = "nro.create"
    BY <1>5 DEF CreateNro, Handle
  <2>2. new \in NroDoc
    BY <1>1, <1>4, <2>1, EmptyDocs DEF NroDoc, ReadFits
  <2>. HIDE DEF new, k
  <2>3. Documents(db')
    BY <1>2, <1>3, <2>1, <2>2, DocKind, PutType
  <2>4. notices' \subseteq Notice
    BY <1>1, <1>4, <2>1, TellType
  <2>. QED
    BY <1>1, <2>3, <2>4, Served
<1>6. CASE UpdateNroDoc(p)
  <2>. DEFINE new == [doc EXCEPT !.max = a.gb, !.status = a.status,
                                 !.region = Rezoned(doc, a.region)]
  <2>1. Save(k, doc, new) /\ notices' = notices /\ a.op = "nro.update"
    BY <1>6 DEF UpdateNroDoc, Handle
  <2>2. doc \in NroDoc
    BY <1>1, <1>2, <2>1, DocKind DEF ReadFits
  <2>3. new \in NroDoc
    BY <1>4, <2>2 DEF NroDoc, Rezoned
  <2>. HIDE DEF new, k, doc
  <2>4. Documents(db')
    BY <1>2, <1>3, <2>1, <2>2, <2>3, DocKind, SaveType
  <2>. QED
    BY <1>1, <2>1, <2>4, Served DEF TypeInv, ClerkType
<1>7. CASE RemoveNro(p)
  <2>. DEFINE new == [doc EXCEPT !.status = "DELETED"]
  <2>1. Save(k, doc, new) /\ Tell(a, "NRO_DELETE", doc.region) /\ a.op = "nro.remove"
    BY <1>7 DEF RemoveNro, Handle
  <2>2. doc \in NroDoc
    BY <1>1, <1>2, <2>1, DocKind DEF ReadFits
  <2>3. new \in NroDoc /\ doc.region \in Region
    BY <2>2 DEF NroDoc, NroStatus
  <2>. HIDE DEF new, k, doc
  <2>4. Documents(db')
    BY <1>2, <1>3, <2>1, <2>2, <2>3, DocKind, SaveType
  <2>5. notices' \subseteq Notice
    BY <1>1, <2>1, <2>3, TellType
  <2>. QED
    BY <1>1, <2>4, <2>5, Served
<1>. QED
  BY <1>5, <1>6, <1>7

LEMMA FdtRequestType ==
  ASSUME TypeInv, NEW p \in Clerks,
         CreateFdt(p) \/ UpdateFdt(p) \/ RemoveFdt(p) \/ NewFdtEvent(p)
  PROVE  Documents(db') /\ ClerkType'
<1>. DEFINE a == req[p].ask
            k == a.id
            doc == req[p].read.doc
<1>1. /\ a \in Requests /\ ReadFits(a, req[p].read)
      /\ a.op \in {"fdt.create", "fdt.update", "fdt.remove", "fdt.new"}
      /\ req' = [req EXCEPT ![p] = NoRequest]
  BY DEF TypeInv, ClerkType, CreateFdt, UpdateFdt, RemoveFdt, NewFdtEvent, Handle
<1>2. k \in Fdts /\ k \in Ids \ Centrales
  BY <1>1, SubjectOf, InfraAssumption
<1>3. Documents(db) /\ db[k] \in FdtDoc
  BY <1>2 DEF TypeInv, Documents
<1>4. a.gb \in Nat /\ a.nro \in Nros \cup {None} /\ a.region \in Region
  BY <1>1, RequestValues
<1>5. CASE CreateFdt(p)
  <2>. DEFINE region == req[p].read.region
              new == [NoFdt EXCEPT !.live = TRUE, !.region = region, !.nro = a.nro, !.total = a.gb]
  <2>1. Put(k, new) /\ Tell(a, "FDT_NEW", region) /\ a.op = "fdt.create"
    BY <1>5 DEF CreateFdt, Handle
  <2>2. region \in Region
    BY <1>1, <2>1 DEF ReadFits
  <2>. HIDE DEF region
  <2>3. new \in FdtDoc
    BY <1>4, <2>2, EmptyDocs DEF FdtDoc
  <2>. HIDE DEF new, k
  <2>4. Documents(db')
    BY <1>2, <1>3, <2>1, <2>3, DocKind, PutType
  <2>5. notices' \subseteq Notice
    BY <1>1, <2>1, <2>2, TellType
  <2>. QED
    BY <1>1, <2>4, <2>5, Served
<1>6. CASE UpdateFdt(p)
  <2>. DEFINE new == [doc EXCEPT !.nro = a.nro, !.total = a.gb, !.region = Rezoned(doc, a.region)]
  <2>1. Save(k, doc, new) /\ notices' = notices /\ a.op = "fdt.update"
    BY <1>6 DEF UpdateFdt, Handle
  <2>2. doc \in FdtDoc
    BY <1>1, <1>2, <2>1, DocKind DEF ReadFits
  <2>3. new \in FdtDoc
    BY <1>4, <2>2 DEF FdtDoc, Rezoned
  <2>. HIDE DEF new, k, doc
  <2>4. Documents(db')
    BY <1>2, <1>3, <2>1, <2>2, <2>3, DocKind, SaveType
  <2>. QED
    BY <1>1, <2>1, <2>4, Served DEF TypeInv, ClerkType
<1>7. CASE RemoveFdt(p)
  <2>1. Put(k, NoFdt) /\ Tell(a, "FDT_DELETE", doc.region) /\ a.op = "fdt.remove"
    BY <1>7 DEF RemoveFdt, Handle
  <2>2. doc \in FdtDoc
    BY <1>1, <1>2, <2>1, DocKind DEF ReadFits
  <2>3. doc.region \in Region
    BY <2>2 DEF FdtDoc
  <2>. HIDE DEF k, doc
  <2>4. Documents(db')
    BY <1>2, <1>3, <2>1, DocKind, EmptyDocs, PutType
  <2>5. notices' \subseteq Notice
    BY <1>1, <2>1, <2>3, TellType
  <2>. QED
    BY <1>1, <2>4, <2>5, Served
<1>8. CASE NewFdtEvent(p)
  <2>. DEFINE read == req[p].read
              old == IF db[k].live THEN db[k] ELSE [NoFdt EXCEPT !.total = a.gb]
              new == [old EXCEPT !.live = TRUE, !.region = read.region,
                                 !.nro = IF read.nro = None THEN @ ELSE read.nro]
  <2>1. Put(k, new) /\ notices' = notices /\ a.op = "fdt.new"
    BY <1>8 DEF NewFdtEvent, Handle
  <2>2. read.nro \in Nros \cup {None} /\ read.region \in Region
    BY <1>1, <2>1 DEF ReadFits
  <2>3. old \in FdtDoc
    BY <1>3, <1>4, EmptyDocs DEF FdtDoc
  <2>. HIDE DEF old, read
  <2>4. new \in FdtDoc
    BY <2>2, <2>3 DEF FdtDoc
  <2>. HIDE DEF new, k
  <2>5. Documents(db')
    BY <1>2, <1>3, <2>1, <2>4, DocKind, PutType
  <2>. QED
    BY <1>1, <2>1, <2>5, Served DEF TypeInv, ClerkType
<1>. QED
  BY <1>5, <1>6, <1>7, <1>8

LEMMA FiberRequestType ==
  ASSUME TypeInv, NEW p \in Clerks, CreateFiber(p) \/ UpdateFiber(p) \/ DeleteFiber(p)
  PROVE  Documents(db') /\ ClerkType'
<1>. DEFINE a == req[p].ask
            k == a.id
            doc == req[p].read.doc
            made == [live |-> TRUE, zone |-> a.zone, total |-> a.gb, used |-> 0]
            new == [doc EXCEPT !.total = a.gb, !.used = a.used]
<1>1. /\ a \in Requests /\ ReadFits(a, req[p].read)
      /\ a.op \in {"fiber.create", "fiber.update", "fiber.delete"}
      /\ req' = [req EXCEPT ![p] = NoRequest] /\ notices' = notices
  BY DEF TypeInv, ClerkType, CreateFiber, UpdateFiber, DeleteFiber, Handle
<1>2. k \in Fibers /\ k \in Ids \ Centrales
  BY <1>1, SubjectOf, InfraAssumption
<1>3. Documents(db) /\ ClerkType'
  BY <1>1, Served DEF TypeInv, ClerkType
<1>4. made \in FiberDoc
  BY <1>1, RequestValues DEF FiberDoc
<1>5. doc \in FiberDoc => new \in FiberDoc
  BY <1>1, RequestValues DEF FiberDoc
<1>6. a.op \in {"fiber.update", "fiber.delete"} => doc \in FiberDoc
  BY <1>1, <1>2, DocKind DEF ReadFits
<1>7. \/ Put(k, made) \/ Put(k, NoFiber)
      \/ a.op = "fiber.update" /\ Save(k, doc, new)
  BY DEF CreateFiber, UpdateFiber, DeleteFiber, Handle
<1>. HIDE DEF made, new, doc, k
<1>8. Documents(db')
  BY <1>2, <1>3, <1>4, <1>5, <1>6, <1>7, DocKind, EmptyDocs, PutType, SaveType
<1>. QED
  BY <1>3, <1>8

LEMMA ClerkStepType ==
  ASSUME TypeInv, NEW p \in Clerks, ClerkStep(p)
  PROVE  Documents(db') /\ ClerkType' /\ UNCHANGED <<txn, imp, wrote, begun, faults, audit>>
<1>1. UNCHANGED <<txn, imp, wrote, begun, faults, audit>>
  BY DEF ClerkStep, TurnedDown, UpdateZone, RemoveZone, CreateCentrale, UpdateCentrale, DeleteCentrale,
         CreateNro, UpdateNroDoc, RemoveNro, CreateFdt, UpdateFdt, RemoveFdt, NewFdtEvent,
         CreateFiber, UpdateFiber, DeleteFiber, Unread, impVars
<1>2. CASE TurnedDown(p)
  <2>1. req' = [req EXCEPT ![p] = NoRequest] /\ UNCHANGED <<db, notices>>
    BY <1>2 DEF TurnedDown
  <2>. QED
    BY <1>1, <2>1, Served DEF TypeInv, ClerkType
<1>. QED
  BY <1>1, <1>2, ZoneRequestType, CentraleRequestType, NroRequestType, FdtRequestType,
     FiberRequestType DEF ClerkStep

LEMMA LoadType ==
  ASSUME TypeInv, NEW at \in {"contracts", "nros"}, NEW ids, audit' = Load(at, ids), 
         at = "contracts" => ids \subseteq Contracts, at = "nros" => ids \subseteq Nros
  PROVE  AuditType'
<1>. DEFINE new == [at |-> at, left |-> ids, read |-> [k \in ids |-> db[k]]]
<1>1. ids \subseteq Ids
  BY DEF Ids
<1>2. \A k \in Ids : DocOf(k, db[k])
  BY EachDocument DEF TypeInv
<1>3. /\ DOMAIN new = {"at", "left", "read"} /\ new.at = at /\ new.left = ids
      /\ \A k \in ids : new.read[k] = db[k]
  OBVIOUS
<1>4. audit' = new
  BY DEF Load
<1>. HIDE DEF new
<1>. QED
  BY <1>1, <1>2, <1>3, <1>4 DEF AuditType

\* One more document has been looked at.
LEMMA LookedAt ==
  ASSUME TypeInv, NEW k, audit' = [audit EXCEPT !.left = @ \ {k}]
  PROVE  AuditType'
<1>1. /\ DOMAIN audit' = DOMAIN audit /\ audit'.at = audit.at /\ audit'.read = audit.read
      /\ audit'.left = audit.left \ {k}
  BY DEF TypeInv, AuditType
<1>. QED
  BY <1>1 DEF TypeInv, AuditType

LEMMA AuditStepType ==
  ASSUME TypeInv, StartAudit \/ AuditStep
  PROVE  Documents(db') /\ AuditType' /\ UNCHANGED <<txn, imp, wrote, begun, faults, req, notices>>
<1>1. UNCHANGED <<txn, imp, wrote, begun, faults, req, notices>>
  BY DEF StartAudit, AuditStep, ResolveContract, LoadNros, ResolveNroRef, EndAudit, AuditKeep, impVars
<1>2. Documents(db) /\ AuditType
  BY DEF TypeInv
<1>3. CASE StartAudit
  BY <1>1, <1>2, <1>3, LoadType DEF StartAudit, Unplaced
<1>4. CASE ResolveContract
  <2>1. PICK c \in audit.left :
          /\ audit' = [audit EXCEPT !.left = @ \ {c}]
          /\ \/ UNCHANGED db
             \/ \E z \in Zones, k \in Renamed(c) :
                  Save(k, audit.read[c], [audit.read[c] EXCEPT !.zone = z])
    BY <1>4 DEF ResolveContract, Covering
  <2>2. c \in Contracts /\ audit.read[c] \in ContractDoc
    BY <1>2, <1>4, DocKind DEF AuditType, ResolveContract
  <2>3. Renamed(c) \subseteq Contracts
    BY <2>2 DEF Renamed
  <2>4. ASSUME NEW z \in Zones, NEW k \in Renamed(c),
               Save(k, audit.read[c], [audit.read[c] EXCEPT !.zone = z])
        PROVE  Documents(db')
    <3>. DEFINE read == audit.read[c]
                new == [read EXCEPT !.zone = z]
    <3>1. read \in ContractDoc /\ new \in ContractDoc
      BY <2>2 DEF ContractDoc
    <3>2. k \in Contracts /\ k \in Ids \ Centrales
      BY <2>3, InfraAssumption DEF Ids
    <3>3. Save(k, read, new)
      BY <2>4
    <3>. HIDE DEF read, new
    <3>. QED
      BY <1>2, <3>1, <3>2, <3>3, DocKind, SaveType
  <2>. QED
    BY <1>1, <1>2, <2>1, <2>4, LookedAt
<1>5. CASE LoadNros
  BY <1>1, <1>2, <1>5, LoadType DEF LoadNros
<1>6. CASE ResolveNroRef
  <2>1. PICK n \in audit.left :
          /\ audit' = [audit EXCEPT !.left = @ \ {n}]
          /\ \/ UNCHANGED db
             \/ Save(n, audit.read[n], [audit.read[n] EXCEPT !.centrale = NoCentrale])
    BY <1>6 DEF ResolveNroRef
  <2>2. n \in Nros /\ audit.read[n] \in NroDoc
    BY <1>2, <1>6, DocKind DEF AuditType, ResolveNroRef
  <2>3. ASSUME Save(n, audit.read[n], [audit.read[n] EXCEPT !.centrale = NoCentrale])
        PROVE  Documents(db')
    <3>. DEFINE read == audit.read[n]
                new == [read EXCEPT !.centrale = NoCentrale]
    <3>1. read \in NroDoc /\ new \in NroDoc
      BY <2>2 DEF NroDoc, CentraleRef, NoCentrale
    <3>2. n \in Ids \ Centrales
      BY <2>2, InfraAssumption DEF Ids
    <3>3. Save(n, read, new)
      BY <2>3
    <3>. HIDE DEF read, new
    <3>. QED
      BY <1>2, <2>2, <3>1, <3>2, <3>3, DocKind, SaveType
  <2>. QED
    BY <1>1, <1>2, <2>1, <2>3, LookedAt
<1>7. CASE EndAudit
  BY <1>1, <1>2, <1>7 DEF EndAudit, AuditType, AuditOff
<1>. QED
  BY <1>3, <1>4, <1>5, <1>6, <1>7 DEF AuditStep

LEMMA TypeNext == TypeInv /\ [Next]_vars => TypeInv'
<1>. SUFFICES ASSUME TypeInv, [Next]_vars
              PROVE  TypeInv'
  OBVIOUS
<1>1. CASE ImportNext /\ UNCHANGED adminVars
  <2>1. Documents(db') /\ SessionType' /\ ImporterType' /\ SessionsFit'
    BY <1>1, ImportTypeNext, SessionsFitNext
  <2>. QED
    BY <1>1, <2>1 DEF adminVars, TypeInv, ClerkType, AuditType
<1>2. ASSUME NEW p \in Clerks, Receive(p)
      PROVE  TypeInv'
  <2>1. ClerkType' /\ UNCHANGED <<db, txn, imp, wrote, faults, audit>>
    BY <1>2, ReceiveType DEF Receive
  <2>2. begun' \in 0..MaxBegun
    BY <1>2, ImportAssumption DEF Receive, TypeInv, ImporterType
  <2>3. ImporterType'
    BY <2>1, <2>2 DEF TypeInv, ImporterType, Running
  <2>. QED
    BY <2>1, <2>3 DEF TypeInv, SessionType, SessionsFit, AuditType
<1>3. ASSUME NEW p \in Clerks, ClerkStep(p)
      PROVE  TypeInv'
  BY <1>3, ClerkStepType DEF TypeInv, SessionType, SessionsFit, ImporterType, Running, AuditType
<1>4. CASE StartAudit \/ AuditStep
  BY <1>4, AuditStepType DEF TypeInv, SessionType, SessionsFit, ImporterType, Running, ClerkType
<1>5. CASE UNCHANGED vars
  BY <1>5 DEF vars, impVars, adminVars, TypeInv, SessionType, SessionsFit, ImporterType, Running,
              ClerkType, AuditType
<1>. QED
  BY <1>1, <1>2, <1>3, <1>4, <1>5 DEF Next

LEMMA AlwaysTyped == Spec => []TypeInv
BY TypeInit, TypeNext, PTL DEF Spec

(* Type correctness: every document stays one of its collection, through    *)
(* imports in and out of sessions, requests that save what they read long   *)
(* ago, and audits; in particular a live centrale keeps a zone, which       *)
(* DELETE /centrales tells its managers of.                                 *)
THEOREM NetworkTypeCorrect == Spec => []TypeOK
BY AlwaysTyped, TypeInvEnough, PTL

-----------------------------------------------------------------------------
(* Sessions.                                                               *)

\* Until an import commits, nothing it did is to be seen.
TracelessInv == \A i \in Importers : imp[i].at # "idle" => ~wrote[i]

\* What a session has not written is as it was; what it has written nobody else has
\* changed or may change.
SessionInv ==
  \A i \in Importers : txn[i].open =>
    /\ \A k \in Ids \ txn[i].dirty : txn[i].view[k] = txn[i].base[k]
    /\ \A k \in txn[i].dirty : db[k] = txn[i].base[k]
    /\ \A j \in Importers \ {i} : txn[j].open => txn[i].dirty \cap txn[j].dirty = {}

\* In the session's view, the counters recomputed so far are right.
CountInv ==
  \A i \in Importers : txn[i].open /\ imp[i].at = "recount" =>
    RightCounts(txn[i].view, imp[i].zone, imp[i].left)

LEMMA TracelessNext ==
  ASSUME TypeInv, Transactional, TracelessInv, [Next]_vars
  PROVE  TracelessInv'
<1>1. ASSUME NEW i \in Importers, StartImport(i) \/ ImportStep(i) \/ FailImport(i)
      PROVE  TracelessInv'
  <2>0. /\ imp \in [Importers -> ImportRec] /\ imp[i] \in ImportRec
        /\ wrote \in [Importers -> BOOLEAN]
        /\ imp[i].at \in {"sync", "recount"} => txn[i].open
        /\ imp[i].at # "idle" => ~wrote[i]
    BY DEF TypeInv, ImporterType, SessionsFit, TracelessInv
  <2>1. imp'[i].at # "idle" => ~wrote'[i]
    <3>1. CASE StartImport(i)
      BY <2>0, <3>1 DEF StartImport
    <3>2. CASE ValidateHierarchy(i) \/ BeginSync(i) \/ LoadZone(i)
      BY <2>0, <3>2 DEF ValidateHierarchy, BeginSync, LoadZone
    <3>3. CASE SyncFeature(i) \/ Recount(i)
      <4>1. imp[i].at \in {"sync", "recount"} /\ \E new : Store(i, new)
        BY <3>3 DEF SyncFeature, Recount
      <4>. QED
        BY <2>0, <4>1, StoreEffect
    <3>4. CASE CommitImport(i)
      BY <2>0, <3>4 DEF CommitImport, IdleImport
    <3>5. CASE RefuseWrite(i) \/ FailImport(i)
      BY <2>0, <3>5 DEF RefuseWrite, FailImport, Abort
    <3>. QED
      BY <1>1, <3>1, <3>2, <3>3, <3>4, <3>5 DEF ImportStep
  <2>. QED
    BY <1>1, <2>1, OthersApart DEF TracelessInv
<1>2. CASE UNCHANGED <<imp, wrote>>
  BY <1>2 DEF TracelessInv
<1>3. ASSUME NEW p \in Clerks, ClerkStep(p)
      PROVE  TracelessInv'
  BY <1>2, <1>3, ClerkStepType
<1>. QED
  BY <1>1, <1>2, <1>3, AuditStepType DEF Next, ImportNext, Receive, vars, impVars

(* An import that failed has left no trace, however far it had come and      *)
(* whoever else was writing: where the server has sessions.                  *)
THEOREM NoTrace == ASSUME Transactional PROVE Spec => []AllOrNothing
<1>1. Init => TracelessInv
  BY DEF Init, ImportInit, TracelessInv
<1>2. TypeInv /\ TracelessInv /\ [Next]_vars => TracelessInv'
  BY TracelessNext
<1>3. TracelessInv => AllOrNothing
  BY DEF TracelessInv, AllOrNothing
<1>. QED
  BY <1>1, <1>2, <1>3, AlwaysTyped, PTL DEF Spec

-----------------------------------------------------------------------------
(* Isolation.                                                              *)

\* Requests and audits wait for the documents that a session holds.
LEMMA WritesUnheld ==
  ASSUME TypeInv, (\E p \in Clerks : ClerkStep(p)) \/ StartAudit \/ AuditStep
  PROVE  txn' = txn /\ \A k \in Ids : db'[k] = db[k] \/ ~Held(k, Importers)
<1>1. DOMAIN db = Ids
  BY DEF TypeInv, Documents
<1>2. \A j, doc : Put(j, doc) => \A k \in Ids : db'[k] = db[k] \/ ~Held(k, Importers)
  BY <1>1 DEF Put
<1>3. \A j, read, new : Save(j, read, new) => \A k \in Ids : db'[k] = db[k] \/ ~Held(k, Importers)
  BY <1>2 DEF Save
<1>4. ASSUME NEW p \in Clerks, ClerkStep(p)
      PROVE  txn' = txn /\ \A k \in Ids : db'[k] = db[k] \/ ~Held(k, Importers)
  <2>1. txn' = txn
    BY <1>4, ClerkStepType
  <2>2. \/ db' = db \/ (\E j, doc : Put(j, doc)) \/ (\E j, read, new : Save(j, read, new))
    BY <1>4 DEF ClerkStep, TurnedDown, UpdateZone, RemoveZone, CreateCentrale, UpdateCentrale,
                DeleteCentrale, CreateNro, UpdateNroDoc, RemoveNro, CreateFdt, UpdateFdt, RemoveFdt,
                NewFdtEvent, CreateFiber, UpdateFiber, DeleteFiber
  <2>. QED
    BY <1>2, <1>3, <2>1, <2>2
<1>5. CASE StartAudit \/ AuditStep
  <2>1. txn' = txn
    BY <1>5, AuditStepType
  <2>2. db' = db \/ \E j, read, new : Save(j, read, new)
    BY <1>5 DEF StartAudit, AuditStep, ResolveContract, LoadNros, ResolveNroRef, EndAudit
  <2>. QED
    BY <1>3, <2>1, <2>2
<1>. QED
  BY <1>4, <1>5

\* What a session writes, nobody else has written, and nobody else holds.
LEMMA StoreInSession ==
  ASSUME TypeInv, SessionInv, NEW i \in Importers, txn[i].open, NEW new, Store(i, new),
         \A j \in Importers \ {i} : txn'[j] = txn[j]
  PROVE  SessionInv'
<1>. DEFINE changed == {k \in Ids : new[k] # txn[i].view[k]}
<1>1. /\ db' = db /\ txn'[i].base = txn[i].base /\ txn'[i].view = new
      /\ txn'[i].dirty = txn[i].dirty \cup changed
  BY StoreEffect
<1>2. \A k \in changed : /\ db[k] = txn[i].base[k]
                         /\ \A j \in Importers \ {i} : txn[j].open => k \notin txn[j].dirty
  <2>1. ~Refused(i, new)
    BY StoreEffect
  <2>2. ~WriteConflict(i, changed)
    BY <2>1 DEF Refused, View
  <2>. QED
    BY <2>2 DEF WriteConflict, Held
<1>3. \A k \in Ids \ txn'[i].dirty : new[k] = txn[i].view[k]
  BY <1>1
<1>. HIDE DEF changed
<1>. QED
  BY <1>1, <1>2, <1>3 DEF SessionInv

LEMMA SessionNext ==
  ASSUME TypeInv, SessionInv, [Next]_vars
  PROVE  SessionInv'
<1>1. CASE ~Transactional
  BY <1>1, TypeNext DEF TypeInv, SessionsFit, SessionInv
<1>2. ASSUME Transactional, NEW i \in Importers, StartImport(i) \/ ImportStep(i) \/ FailImport(i)
      PROVE  SessionInv'
  <2>0. /\ DOMAIN txn = Importers /\ \A j \in Importers : txn[j].dirty \subseteq Ids
        /\ imp[i].at \in {"sync", "recount"} => txn[i].open
    BY <1>2 DEF TypeInv, SessionType, SessionsFit
  <2>1. CASE UNCHANGED <<db, txn>>
    BY <2>1 DEF SessionInv
  <2>2. CASE BeginSync(i)
    <3>1. /\ db' = db /\ txn'[i].open /\ txn'[i].dirty = {}
          /\ txn'[i].view = db /\ txn'[i].base = db
      BY <1>2, <2>0, <2>2 DEF BeginSync, StartSession
    <3>. QED
      BY <1>2, <3>1, OthersApart DEF SessionInv
  <2>3. CASE SyncFeature(i) \/ Recount(i)
    <3>1. txn[i].open /\ \E new : Store(i, new)
      BY <2>0, <2>3 DEF SyncFeature, Recount
    <3>. QED
      BY <1>2, <3>1, OthersApart, StoreInSession
  <2>4. CASE CommitImport(i)
    <3>1. db' = Merge(db, txn[i].dirty, txn[i].view) /\ ~txn'[i].open /\ txn[i].open
      BY <1>2, <2>0, <2>4 DEF CommitImport, CommitSession, NoSession
    <3>2. \A k \in Ids \ txn[i].dirty : db'[k] = db[k]
      BY <3>1 DEF Merge
    <3>. QED
      BY <1>2, <2>0, <3>1, <3>2, OthersApart DEF SessionInv
  <2>5. CASE Abort(i)
    <3>1. db' = db /\ ~txn'[i].open
      BY <2>0, <2>5 DEF Abort, NoSession
    <3>. QED
      BY <1>2, <3>1, OthersApart DEF SessionInv
  <2>. QED
    BY <1>2, <2>1, <2>2, <2>3, <2>4, <2>5
    DEF ImportStep, StartImport, ValidateHierarchy, LoadZone, RefuseWrite, FailImport
<1>3. CASE UNCHANGED <<db, txn>>
  BY <1>3 DEF SessionInv
<1>4. ASSUME txn' = txn, \A k \in Ids : db'[k] = db[k] \/ ~Held(k, Importers)
      PROVE  SessionInv'
  BY <1>4 DEF SessionInv, Held, TypeInv, SessionType
<1>. QED
  BY <1>1, <1>2, <1>3, <1>4, WritesUnheld DEF Next, ImportNext, Receive, vars

LEMMA AlwaysIsolated == Spec => []SessionInv
<1>1. Init => SessionInv
  BY DEF Init, ImportInit, SessionInv, NoSession
<1>2. TypeInv /\ SessionInv /\ [Next]_vars => SessionInv'
  BY SessionNext
<1>. QED
  BY <1>1, <1>2, AlwaysTyped, PTL DEF Spec

-----------------------------------------------------------------------------
(* Counters.                                                               *)

LEMMA CountNext ==
  ASSUME TypeInv, CountInv, [Next]_vars
  PROVE  CountInv'
<1>1. ASSUME NEW i \in Importers, StartImport(i) \/ ImportStep(i) \/ FailImport(i)
      PROVE  CountInv'
  <2>0. /\ DOMAIN txn = Importers /\ imp \in [Importers -> ImportRec] /\ imp[i] \in ImportRec
        /\ txn[i].open => Documents(txn[i].view)
    BY DEF TypeInv, SessionType, ImporterType
  <2>1. txn'[i].open /\ imp'[i].at = "recount" =>
          RightCounts(txn'[i].view, imp'[i].zone, imp'[i].left)
    <3>1. CASE LoadZone(i)
      <4>1. /\ txn' = txn /\ imp'[i].zone = imp[i].zone
            /\ imp'[i].left = ZoneDocs(View(i), imp[i].zone)
        BY <2>0, <3>1 DEF LoadZone, ImportRec
      <4>. QED
        BY <4>1 DEF ZoneDocs, View, RightCounts
    <3>2. CASE Recount(i)
      <4>1. PICK k \in NextToCount(imp[i].left) :
              Store(i, Recounted(View(i), k)) /\ imp' = [imp EXCEPT ![i].left = @ \ {k}]
        BY <3>2 DEF Recount
      <4>2. k \in Fdts \cup Nros \cup Centrales
        BY <2>0 DEF ImportRec, NextToCount
      <4>3. /\ imp[i].at = "recount" /\ imp'[i].zone = imp[i].zone
            /\ imp'[i].left = imp[i].left \ {k}
        BY <2>0, <3>2, <4>1 DEF Recount, ImportRec
      <4>4. CASE txn[i].open
        <5>. DEFINE d == txn[i].view
                    e == Recounted(d, k)
        <5>1. txn'[i].view = e
          BY <4>1, <4>4, StoreEffect DEF View
        <5>2. RightCounts(d, imp[i].zone, imp[i].left)
          BY <4>3, <4>4 DEF CountInv
        <5>3. Documents(d) /\ CountsOne(d, e, k)
          BY <2>0, <4>2, <4>4, RecountedStep
        <5>. HIDE DEF d, e
        <5>4. RightCounts(e, imp[i].zone, imp[i].left \ {k})
          BY <4>2, <5>2, <5>3, CountsKept
        <5>. QED
          BY <4>3, <5>1, <5>4
      <4>5. CASE ~txn[i].open
        BY <4>1, <4>5, StoreEffect
      <4>. QED
        BY <4>4, <4>5
    <3>3. CASE StartImport(i) \/ ValidateHierarchy(i) \/ BeginSync(i) \/ SyncFeature(i)
               \/ CommitImport(i) \/ RefuseWrite(i) \/ FailImport(i)
      <4>1. imp'[i].at # "recount"
        BY <2>0, <3>3 DEF StartImport, ValidateHierarchy, BeginSync, SyncFeature, CommitImport,
                          RefuseWrite, FailImport, Abort, Move, IdleImport, ImportRec
      <4>. QED
        BY <4>1
    <3>. QED
      BY <1>1, <3>1, <3>2, <3>3 DEF ImportStep
  <2>. QED
    BY <1>1, <2>1, OthersApart DEF CountInv
<1>2. CASE UNCHANGED <<txn, imp>>
  BY <1>2 DEF CountInv
<1>. QED
  BY <1>1, <1>2, ClerkStepType, AuditStepType DEF Next, ImportNext, Receive, vars, impVars

LEMMA AlwaysCounted == Spec => []CountInv
<1>1. Init => CountInv
  BY DEF Init, ImportInit, CountInv, NoSession
<1>2. TypeInv /\ CountInv /\ [Next]_vars => CountInv'
  BY CountNext
<1>. QED
  BY <1>1, <1>2, AlwaysTyped, PTL DEF Spec

\* An import commits in one way.
LEMMA OnlyCommit ==
  ASSUME TypeInv, [Next]_vars, NEW i \in Importers, Commits(i)
  PROVE  CommitImport(i)
<1>1. imp \in [Importers -> ImportRec] /\ imp[i].at = "recount" /\ imp'[i].at = "idle"
  BY DEF TypeInv, ImporterType, Commits
<1>2. ASSUME NEW j \in Importers, StartImport(j) \/ ImportStep(j) \/ FailImport(j)
      PROVE  CommitImport(i)
  <2>1. j = i
    BY <1>1, <1>2, OthersApart
  <2>2. CASE StartImport(i) \/ ValidateHierarchy(i) \/ BeginSync(i) \/ SyncFeature(i) \/ LoadZone(i)
    BY <1>1, <2>2 DEF StartImport, Free, ValidateHierarchy, BeginSync, SyncFeature, LoadZone
  <2>3. CASE Recount(i) \/ RefuseWrite(i) \/ FailImport(i)
    BY <1>1, <2>3 DEF Recount, RefuseWrite, FailImport, Abort, IdleImport, ImportRec
  <2>. QED
    BY <1>2, <2>1, <2>2, <2>3 DEF ImportStep
<1>3. imp' # imp
  BY <1>1
<1>. QED
  BY <1>2, <1>3, ClerkStepType, AuditStepType DEF Next, ImportNext, Receive, vars, impVars

\* Once committed, the network is as the session saw it, but for what others changed.
LEMMA CommitEffect ==
  ASSUME TypeInv, SessionInv, NEW i \in Importers, CommitImport(i), txn[i].open
  PROVE  /\ \A k \in Ids \ Foreign(i) : db'[k] = txn[i].view[k]
         /\ \A k \in Foreign(i) : db'[k] = db[k] /\ txn[i].view[k] = txn[i].base[k]
         /\ \A k \in Ids : db[k] # txn[i].base[k] => k \in Foreign(i)
<1>1. db' = Merge(db, txn[i].dirty, txn[i].view)
  BY DEF CommitImport, CommitSession, TypeInv, SessionsFit
<1>2. \A k \in Ids : db'[k] = IF k \in txn[i].dirty THEN txn[i].view[k] ELSE db[k]
  BY <1>1 DEF Merge
<1>. QED
  BY <1>2 DEF SessionInv, Foreign

LEMMA CommitRecounts ==
  ASSUME TypeInv, SessionInv, CountInv, NEW i \in Importers, CommitImport(i), txn[i].open
  PROVE  /\ \A f \in ZoneFdts(db', imp[i].zone) : f \in Foreign(i) \/ Disturbed(i, f) \/
              (db'[f].clients = Cardinality(ActiveOn(db', f)) /\ db'[f].ports = db'[f].clients)
         /\ \A n \in ZoneNros(db', imp[i].zone) : n \in Foreign(i) \/ Disturbed(i, n) \/
              db'[n].used = GbUnder(db', n)
<1>. DEFINE v == txn[i].view
            e == db'
<1>1. RightCounts(v, imp[i].zone, {})
  BY DEF CountInv, CommitImport
<1>2. /\ \A k \in Ids \ Foreign(i) : e[k] = v[k]
      /\ \A k \in Foreign(i) : e[k] = db[k] /\ v[k] = txn[i].base[k]
  BY CommitEffect
<1>3. Contracts \subseteq Ids /\ Fdts \subseteq Ids /\ Nros \subseteq Ids
  BY DEF Ids
\* A contract counts for k before iff it does after, unless others touched it.
<1>4. ASSUME NEW k, ~Disturbed(i, k), NEW c \in Contracts,
             \/ e[c].fdt = k \/ v[c].fdt = k \/ e[c].nro = k \/ v[c].nro = k
      PROVE  e[c] = v[c]
  <2>1. c \notin Foreign(i)
    BY <1>2, <1>4 DEF Disturbed
  <2>. QED
    BY <1>2, <1>3, <2>1
<1>. HIDE DEF v, e
<1>5. ASSUME NEW f \in ZoneFdts(e, imp[i].zone), f \notin Foreign(i), ~Disturbed(i, f)
      PROVE  e[f].clients = Cardinality(ActiveOn(e, f)) /\ e[f].ports = e[f].clients
  <2>1. f \in Fdts /\ e[f] = v[f]
    BY <1>2, <1>3, <1>5 DEF ZoneFdts
  <2>2. f \in ZoneFdts(v, imp[i].zone)
    BY <2>1 DEF ZoneFdts
  <2>3. ActiveOn(e, f) = ActiveOn(v, f)
    BY <1>4, <1>5 DEF ActiveOn
  <2>. QED
    BY <1>1, <2>1, <2>2, <2>3 DEF RightCounts
<1>6. ASSUME NEW n \in ZoneNros(e, imp[i].zone), n \notin Foreign(i), ~Disturbed(i, n)
      PROVE  e[n].used = GbUnder(e, n)
  <2>1. n \in Nros /\ e[n] = v[n]
    BY <1>2, <1>3, <1>6 DEF ZoneNros
  <2>2. n \in ZoneNros(v, imp[i].zone)
    BY <2>1 DEF ZoneNros
  <2>3. ActiveUnder(e, n) = ActiveUnder(v, n)
    BY <1>4, <1>6 DEF ActiveUnder
  <2>4. \A c \in ActiveUnder(v, n) : e[c].gb = v[c].gb
    BY <1>4, <1>6 DEF ActiveUnder
  <2>5. GbUnder(e, n) = GbUnder(v, n)
    BY <2>3, <2>4, SumGbSame DEF GbUnder
  <2>. QED
    BY <1>1, <2>1, <2>2, <2>5 DEF RightCounts
<1>. QED
  BY <1>5, <1>6 DEF e

(* An import leaves the counters of its zone right: each FDT counts the      *)
(* contracts on it, each NRO the gigabytes under it, as they are once the    *)
(* import has committed, unless others changed the FDT, the NRO or one of    *)
(* their contracts since the import's snapshot.                              *)
THEOREM CountersRight == Spec => ImportRecounts
<1>1. TypeInv /\ SessionInv /\ CountInv /\ [Next]_vars =>
        [\A i \in Importers : Commits(i) /\ txn[i].open =>
           /\ \A f \in ZoneFdts(db', imp[i].zone) : f \in Foreign(i) \/ Disturbed(i, f) \/
                (db'[f].clients = Cardinality(ActiveOn(db', f)) /\ db'[f].ports = db'[f].clients)
           /\ \A n \in ZoneNros(db', imp[i].zone) : n \in Foreign(i) \/ Disturbed(i, n) \/
                db'[n].used = GbUnder(db', n)]_<<db, txn, imp>>
  BY OnlyCommit, CommitRecounts
<1>. QED
  BY <1>1, AlwaysTyped, AlwaysIsolated, AlwaysCounted, PTL DEF Spec, ImportRecounts

\* What others wrote since an import began outlives the import.
OthersOutlive ==
  [][\A i \in Importers : Commits(i) /\ txn[i].open =>
       \A k \in Ids : db[k] # txn[i].base[k] => db'[k] = db[k]]_<<db, txn, imp>>

(* No lost update: a commit replaces no document that a request, an audit   *)
(* or another import has changed since the import's snapshot, although it    *)
(* writes the documents whole and compares nothing itself.                   *)
THEOREM NothingOverwritten == Spec => OthersOutlive
<1>1. TypeInv /\ SessionInv /\ [Next]_vars =>
        [\A i \in Importers : Commits(i) /\ txn[i].open =>
           \A k \in Ids : db[k] # txn[i].base[k] => db'[k] = db[k]]_<<db, txn, imp>>
  BY OnlyCommit, CommitEffect
<1>. QED
  BY <1>1, AlwaysTyped, AlwaysIsolated, PTL DEF Spec, OthersOutlive

=============================================================================
