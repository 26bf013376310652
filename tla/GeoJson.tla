------------------------------- MODULE GeoJson -------------------------------
(***************************************************************************)
(* How ZonesService.importZoneGeoJson reads a GeoJSON payload before it    *)
(* writes anything: each feature is put in one of five classes by its      *)
(* geometry, its kind, the prefix of its externalId and the properties it  *)
(* has, then checked on its own and against the others.                    *)
(*                                                                         *)
(* A feature is a record: geom, kind ("" when absent), prefix of its id,   *)
(* `has` (the telling properties present), `inside` (its coordinates are   *)
(* numbers within Tunisia), and the values the import stores.              *)
(***************************************************************************)
EXTENDS Sequences, Integers

CONSTANT NoId   \* a missing externalId, parent, zone name or phone number

IsZone(f) == f.geom = "Polygon" \/ f.kind = "zone"
IsCentrale(f) ==
  \/ f.kind = "centrale" \/ f.prefix = "CO-"
  \/ "capaciteTotal" \in f.has /\ f.has \cap {"nroId", "fdtId", "phone"} = {}
IsNro(f) ==
  \/ f.kind = "nro" \/ f.prefix = "NRO-"
  \/ "maxCapacity" \in f.has /\ f.has \cap {"nbPortsTotal", "phone"} = {}
IsFdt(f) ==
  \/ f.kind = "fdt" \/ f.prefix = "FDT-"
  \/ f.has \cap {"nbPortsTotal", "statutFdt"} # {}
  \/ "nroId" \in f.has /\ f.has \cap {"phone", "numeroCIN", "bandwidth"} = {}
IsContract(f) ==
  \/ f.kind = "contract" \/ f.prefix \in {"EXT-", "CONT-"}
  \/ f.has \cap {"phone", "numeroCIN", "bandwidth", "typeClient"} # {}

Class(f) ==
  CASE IsZone(f) -> "zone" [] IsCentrale(f) -> "centrale" [] IsNro(f) -> "nro"
    [] IsFdt(f) -> "fdt" [] IsContract(f) -> "contract" [] OTHER -> "unknown"

\* The checks a feature passes or the whole payload is rejected.
Valid(f, z) ==
  /\ f.inside
  /\ CASE Class(f) = "zone" -> f.geom = "Polygon" /\ f.name \in {NoId, z}
       [] Class(f) \in {"centrale", "nro"} -> f.geom = "Point" /\ f.id # NoId
       [] Class(f) = "fdt" -> f.geom = "Point" /\ f.id # NoId /\ f.nro # NoId
       [] Class(f) = "contract" ->
            f.geom = "Point" /\ f.id # NoId /\ f.phone # NoId /\ f.fdt # NoId
       [] OTHER -> FALSE

NoDuplicates(s) ==
  \A i, j \in DOMAIN s :
    i < j /\ Class(s[i]) = Class(s[j]) /\ Class(s[i]) # "zone" =>
      /\ s[i].id # s[j].id
      /\ Class(s[i]) = "contract" => s[i].phone # s[j].phone

Accepted(s, z) == s # << >> /\ (\A i \in DOMAIN s : Valid(s[i], z)) /\ NoDuplicates(s)

\* The features of a class, by their place in the payload.
OfClass(s, class) == {n \in DOMAIN s : Class(s[n]) = class}

\* parsed: the last polygon and all other features, to go through parents before
\* children and otherwise in the order of the payload.
Parsed(s) ==
  {n \in DOMAIN s : Class(s[n]) = "zone" => \A m \in OfClass(s, "zone") : m <= n}

Rank(f) == [zone |-> 1, centrale |-> 2, nro |-> 3, fdt |-> 4, contract |-> 5][Class(f)]
Before(s, n, m) == Rank(s[n]) < Rank(s[m]) \/ (Rank(s[n]) = Rank(s[m]) /\ n <= m)
Foremost(s, places) == {n \in places : \A m \in places : Before(s, n, m)}

IdsOf(s, class) == {s[n].id : n \in OfClass(s, class)}

\* validateHierarchy: every parent is in the payload or among the zone's own documents.
Hierarchy(s, centrales, nros, fdts) ==
  LET knownNros == IdsOf(s, "nro") \cup nros IN
  /\ \A n \in OfClass(s, "nro") :
       s[n].centrale \in {NoId} \cup IdsOf(s, "centrale") \cup centrales
  /\ \A n \in OfClass(s, "fdt") : s[n].nro \in knownNros
  /\ \A n \in OfClass(s, "contract") :
       s[n].fdt \in IdsOf(s, "fdt") \cup fdts /\ s[n].nro \in {NoId} \cup knownNros
=============================================================================
