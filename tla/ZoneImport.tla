------------------------------ MODULE ZoneImport ------------------------------
(***************************************************************************)
(* ZonesService.importZoneGeoJson: an administrator, or the manager of the *)
(* zone, sends a GeoJSON payload; it is classified and validated in        *)
(* memory, checked against the zone's documents, and then synchronised one *)
(* document at a time, in a manual transaction where the server has        *)
(* sessions; at the end the counters of everything in the zone are         *)
(* recomputed from its contracts.                                          *)
(*                                                                         *)
(* The find and the save of one document are one step.  In a session that  *)
(* loses nothing: the snapshot hides other writers from the find, and the  *)
(* write conflict is found by the save.  What the code keeps in its maps   *)
(* (persistedNros, ...) is looked up again in the session's view.          *)
(***************************************************************************)
EXTENDS InfraDocs, Gigabytes, SequencesExt

CONSTANTS
  Payloads,    \* pairs of a target zone and its features
  Users,       \* those who import: [role, zone]
  MaxBegun,    \* bound on the imports and requests of a behaviour
  MaxFaults

VARIABLES
  imp,        \* per importer: where it is, and what is left to do
  wrote,      \* history: has the import in progress, or the last one, changed db?
  begun,      \* imports and requests so far
  faults

INSTANCE GeoJson WITH NoId <- None

\* What of a feature is kept; the externalId of a centrale, NRO, FDT or contract is one.
\* A status that the schema does not know fails the write like a call that fails.
Feature == [geom : STRING, kind : STRING, prefix : STRING, has : SUBSET STRING,
            inside : BOOLEAN, name : Zones \cup {None}, id : Ids \cup {None},
            centrale : Centrales \cup {None}, nro : Nros \cup {None}, fdt : Fdts \cup {None},
            gb : Nat, phone : Phones \cup {None}, status : NroStatus \cup ContractStatus,
            covers : SUBSET Places]
OwnId(x) ==
  /\ Class(x) = "centrale" => x.id \in Centrales \cup {None}
  /\ Class(x) = "nro" => x.id \in Nros \cup {None} /\ x.status \in NroStatus
  /\ Class(x) = "fdt" => x.id \in Fdts \cup {None}
  /\ Class(x) = "contract" => x.id \in Contracts \cup {None} /\ x.status \in ContractStatus

ASSUME ImportAssumption ==
  /\ \A p \in Payloads : /\ p[1] \in Zones /\ p[2] \in Seq(Feature)
                         /\ \A n \in DOMAIN p[2] : OwnId(p[2][n])
  /\ MaxBegun \in Nat /\ MaxFaults \in Nat

impVars == <<imp, wrote, begun, faults>>

IdleImport == [at |-> "idle", zone |-> None, features |-> << >>, todo |-> {}, left |-> {}]

ImportAt == {"idle", "failed", "validate", "begin", "sync", "recount", "commit"}
ImportType ==
  /\ \A i \in Importers :
       /\ imp[i].at \in ImportAt
       /\ imp[i].zone \in Zones \cup {None}
       /\ imp[i].left \subseteq Ids
       /\ txn[i].dirty \subseteq Ids
       /\ txn[i].open => Documents(txn[i].view)
  /\ wrote \in [Importers -> BOOLEAN]
  /\ begun \in 0..MaxBegun /\ faults \in 0..MaxFaults

ImportInit ==
  /\ db = Stored
  /\ txn = [i \in Importers |-> NoSession]
  /\ imp = [i \in Importers |-> IdleImport]
  /\ wrote = [i \in Importers |-> FALSE]
  /\ begun = 0 /\ faults = 0

-----------------------------------------------------------------------------
(* One feature x of the payload for zone z, applied to the documents d.       *)

SyncZone(d, z, x) == [d EXCEPT ![z].covers = x.covers]

\* A centrale known by its code is taken over, whichever zone it was in.
SyncCentrale(d, z, x) ==
  [d EXCEPT ![x.id] = [live |-> TRUE, oid |-> IF @.live THEN @.oid ELSE @.oid + 1,
                       zone |-> z, cap |-> x.gb]]

\* The centrale the feature names; else the first of the payload, else one of the zone.
ParentCentrale(d, z, x, s) ==
  LET own == ZoneCentrales(d, z)
      sent == OfClass(s, "centrale")
      first == {s[n].id : n \in {m \in sent : \A l \in sent : m <= l}}
  IN  CASE x.centrale \in own -> RefTo(d, x.centrale)
        [] x.centrale = None /\ first # {} -> RefTo(d, CHOOSE k \in first : TRUE)
        [] x.centrale = None /\ first = {} /\ own # {} -> RefTo(d, CHOOSE k \in own : TRUE)
        [] OTHER -> NoCentrale

\* Faulty variant: the capacity is added to the one stored.
AddNro(d, z, x, s) ==
  LET parent == ParentCentrale(d, z, x, s)
      old == IF d[x.id].live THEN d[x.id] ELSE NoNro
  IN  [d EXCEPT ![x.id] = [old EXCEPT !.live = TRUE, !.region = IdOf(z), !.centrale = parent,
                           !.max = @ + x.gb, !.gb = @ + x.gb]]

SyncNro(d, z, x, s) ==
  LET parent == ParentCentrale(d, z, x, s)
      old == IF d[x.id].live THEN d[x.id] ELSE NoNro
  IN  [d EXCEPT ![x.id] = [old EXCEPT !.live = TRUE, !.region = IdOf(z),
                           !.centrale = IF parent = NoCentrale THEN @ ELSE parent,
                           !.max = x.gb, !.gb = x.gb, !.status = x.status, !.sat = "NORMAL"]]

SyncFdt(d, z, x) ==
  LET old == IF d[x.id].live THEN d[x.id] ELSE NoFdt
  IN  [d EXCEPT ![x.id] = [old EXCEPT !.live = TRUE, !.region = IdOf(z), !.nro = x.nro,
                           !.total = x.gb, !.statut = "DISPONIBLE"]]

\* $or: the contract of that externalId, else the one of that phone number, which the
\* feature renames; if both exist the unique indexes turn either update down.
SyncContract(d, z, x) ==
  LET new == [live |-> TRUE, status |-> x.status, zone |-> z, fdt |-> x.fdt,
              nro |-> IF x.nro # None THEN x.nro
                      ELSE IF x.fdt \in ZoneFdts(d, z) THEN d[x.fdt].nro ELSE None,
              gb |-> x.gb, phone |-> x.phone]
      renamed == {c \in Contracts : ~d[x.id].live /\ d[c].live /\ d[c].phone = x.phone}
  IN  [k \in Ids |-> IF k = x.id THEN new ELSE IF k \in renamed THEN NoContract ELSE d[k]]

\* executeSynchronization, its loop body for one feature.
Synced(d, z, x, s) ==
  CASE Class(x) = "zone" -> SyncZone(d, z, x)
    [] Class(x) = "centrale" -> SyncCentrale(d, z, x)
    [] Class(x) = "nro" -> SyncNro(d, z, x, s)
    [] Class(x) = "fdt" -> SyncFdt(d, z, x)
    [] OTHER -> SyncContract(d, z, x)

-----------------------------------------------------------------------------
(* recalculateZoneMetrics, one document at a time.                            *)

\* Faulty variant: contracts of every status are counted.
CountAll(d, f) ==
  LET n == Cardinality({c \in Contracts : d[c].live /\ d[c].fdt = f})
  IN  [d EXCEPT ![f].clients = n, ![f].ports = n]

RecountFdt(d, f) ==
  LET n == Cardinality(ActiveOn(d, f))
  IN  [d EXCEPT ![f].clients = n, ![f].ports = n,
         ![f].statut = IF n >= d[f].total THEN "PLEIN"
                       ELSE IF 10 * n >= 8 * d[f].total THEN "CHARGE" ELSE "DISPONIBLE"]

SumGb(d, S) == Units([c \in S |-> d[c].gb], S)

\* The load becomes a number of contracts; the capacity in use is in gigabytes.
RecountNro(d, n) ==
  LET used == SumGb(d, ActiveUnder(d, n))
      percent == IF d[n].gb > 0 THEN (100 * used) \div d[n].gb ELSE 0
  IN  [d EXCEPT ![n].fdts = Cardinality({f \in Fdts : d[f].live /\ d[f].nro = n}),
                ![n].load = Cardinality(ActiveUnder(d, n)),
                ![n].used = used,
                ![n].sat = IF percent >= 90 THEN "SATURE"
                           ELSE IF percent >= 75 THEN "CHARGE" ELSE "NORMAL"]

RecountCentrale(d, k) ==
  [d EXCEPT ![k].cap = SumGb(d, {n \in Nros : d[n].live /\ d[n].centrale = RefTo(d, k)})]

Recounted(d, k) ==
  CASE k \in Fdts -> RecountFdt(d, k) [] k \in Nros -> RecountNro(d, k)
    [] OTHER -> RecountCentrale(d, k)

ZoneDocs(d, z) == ZoneFdts(d, z) \cup ZoneNros(d, z) \cup ZoneCentrales(d, z)

\* FDTs before NROs before centrales.
NextToCount(left) ==
  IF left \cap Fdts # {} THEN left \cap Fdts
  ELSE IF left \cap Nros # {} THEN left \cap Nros ELSE left

-----------------------------------------------------------------------------
Move(i, to) == imp' = [imp EXCEPT ![i].at = to]

\* Importers are numbered slots; a new import takes the first free one.
Free(i) == imp[i].at \in {"idle", "failed"}

MayImport(u, z) == u.role = "ADMIN" \/ (u.role = "RESPONSABLE_ZONE" /\ u.zone = z)

\* The controller, resolveTargetZone and validateAndParseGeoJson: a payload they reject
\* leaves nothing behind.
StartImport(i) == \E u \in Users, p \in Payloads :
  LET z == p[1] IN
  /\ Free(i) /\ (\A j \in Importers : j < i => ~Free(j)) /\ begun < MaxBegun
  /\ db[z].active /\ MayImport(u, z) /\ Accepted(p[2], z)
  /\ imp' = [imp EXCEPT ![i] = [at |-> "validate", zone |-> z, features |-> p[2],
                                todo |-> Parsed(p[2]), left |-> {}]]
  /\ wrote' = [wrote EXCEPT ![i] = FALSE]
  /\ begun' = begun + 1
  /\ UNCHANGED <<db, txn, faults>>

\* The parents are looked up before the session starts.
ValidateHierarchy(i) ==
  LET z == imp[i].zone IN
  /\ imp[i].at = "validate"
  /\ IF Hierarchy(imp[i].features, ZoneCentrales(db, z), ZoneNros(db, z), ZoneFdts(db, z))
     THEN Move(i, "begin")
     ELSE imp' = [imp EXCEPT ![i] = IdleImport]
  /\ UNCHANGED <<db, txn, wrote, begun, faults>>

BeginSync(i) ==
  /\ imp[i].at = "begin"
  /\ Move(i, "sync")
  /\ IF Transactional THEN StartSession(i) ELSE UNCHANGED txn
  /\ UNCHANGED <<db, wrote, begun, faults>>

\* Faulty variant: the counters are stored outside the session.
StoreOutside(i, new) == \E v \in {new} :
  /\ ~Refused(i, v)
  /\ IF imp[i].at = "recount" THEN db' = Merge(db, {k \in Ids : v[k] # View(i)[k]}, v) /\ UNCHANGED txn
     ELSE Write(i, v)
  /\ wrote' = [wrote EXCEPT ![i] = @ \/ db' # db]

Store(i, new) == \E v \in {new} :
  /\ ~Refused(i, v)
  /\ Write(i, v)
  /\ wrote' = [wrote EXCEPT ![i] = @ \/ db' # db]

\* The documents once the feature at n is stored.
NextSynced(i, n) == Synced(View(i), imp[i].zone, imp[i].features[n], imp[i].features)

NextFeature(i) == Foremost(imp[i].features, imp[i].todo)

SyncFeature(i) ==
  /\ imp[i].at = "sync"
  /\ \E n \in NextFeature(i) :
       /\ Store(i, NextSynced(i, n))
       /\ imp' = [imp EXCEPT ![i].todo = @ \ {n}]
  /\ UNCHANGED <<begun, faults>>

LoadZone(i) ==
  /\ imp[i].at = "sync" /\ imp[i].todo = {}
  /\ imp' = [imp EXCEPT ![i].at = "recount", ![i].left = ZoneDocs(View(i), imp[i].zone)]
  /\ UNCHANGED <<db, txn, wrote, begun, faults>>

Recount(i) ==
  /\ imp[i].at = "recount"
  /\ \E k \in NextToCount(imp[i].left) :
       /\ Store(i, Recounted(View(i), k))
       /\ imp' = [imp EXCEPT ![i].left = @ \ {k}]
  /\ UNCHANGED <<begun, faults>>

\* A commit the server has made but could not confirm would fail the import all the same;
\* the driver asks again, and that it never learns is left out.
CommitImport(i) ==
  /\ imp[i].at = "recount" /\ imp[i].left = {}
  /\ imp' = [imp EXCEPT ![i] = IdleImport]
  /\ IF Transactional
     THEN CommitSession(i) /\ wrote' = [wrote EXCEPT ![i] = @ \/ db' # db]
     ELSE UNCHANGED <<db, txn, wrote>>
  /\ UNCHANGED <<begun, faults>>

Abort(i) ==
  /\ imp' = [imp EXCEPT ![i] = [IdleImport EXCEPT !.at = "failed"]]
  /\ txn' = [txn EXCEPT ![i] = NoSession]
  /\ UNCHANGED <<db, wrote, begun>>

\* Faulty variant: a WriteConflict is waited out; only a duplicate key ends the import.
RefuseDuplicate(i) ==
  /\ imp[i].at = "sync" /\ \E n \in NextFeature(i) : PhoneTwice(NextSynced(i, n))
  /\ Abort(i) /\ UNCHANGED faults

\* A write the server turns down throws, and nothing retries the transaction.
RefuseWrite(i) ==
  /\ \/ /\ imp[i].at = "sync"
        /\ \E v \in {NextSynced(i, n) : n \in NextFeature(i)} : Refused(i, v)
     \/ /\ imp[i].at = "recount"
        /\ \E v \in {Recounted(View(i), k) : k \in NextToCount(imp[i].left)} : Refused(i, v)
  /\ Abort(i) /\ UNCHANGED faults

\* A call to the database fails.
FailImport(i) ==
  /\ imp[i].at \in {"sync", "recount"} /\ faults < MaxFaults
  /\ faults' = faults + 1
  /\ Abort(i)

ImportStep(i) ==
  \/ ValidateHierarchy(i) \/ BeginSync(i) \/ SyncFeature(i) \/ LoadZone(i)
  \/ Recount(i) \/ CommitImport(i) \/ RefuseWrite(i)

ImportNext == \E i \in Importers : StartImport(i) \/ ImportStep(i) \/ FailImport(i)

-----------------------------------------------------------------------------
(* An import that failed has left no trace: the transaction keeps its        *)
(* features and the recomputed counters together ("atomic DB updates").      *)
AllOrNothing == \A i \in Importers : imp[i].at = "failed" => ~wrote[i]

Commits(i) == imp[i].at = "recount" /\ imp'[i].at = "idle"

GbUnder(d, n) == SumGb(d, ActiveUnder(d, n))

(* What somebody else has changed since the snapshot of an import.           *)
Foreign(i) == {k \in Ids \ txn[i].dirty : db[k] # txn[i].base[k]}

(* A contract that others changed names k, or did.                           *)
Disturbed(i, k) ==
  \E c \in Foreign(i) \cap Contracts : \E doc \in {db[c], txn[i].base[c]} : k \in {doc.fdt, doc.nro}

(* An import leaves the counters of its zone right: an FDT counts the ACTIVE *)
(* contracts that name it, an NRO the gigabytes of those under it.  Others   *)
(* may write meanwhile, and only a contract on the very FDT or NRO, or the   *)
(* document itself when the import found nothing to change, slips through.   *)
ImportRecounts ==
  [][\A i \in Importers : Commits(i) /\ txn[i].open =>
       /\ \A f \in ZoneFdts(db', imp[i].zone) : f \in Foreign(i) \/ Disturbed(i, f) \/
            (db'[f].clients = Cardinality(ActiveOn(db', f)) /\ db'[f].ports = db'[f].clients)
       /\ \A n \in ZoneNros(db', imp[i].zone) : n \in Foreign(i) \/ Disturbed(i, n) \/
            db'[n].used = GbUnder(db', n)]_<<db, txn, imp>>

(* Applying the same payload once more to what an import has just committed. *)
Reimported(d, z, s) ==
  LET step(e, n) == Synced(e, z, s[n], s)
      count(e, S) == FoldSet(LAMBDA k, a : Recounted(a, k), e, S)
      synced == FoldLeft(step, d, SetToSortSeq(Parsed(s), LAMBDA n, m : Before(s, n, m)))
  IN  count(count(count(synced, ZoneFdts(synced, z)), ZoneNros(synced, z)),
            ZoneCentrales(synced, z))

(* Importing is idempotent: where nobody else wrote meanwhile, importing the *)
(* payload again would change nothing, so a client may simply send it again. *)
ImportIsIdempotent ==
  [][\A i \in Importers :
       Commits(i) /\ txn[i].open /\ db = txn[i].base =>
         Reimported(db', imp[i].zone, imp[i].features) = db']_<<db, txn, imp>>

(* An import that starts ends, whatever other imports hold: a conflict       *)
(* between two of them fails one and never leaves both waiting.              *)
ImportsEnd == \A i \in Importers :
  imp[i].at = "validate" ~> imp[i].at \in {"idle", "failed"}
=============================================================================
