----------------------------- MODULE NetworkAdmin -----------------------------
(***************************************************************************)
(* Everybody who changes the network's documents besides the contract      *)
(* pipeline: GeoJSON imports (ZoneImport), the REST endpoints of zones,    *)
(* centrales, NROs, FDTs and central fibers with the fdt.new event, and    *)
(* the audit of the AI supervisor (AutoCorrectionService), which repairs   *)
(* references the others leave dangling.                                   *)
(*                                                                         *)
(* A request reads in one step, all its lookups and checks together, and   *)
(* writes in another.  Updates save the modified paths of the document     *)
(* they read.                                                              *)
(***************************************************************************)
EXTENDS ZoneImport

CONSTANTS
  Clerks,     \* requests, or events, that may be handled at the same time
  Requests    \* what they may ask: [op, by, id, ...]

NoRegion == <<"none", None>>

\* What an operation may be asked of.  A field it does not carry is ignored.
Operations ==
  ({"zone.update", "zone.remove"} \X Zones)
  \cup ({"centrale.create", "centrale.update", "centrale.delete"} \X Centrales)
  \cup ({"nro.create", "nro.update", "nro.remove"} \X Nros)
  \cup ({"fdt.create", "fdt.update", "fdt.remove", "fdt.new"} \X Fdts)
  \cup ({"fiber.create", "fiber.update", "fiber.delete"} \X Fibers)

ASSUME RequestAssumption ==
  \A a \in Requests :
    /\ <<a.op, a.id>> \in Operations
    /\ a.zone \in Zones /\ a.region \in Region /\ a.nro \in Nros \cup {None}
    /\ a.centrale \in Centrales \cup {None}
    /\ IF a.op = "fdt.create" THEN a.nro # None ELSE a.centrale # None
    /\ a.gb \in Nat /\ a.used \in Nat /\ a.status \in NroStatus /\ a.active \in BOOLEAN

VARIABLES
  req,        \* per clerk: what it handles, and the documents it has read
  notices,    \* what administrators and zone managers have been told
  audit       \* runAudit: the documents still to look at, as they were read

adminVars == <<req, notices, audit>>
vars == <<db, txn, impVars, adminVars>>

NoRequest == [at |-> "idle", ask |-> [op |-> "none", by |-> "ADMIN", id |-> None], read |-> <<>>]
AuditOff == [at |-> "off", left |-> {}, read |-> <<>>]

Notice == [event : {"CENTRALE_NEW", "CENTRALE_DELETE", "NRO_NEW", "NRO_DELETE", "FDT_NEW",
                    "FDT_DELETE"}, id : Ids, region : Region]

TypeOK ==
  /\ Documents(db)
  /\ ImportType
  /\ \A p \in Clerks : req[p].at \in {"idle", "write"} /\ req[p].ask \in Requests \cup {NoRequest.ask}
  /\ notices \subseteq Notice
  /\ audit.at \in {"off", "contracts", "nros"} /\ audit.left \subseteq Ids

Init ==
  /\ ImportInit
  /\ req = [p \in Clerks |-> NoRequest]
  /\ notices = {}
  /\ audit = AuditOff

-----------------------------------------------------------------------------
(* What a request finds before it may write.                                  *)

NroParents(a) ==
  /\ db[a.centrale].live /\ db[a.centrale].zone = a.zone
  /\ ~db[a.id].live

\* The NRO's centrale and zone are those asked for, where both are known.  A DELETED NRO
\* is still found, and still a parent.
FdtParents(a) == LET nro == db[a.nro] IN
  /\ nro.live /\ ~db[a.id].live
  /\ a.centrale # None => nro.centrale \in {NoCentrale, RefTo(db, a.centrale)}
  /\ a.region # NoRegion => nro.region[2] \in {None, a.region[2]}

Admissible(a) ==
  CASE a.op = "nro.create" -> NroParents(a)
    [] a.op = "fdt.create" -> FdtParents(a)
    [] a.op \in {"fiber.create"} -> ~db[a.id].live
    [] a.op \in {"zone.update", "zone.remove", "centrale.create", "centrale.update",
                 "fdt.new"} -> TRUE
    [] OTHER -> db[a.id].live

\* handleNewFdtEvent takes the NRO it names, else an ACTIVE one of the zone, if any.
NewParents(a) == LET near == {n \in ZoneNros(db, a.zone) : db[n].status = "ACTIVE"} IN
  IF a.nro # None /\ db[a.nro].live THEN {a.nro} ELSE IF near = {} THEN {None} ELSE near

\* The zone an FDT below n gets: the NRO's, or the one asked for.
RegionBelow(n, asked) == IF n = None \/ db[n].region = NoRegion THEN asked ELSE db[n].region

\* What it may read: its parents, or the document itself.
ReadsFor(a) ==
  CASE a.op = "nro.create" -> {[centrale |-> RefTo(db, a.centrale)]}
    [] a.op = "fdt.create" -> {[region |-> RegionBelow(a.nro, a.region)]}
    [] a.op = "fdt.new" ->
         {[nro |-> n, region |-> RegionBelow(n, IdOf(a.zone))] : n \in NewParents(a)}
    [] OTHER -> {[doc |-> db[a.id]]}

Receive(p) ==
  /\ req[p].at = "idle" /\ begun < MaxBegun
  /\ \E a \in Requests : \E read \in ReadsFor(a) :
       /\ Admissible(a)
       /\ req' = [req EXCEPT ![p] = [at |-> "write", ask |-> a, read |-> read]]
  /\ begun' = begun + 1
  /\ UNCHANGED <<db, txn, imp, wrote, faults, notices, audit>>

\* Faulty variant: the zone asked for, not the document's regionId.
TellZone(a, event, region) ==
  notices' = notices \cup {[event |-> event, id |-> a.id, region |-> a.zone]}

\* SERVICE_CLIENT's changes are told to the administrators and to the zone.
Tell(a, event, region) ==
  notices' = IF a.by = "SERVICE_CLIENT"
             THEN notices \cup {[event |-> event, id |-> a.id, region |-> region]}
             ELSE notices

Handle(p, op) == req[p].at = "write" /\ req[p].ask.op = op /\ req' = [req EXCEPT ![p] = NoRequest]
Unread == UNCHANGED <<txn, impVars, audit>>

\* A unique index, or a document that has gone, ends a request without a write.
TurnedDown(p) ==
  LET a == req[p].ask IN
  /\ req[p].at = "write"
  /\ \/ a.op \in {"centrale.create", "nro.create", "fdt.create", "fiber.create"} /\ db[a.id].live
     \/ a.op \in {"centrale.update", "centrale.delete", "fdt.update", "fdt.remove",
                  "fiber.update", "fiber.delete"} /\ ~db[a.id].live
  /\ req' = [req EXCEPT ![p] = NoRequest]
  /\ UNCHANGED <<db, notices>> /\ Unread

UpdateZone(p) == LET a == req[p].ask  doc == req[p].read.doc IN
  /\ Handle(p, "zone.update")
  /\ Save(a.id, doc, [doc EXCEPT !.active = a.active])
  /\ UNCHANGED notices /\ Unread

RemoveZone(p) == LET a == req[p].ask  doc == req[p].read.doc IN
  /\ Handle(p, "zone.remove")
  /\ Save(a.id, doc, [doc EXCEPT !.active = FALSE])
  /\ UNCHANGED notices /\ Unread

CreateCentrale(p) == LET a == req[p].ask IN
  /\ Handle(p, "centrale.create") /\ ~db[a.id].live
  /\ Put(a.id, [live |-> TRUE, oid |-> db[a.id].oid + 1, zone |-> a.zone, cap |-> a.gb])
  /\ Tell(a, "CENTRALE_NEW", IdOf(a.zone)) /\ Unread

UpdateCentrale(p) == LET a == req[p].ask IN
  /\ Handle(p, "centrale.update") /\ db[a.id].live
  /\ Put(a.id, [db[a.id] EXCEPT !.zone = a.zone, !.cap = a.gb])
  /\ UNCHANGED notices /\ Unread

\* The NROs of the centrale keep its centraleId.
DeleteCentrale(p) == LET a == req[p].ask IN
  /\ Handle(p, "centrale.delete") /\ db[a.id].live
  /\ Put(a.id, [Stub EXCEPT !.oid = db[a.id].oid])
  /\ Tell(a, "CENTRALE_DELETE", IdOf(req[p].read.doc.zone)) /\ Unread

\* regionId is the zone's name here, and capacityGb keeps its default.
CreateNro(p) == LET a == req[p].ask IN
  /\ Handle(p, "nro.create") /\ ~db[a.id].live
  /\ Put(a.id, [NoNro EXCEPT !.live = TRUE, !.region = NameOf(a.zone), !.max = a.gb,
                             !.centrale = req[p].read.centrale])
  /\ Tell(a, "NRO_NEW", NameOf(a.zone)) /\ Unread

\* PATCH takes a regionId as it comes, if there is one.
Rezoned(doc, region) == IF region = NoRegion THEN doc.region ELSE region

\* Any status may be set, and none is recomputed from the new capacity.
UpdateNroDoc(p) == LET a == req[p].ask  doc == req[p].read.doc IN
  /\ Handle(p, "nro.update")
  /\ Save(a.id, doc, [doc EXCEPT !.max = a.gb, !.status = a.status,
                                 !.region = Rezoned(doc, a.region)])
  /\ UNCHANGED notices /\ Unread

RemoveNro(p) == LET a == req[p].ask  doc == req[p].read.doc IN
  /\ Handle(p, "nro.remove")
  /\ Save(a.id, doc, [doc EXCEPT !.status = "DELETED"])
  /\ Tell(a, "NRO_DELETE", doc.region) /\ Unread

CreateFdt(p) == LET a == req[p].ask IN
  /\ Handle(p, "fdt.create") /\ ~db[a.id].live
  /\ Put(a.id, [NoFdt EXCEPT !.live = TRUE, !.region = req[p].read.region, !.nro = a.nro,
                             !.total = a.gb])
  /\ Tell(a, "FDT_NEW", req[p].read.region) /\ Unread

\* The new parent is not looked up.
UpdateFdt(p) == LET a == req[p].ask  doc == req[p].read.doc IN
  /\ Handle(p, "fdt.update") /\ db[a.id].live
  /\ Save(a.id, doc, [doc EXCEPT !.nro = a.nro, !.total = a.gb, !.region = Rezoned(doc, a.region)])
  /\ UNCHANGED notices /\ Unread

\* Its contracts keep naming it.
RemoveFdt(p) == LET a == req[p].ask IN
  /\ Handle(p, "fdt.remove") /\ db[a.id].live
  /\ Put(a.id, NoFdt)
  /\ Tell(a, "FDT_DELETE", req[p].read.doc.region) /\ Unread

\* One upsert, whatever became of the FDT and of its NRO meanwhile; with none found, the NRO
\* it has stays.
NewFdtEvent(p) == LET a == req[p].ask  read == req[p].read
                      old == IF db[a.id].live THEN db[a.id] ELSE [NoFdt EXCEPT !.total = a.gb]
                  IN
  /\ Handle(p, "fdt.new")
  /\ Put(a.id, [old EXCEPT !.live = TRUE, !.region = read.region,
                           !.nro = IF read.nro = None THEN @ ELSE read.nro])
  /\ UNCHANGED notices /\ Unread

CreateFiber(p) == LET a == req[p].ask IN
  /\ Handle(p, "fiber.create") /\ ~db[a.id].live
  /\ Put(a.id, [live |-> TRUE, zone |-> a.zone, total |-> a.gb, used |-> 0])
  /\ UNCHANGED notices /\ Unread

UpdateFiber(p) == LET a == req[p].ask  doc == req[p].read.doc IN
  /\ Handle(p, "fiber.update") /\ db[a.id].live
  /\ Save(a.id, doc, [doc EXCEPT !.total = a.gb, !.used = a.used])
  /\ UNCHANGED notices /\ Unread

DeleteFiber(p) == LET a == req[p].ask IN
  /\ Handle(p, "fiber.delete") /\ db[a.id].live
  /\ Put(a.id, NoFiber)
  /\ UNCHANGED notices /\ Unread

ClerkStep(p) ==
  \/ TurnedDown(p) \/ UpdateZone(p) \/ RemoveZone(p)
  \/ CreateCentrale(p) \/ UpdateCentrale(p) \/ DeleteCentrale(p)
  \/ CreateNro(p) \/ UpdateNroDoc(p) \/ RemoveNro(p)
  \/ CreateFdt(p) \/ UpdateFdt(p) \/ RemoveFdt(p) \/ NewFdtEvent(p)
  \/ CreateFiber(p) \/ UpdateFiber(p) \/ DeleteFiber(p)

-----------------------------------------------------------------------------
(* AutoCorrectionService.runAudit.                                            *)

\* A place that no zone's polygon contains leaves the contract to an administrator.
Covering(c) == {z \in Zones : Place[c] \in db[z].covers}
Unplaced == {c \in Contracts : db[c].live /\ db[c].zone = None}
\* The document itself, which an import may have given another externalId since.
Renamed(c) == IF db[c].live THEN {c}
              ELSE {k \in Contracts : db[k].live /\ db[k].phone = audit.read[c].phone}
Dangling(n) == db[n].live /\ db[n].centrale # NoCentrale /\ ~Resolves(db, db[n].centrale)

AuditKeep == UNCHANGED <<txn, impVars, req, notices>>

Load(at, ids) == [at |-> at, left |-> ids, read |-> [k \in ids |-> db[k]]]

StartAudit ==
  /\ audit.at = "off"
  /\ audit' = Load("contracts", Unplaced)
  /\ UNCHANGED db /\ AuditKeep

\* Faulty variant: contracts without a zone are only reported.
ReportContract ==
  /\ audit.at = "contracts"
  /\ \E c \in audit.left : audit' = [audit EXCEPT !.left = @ \ {c}]
  /\ UNCHANGED db /\ AuditKeep

ResolveContract ==
  /\ audit.at = "contracts"
  /\ \E c \in audit.left :
       /\ audit' = [audit EXCEPT !.left = @ \ {c}]
       /\ \/ Covering(c) = {} /\ UNCHANGED db
          \/ \E z \in Covering(c), k \in Renamed(c) :
               Save(k, audit.read[c], [audit.read[c] EXCEPT !.zone = z])
  /\ AuditKeep

LoadNros ==
  /\ audit.at = "contracts" /\ audit.left = {}
  /\ audit' = Load("nros", {n \in Nros : db[n].live /\ db[n].centrale # NoCentrale})
  /\ UNCHANGED db /\ AuditKeep

\* The centraleId that is looked up is the one read when the audit loaded the NROs.
ResolveNroRef ==
  /\ audit.at = "nros"
  /\ \E n \in audit.left :
       /\ audit' = [audit EXCEPT !.left = @ \ {n}]
       /\ IF Resolves(db, audit.read[n].centrale) THEN UNCHANGED db
          ELSE Save(n, audit.read[n], [audit.read[n] EXCEPT !.centrale = NoCentrale])
  /\ AuditKeep

\* FDTs without their NRO, duplicates and gaps in the hierarchy are reported only.
EndAudit ==
  /\ audit.at = "nros" /\ audit.left = {}
  /\ audit' = AuditOff
  /\ UNCHANGED db /\ AuditKeep

AuditStep == ResolveContract \/ LoadNros \/ ResolveNroRef \/ EndAudit

-----------------------------------------------------------------------------
Next ==
  \/ ImportNext /\ UNCHANGED adminVars
  \/ \E p \in Clerks : Receive(p) \/ ClerkStep(p)
  \/ StartAudit \/ AuditStep

Spec == Init /\ [][Next]_vars

\* Imports and audits run on, and the scheduler starts an audit again and again.
\* Nothing depends on the clerks being served.
FairSpec ==
  /\ Spec
  /\ WF_vars((\E i \in Importers : ImportStep(i)) /\ UNCHANGED adminVars)
  /\ WF_vars(StartAudit \/ AuditStep)

-----------------------------------------------------------------------------
Damaged ==
  \/ \E n \in Nros : Dangling(n)
  \/ \E c \in Unplaced : Covering(c) # {}

(* A reference to a centrale that is gone, and a contract whose zone can be  *)
(* derived from where it is, do not stay: once requests and imports leave    *)
(* the network alone, audits have seen to all of them.                       *)
Repaired == Damaged ~> ~Damaged
=============================================================================
