------------------------------ MODULE InfraDocs ------------------------------
(***************************************************************************)
(* The documents of the network as its administrators see them - zones,    *)
(* centrales, NROs, FDTs, contracts and central fibers - in one function   *)
(* from externalId (code or name) to document, and the MongoDB sessions    *)
(* that GeoJSON imports write through.                                     *)
(*                                                                         *)
(* A session is a snapshot, the view its owner has changed, and the        *)
(* documents it has written; a write to a document that another session    *)
(* holds, or that changed since the snapshot, is a WriteConflict, and a    *)
(* write outside any session waits for the session that holds the          *)
(* document.  Names, coordinates, quality scores and the centraleId copied *)
(* to FDTs and contracts are not kept.                                     *)
(***************************************************************************)
EXTENDS Integers, FiniteSets, Sequences

CONSTANTS
  Zones, Centrales, Nros, Fdts, Contracts, Fibers,  \* externalIds, codes and names
  Places,         \* where a contract or a zone polygon may lie
  Place,          \* the place of each contract
  Phones,
  Stored,         \* the documents of the initial state
  Importers,      \* GeoJSON imports that may run at the same time
  Transactional,  \* does the server have sessions (a replica set)?
  None

Ids == Zones \cup Centrales \cup Nros \cup Fdts \cup Contracts \cup Fibers

ASSUME InfraAssumption ==
  /\ Transactional \in BOOLEAN /\ Importers \subseteq Nat
  /\ Place \in [Contracts -> Places]
  /\ None \notin Ids \cup Places \cup Phones
  /\ IsFiniteSet(Ids)
  /\ Zones \cap (Centrales \cup Nros \cup Fdts \cup Contracts \cup Fibers) = {}
  /\ Centrales \cap (Nros \cup Fdts \cup Contracts \cup Fibers) = {}
  /\ Nros \cap (Fdts \cup Contracts \cup Fibers) = {}
  /\ Fdts \cap (Contracts \cup Fibers) = {} /\ Contracts \cap Fibers = {}

VARIABLES
  db,   \* the committed documents
  txn   \* per import, its session

(* regionId holds the _id of a zone where events and imports write it, and   *)
(* its name where POST /nro does.                                             *)
Region == {<<"none", None>>} \cup ({"id", "name"} \X Zones)
IdOf(z) == <<"id", z>>
NameOf(z) == <<"name", z>>

\* A centraleId names one document: a centrale deleted and made again is another.
CentraleRef == {<<None, 0>>} \cup (Centrales \X Nat)
NoCentrale == <<None, 0>>

Saturation == {"NORMAL", "CHARGE", "SATURE"}

ZoneDoc == [active : BOOLEAN, covers : SUBSET Places]
CentraleDoc == [live : BOOLEAN, oid : Nat, zone : Zones \cup {None}, cap : Nat]
NroStatus == {"ACTIVE", "SATURATED", "DOWN", "DELETED"}
NroDoc == [live : BOOLEAN, region : Region, centrale : CentraleRef, max : Nat, gb : Nat,
           status : NroStatus, sat : Saturation, load : Nat, used : Nat, fdts : Nat]
FdtDoc == [live : BOOLEAN, region : Region, nro : Nros \cup {None}, total : Nat,
           ports : Nat, clients : Nat, statut : {"DISPONIBLE", "CHARGE", "PLEIN"}]
ContractStatus == {"ACTIVE", "CANCELLED", "FAILED"}
ContractDoc == [live : BOOLEAN, status : ContractStatus,
                zone : Zones \cup {None}, nro : Nros \cup {None}, fdt : Fdts \cup {None},
                gb : Nat, phone : Phones \cup {None}]
FiberDoc == [live : BOOLEAN, zone : Zones \cup {None}, total : Nat, used : Nat]

\* A centrale is made for a zone.
Documents(d) ==
  /\ DOMAIN d = Ids
  /\ \A z \in Zones : d[z] \in ZoneDoc
  /\ \A k \in Centrales : d[k] \in CentraleDoc /\ (d[k].live => d[k].zone # None)
  /\ \A n \in Nros : d[n] \in NroDoc
  /\ \A f \in Fdts : d[f] \in FdtDoc
  /\ \A c \in Contracts : d[c] \in ContractDoc
  /\ \A x \in Fibers : d[x] \in FiberDoc

Stub == [live |-> FALSE, oid |-> 0, zone |-> None, cap |-> 0]
NoNro == [live |-> FALSE, region |-> <<"none", None>>, centrale |-> NoCentrale, max |-> 0,
          gb |-> 0, status |-> "ACTIVE", sat |-> "NORMAL", load |-> 0, used |-> 0, fdts |-> 0]
NoFdt == [live |-> FALSE, region |-> <<"none", None>>, nro |-> None, total |-> 0,
          ports |-> 0, clients |-> 0, statut |-> "DISPONIBLE"]
NoContract == [live |-> FALSE, status |-> "FAILED", zone |-> None, nro |-> None,
               fdt |-> None, gb |-> 0, phone |-> None]
NoFiber == [live |-> FALSE, zone |-> None, total |-> 0, used |-> 0]

RefTo(d, k) == <<k, d[k].oid>>
Resolves(d, ref) == ref # NoCentrale /\ d[ref[1]].live /\ d[ref[1]].oid = ref[2]

\* What is stored before, when the six collections are what they are.
ASSUME StoredAssumption == Documents(Stored)

ZoneCentrales(d, z) == {k \in Centrales : d[k].live /\ d[k].zone = z}
ZoneNros(d, z) == {n \in Nros : d[n].live /\ d[n].region = IdOf(z)}
ZoneFdts(d, z) == {f \in Fdts : d[f].live /\ d[f].region = IdOf(z)}
ActiveOn(d, f) == {c \in Contracts : d[c].live /\ d[c].status = "ACTIVE" /\ d[c].fdt = f}
ActiveUnder(d, n) == {c \in Contracts : d[c].live /\ d[c].status = "ACTIVE" /\ d[c].nro = n}

-----------------------------------------------------------------------------
(* Sessions                                                                   *)

NoSession == [open |-> FALSE, base |-> <<>>, view |-> <<>>, dirty |-> {}]
View(i) == IF txn[i].open THEN txn[i].view ELSE db

Held(k, others) == \E j \in others : txn[j].open /\ k \in txn[j].dirty

WriteConflict(i, changed) ==
  \E k \in changed : Held(k, Importers \ {i}) \/ db[k] # txn[i].base[k]

\* numeroTelephone is unique over all contracts.
PhoneTwice(d) ==
  \E c, e \in Contracts : c # e /\ d[c].live /\ d[e].live /\ d[c].phone = d[e].phone

\* d with the documents in S as v has them.
Merge(d, S, v) == [k \in Ids |-> IF k \in S THEN v[k] ELSE d[k]]

\* The server turns down importer i's change of its documents to v.  (Bound variables
\* are values to TLC; definitions would be evaluated again at every use.)
Refused(i, v) ==
  \E old \in {View(i)} : \E changed \in {{k \in Ids : v[k] # old[k]}} :
    \/ \E d \in {v, Merge(db, changed \cup txn[i].dirty, v)} : PhoneTwice(d)
    \/ /\ txn[i].open
       /\ \/ WriteConflict(i, changed)
          \/ \E j \in Importers \ {i} : \E d \in {Merge(db, changed, v)} :
               /\ txn[j].open
               /\ \E e \in {Merge(d, txn[j].dirty, txn[j].view)} : PhoneTwice(e)

\* They become v: in its session, or at once without one.
Write(i, v) ==
  IF txn[i].open
  THEN /\ txn' = [txn EXCEPT ![i].view = v,
                             ![i].dirty = @ \cup {k \in Ids : v[k] # txn[i].view[k]}]
       /\ db' = db
  ELSE db' = v /\ txn' = txn

StartSession(i) ==
  txn' = [txn EXCEPT ![i] = [open |-> TRUE, base |-> db, view |-> db, dirty |-> {}]]

CommitSession(i) ==
  /\ db' = Merge(db, txn[i].dirty, txn[i].view)
  /\ txn' = [txn EXCEPT ![i] = NoSession]

\* A write outside any session: it waits for the sessions that hold the document.
Put(k, doc) == ~Held(k, Importers) /\ db' = [db EXCEPT ![k] = doc]

\* What document.save() leaves of a document changed since it was read.
Network == INSTANCE NetworkState
Save(k, read, new) == \E doc \in {Network!SaveModified(db[k], read, new)} : Put(k, doc)
=============================================================================
