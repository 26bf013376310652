------------------------------- MODULE Accounts -------------------------------
(***************************************************************************)
(* Zone managers and their logins: UsersService (create, update, delete a  *)
(* zone manager, a user's language) and AuthService.login with the rooms   *)
(* WebsocketBroadcastGateway puts a connection in.                         *)
(*                                                                         *)
(* A request is a sequence of awaited calls; the lookups it makes before   *)
(* its first write are one step, and the bcrypt hash lies between them and *)
(* that write.  An account that does not exist yet has no name.            *)
(***************************************************************************)
EXTENDS Integers

CONSTANTS
  Accounts, Zones,
  Names, Emails, Passwords,
  Admin,          \* the account of the administrator
  Desks,          \* HTTP requests that may be handled at the same time
  AccountAsks,    \* what they may ask for: [op, id, set, fields]
  Staff,          \* the accounts there are at first, the administrator logged in
  None

ASSUME AccountAssumption ==
  Admin \in Accounts /\ None \notin Accounts \cup Zones \cup Names \cup Emails \cup Passwords

VARIABLES
  users,     \* the users collection
  manager,   \* managerUserId of each zone document
  desk,      \* per request: where it is, what it asks, the document it read
  tokens,    \* the JWTs issued
  rooms,     \* the rooms connections have joined, with the account
  had        \* history: the zones an account has been the active manager of

accountVars == <<users, manager, desk, tokens, rooms, had>>

User == [name : Names \cup {None}, email : Emails \cup {None}, password : Passwords \cup {None},
         active : BOOLEAN, role : {"ADMIN", "RESPONSABLE_ZONE"}, zone : Zones \cup {None},
         lang : {"fr", "en", "ar"}]
NoUser == [name |-> None, email |-> None, password |-> None, active |-> FALSE,
           role |-> "RESPONSABLE_ZONE", zone |-> None, lang |-> "fr"]
Token == [user : Accounts, role : {"ADMIN", "RESPONSABLE_ZONE"}, zone : Zones \cup {None}]
Room == ({"zone"} \X Zones) \cup {<<"admin", None>>}

\* What a request carries: CreateZoneManagerDto and UpdateZoneManagerDto have no role, an
\* update no name that is empty; a language request sets the language.
AccountAsk == [op : {"create", "update", "delete", "language", "login"}, id : Accounts, set : User,
               fields : SUBSET {"name", "email", "password", "active", "zone", "lang"}]

ASSUME AskAssumption ==
  /\ AccountAsks \subseteq AccountAsk
  /\ \A a \in AccountAsks :
       /\ a.op = "create" => a.set.role = "RESPONSABLE_ZONE" /\ a.set.name # None
       /\ "name" \in a.fields => a.set.name # None
       /\ a.op = "language" => a.fields \subseteq {"lang"}

\* A manager who is there at first has a zone.
ASSUME StaffAssumption ==
  /\ Staff \in [Accounts -> User]
  /\ \A u \in Accounts : Staff[u].role = "RESPONSABLE_ZONE" /\ (Staff[u].name # None \/ Staff[u].active)
       => Staff[u].zone # None

NoAsk == [op |-> "none", id |-> Admin, set |-> NoUser, fields |-> {}]
AtEntrance == [at |-> "idle", ask |-> NoAsk, doc |-> NoUser, who |-> Admin]
DeskAt == {"idle", "start", "insert", "pointNew", "unpoint", "point", "save", "sign"}

AccountType ==
  /\ users \in [Accounts -> User] /\ manager \in [Zones -> Accounts \cup {None}]
  /\ \A p \in Desks : desk[p].at \in DeskAt /\ desk[p].ask \in AccountAsks \cup {NoAsk}
                      /\ desk[p].doc \in User /\ desk[p].who \in Accounts
  /\ tokens \subseteq Token /\ rooms \subseteq Accounts \X Room
  /\ had \in [Accounts -> SUBSET Zones]

Managing(staff, u) == IF staff[u].active /\ staff[u].zone # None THEN {staff[u].zone} ELSE {}

AccountInit ==
  /\ users = Staff
  /\ manager \in [Zones -> Accounts \cup {None}]
  /\ \A z \in Zones : LET all == {u \in Accounts : z \in Managing(Staff, u)} IN
       IF all = {} THEN manager[z] = None ELSE manager[z] \in all
  /\ desk = [p \in Desks |-> AtEntrance]
  /\ tokens = {[user |-> Admin, role |-> "ADMIN", zone |-> None]} /\ rooms = {}
  /\ had = [u \in Accounts |-> Managing(Staff, u)]

-----------------------------------------------------------------------------
Exists(u) == users[u].name # None

\* The unique indexes of the collection.
Clash(u, doc) == \E v \in Accounts \ {u} :
  Exists(v) /\ (users[v].name = doc.name \/ users[v].email = doc.email)

\* The lookup of an active manager of zone z other than u.
Managed(z, u) == \E v \in Accounts \ {u} :
  users[v].role = "RESPONSABLE_ZONE" /\ users[v].zone = z /\ users[v].active

To(p, at) == desk' = [desk EXCEPT ![p].at = at]
Leave(p) == desk' = [desk EXCEPT ![p] = AtEntrance]
At(p, at, ops) == desk[p].at = at /\ desk[p].ask.op \in ops

\* The document once it is stored; a history of who managed what.
PutUser(u, doc) ==
  /\ users' = [users EXCEPT ![u] = doc]
  /\ had' = [had EXCEPT ![u] = @ \cup Managing(users', u)]

\* Faulty variant: the whole document read at first is written back.
WholeUser(u, read, new) == new

\* save() sends the paths it modified.
SavedUser(u, read, new) ==
  [f \in DOMAIN new |-> IF new[f] # read[f] THEN new[f] ELSE users[u][f]]

\* Only an administrator's token opens the routes of zone managers.
Ask(p, a) ==
  /\ desk[p].at = "idle"
  /\ a.op \in {"create", "update", "delete"} => \E t \in tokens : t.role = "ADMIN"
  /\ a.op = "language" => \E t \in tokens : t.user = a.id
  /\ desk' = [desk EXCEPT ![p] = [AtEntrance EXCEPT !.at = "start", !.ask = a]]
  /\ UNCHANGED <<users, manager, tokens, rooms, had>>

-----------------------------------------------------------------------------
(* createZoneManager.  zoneActive are the zones whose map is active.          *)

CheckNew(p, zoneActive) == LET a == desk[p].ask IN
  /\ At(p, "start", {"create"})
  /\ IF Exists(a.id) \/ Clash(a.id, a.set) \/ a.set.zone \notin zoneActive \/ Managed(a.set.zone, a.id)
     THEN Leave(p) ELSE To(p, "insert")
  /\ UNCHANGED <<users, manager, tokens, rooms, had>>

InsertManager(p) == LET a == desk[p].ask IN
  /\ At(p, "insert", {"create"})
  /\ IF Exists(a.id) \/ Clash(a.id, a.set)
     THEN Leave(p) /\ UNCHANGED <<users, had>>
     ELSE To(p, "pointNew") /\ PutUser(a.id, a.set)
  /\ UNCHANGED <<manager, tokens, rooms>>

PointNew(p) == LET a == desk[p].ask IN
  /\ At(p, "pointNew", {"create"}) /\ Leave(p)
  /\ manager' = [manager EXCEPT ![a.set.zone] = a.id]
  /\ UNCHANGED <<users, tokens, rooms, had>>

-----------------------------------------------------------------------------
(* updateZoneManager, deleteZoneManager, updateLanguage: the document is read, *)
(* changed in memory and saved last.                                          *)

Changed(a, doc) ==
  CASE a.op = "delete" -> [doc EXCEPT !.active = FALSE]
    [] OTHER -> [f \in DOMAIN doc |-> IF f \in a.fields THEN a.set[f] ELSE doc[f]]

ReadAccount(p, zoneActive) == LET a == desk[p].ask  doc == users[a.id] IN
  /\ At(p, "start", {"update", "delete", "language"})
  /\ IF \/ ~Exists(a.id)
        \/ a.op # "language" /\ doc.role # "RESPONSABLE_ZONE"
        \/ a.op = "update" /\ Clash(a.id, Changed(a, doc))
        \/ a.op = "update" /\ "zone" \in a.fields
             /\ (a.set.zone \notin zoneActive \/ Managed(a.set.zone, a.id))
     THEN Leave(p)
     ELSE desk' = [desk EXCEPT ![p].doc = doc,
                     ![p].at = IF a.op = "delete" THEN "unpoint"
                               ELSE IF a.op = "update" /\ "zone" \in a.fields
                               THEN IF doc.zone # a.set.zone THEN "unpoint" ELSE "point"
                               ELSE "save"]
  /\ UNCHANGED <<users, manager, tokens, rooms, had>>

\* $unset of the zone the document names, whoever manages it by now.
UnpointZone(p) == LET a == desk[p].ask  z == desk[p].doc.zone IN
  /\ At(p, "unpoint", {"update", "delete"})
  /\ To(p, IF a.op = "delete" THEN "save" ELSE "point")
  /\ manager' = [manager EXCEPT ![z] = None]
  /\ UNCHANGED <<users, tokens, rooms, had>>

PointZone(p) == LET a == desk[p].ask IN
  /\ At(p, "point", {"update"}) /\ To(p, "save")
  /\ manager' = [manager EXCEPT ![a.set.zone] = a.id]
  /\ UNCHANGED <<users, tokens, rooms, had>>

SaveAccount(p) ==
  LET a == desk[p].ask
      doc == SavedUser(a.id, desk[p].doc, Changed(a, desk[p].doc))
  IN
  /\ At(p, "save", {"update", "delete", "language"}) /\ Leave(p)
  /\ IF Clash(a.id, doc) THEN UNCHANGED <<users, had>> ELSE PutUser(a.id, doc)
  /\ UNCHANGED <<manager, tokens, rooms>>

-----------------------------------------------------------------------------
(* login, by email; the zone a caller asks for is ignored.                    *)

\* Faulty variant: the zone asked for wins.
RequestedZone(a, doc) == IF a.set.zone # None THEN a.set.zone ELSE doc.zone

EffectiveZone(a, doc) == IF doc.role = "RESPONSABLE_ZONE" THEN doc.zone ELSE None

Authenticate(p) ==
  LET a == desk[p].ask
      found == {u \in Accounts : /\ users[u].email = a.set.email
                                 /\ users[u].password = a.set.password /\ users[u].active}
  IN
  /\ At(p, "start", {"login"})
  /\ IF found = {} THEN Leave(p)
     ELSE \E u \in found :
            desk' = [desk EXCEPT ![p].at = "sign", ![p].doc = users[u], ![p].who = u]
  /\ UNCHANGED <<users, manager, tokens, rooms, had>>

Sign(p) == LET a == desk[p].ask  doc == desk[p].doc IN
  /\ At(p, "sign", {"login"}) /\ Leave(p)
  /\ tokens' = tokens \cup {[user |-> desk[p].who, role |-> doc.role, zone |-> EffectiveZone(a, doc)]}
  /\ UNCHANGED <<users, manager, rooms, had>>

\* handleConnection joins the room the token names, not the account as it is now.
Connect == \E t \in tokens :
  /\ rooms' = rooms \cup {<<t.user, IF t.role = "ADMIN" THEN <<"admin", None>> ELSE <<"zone", t.zone>> >>}
  /\ UNCHANGED <<users, manager, desk, tokens, had>>

DeskStep(p, zoneActive) ==
  \/ CheckNew(p, zoneActive) \/ InsertManager(p) \/ PointNew(p)
  \/ ReadAccount(p, zoneActive) \/ UnpointZone(p) \/ PointZone(p) \/ SaveAccount(p)
  \/ Authenticate(p) \/ Sign(p)

\* The process dies with the requests it is handling.
LoseRequests == desk' = [p \in Desks |-> AtEntrance] /\ rooms' = {}

-----------------------------------------------------------------------------
(* Does the request at p ask for another value of field f of account u?      *)
AsksFor(p, u, f) ==
  LET a == desk[p].ask IN
  /\ desk[p].at \in {"insert", "save"} /\ a.id = u
  /\ CASE a.op = "create" -> TRUE [] a.op = "delete" -> f = "active" [] OTHER -> f \in a.fields

(* Requests that overlap on one account lose none of each other's changes: a *)
(* password, an activation, a zone or a language changes only in a step of a *)
(* request that asks for it.                                                 *)
FieldsAreKept ==
  [][\A u \in Accounts : \A f \in DOMAIN NoUser :
       users'[u][f] # users[u][f] => \E p \in Desks : AsksFor(p, u, f)]_accountVars

(* A token, and the room it opens, is for a zone its account has actively    *)
(* managed, never for one the login asked for or an inactive account got.    *)
TokensAreOwn ==
  /\ \A t \in tokens : t.role = "RESPONSABLE_ZONE" => t.zone \in had[t.user]
  /\ \A r \in rooms : r[2][1] = "zone" => r[2][2] \in had[r[1]]
=============================================================================
