---------------------------- MODULE Helpdesk_proofs ----------------------------
(***************************************************************************)
(* Accounts, logins and complaints, for any number of accounts, zones,     *)
(* requests, complaints, retries and crashes.                              *)
(*                                                                         *)
(* The two components share one process and nothing else, so each has an   *)
(* invariant of its own: AccountInv and ComplaintInv.                      *)
(***************************************************************************)
EXTENDS Helpdesk, TLAPS

-----------------------------------------------------------------------------
(* Accounts.                                                                  *)

Desk == [at : DeskAt, ask : AccountAsk \cup {NoAsk}, doc : User, who : Accounts]

DesksOK == desk \in [Desks -> Desk] /\ \A p \in Desks : desk[p].ask \in AccountAsks \cup {NoAsk}

\* An account that a zone manager has, or that may log in as one, has a zone.
Placed(u) == users[u].role = "RESPONSABLE_ZONE" /\ (Exists(u) \/ users[u].active)
               => users[u].zone \in Zones

\* What is about to be signed is an active account as it was when it was found, and what
\* is inserted or saved has the zone that was looked up.
DeskOK(p) ==
  LET a == desk[p].ask
      doc == desk[p].doc
  IN  /\ desk[p].at = "sign" /\ doc.role = "RESPONSABLE_ZONE" => doc.zone \in had[desk[p].who]
      /\ desk[p].at \in {"insert", "pointNew"} => a.op = "create" /\ a.set.zone \in Zones
      /\ desk[p].at \in {"unpoint", "point", "save"} /\ a.op = "update" /\ "zone" \in a.fields
           => a.set.zone \in Zones
      /\ desk[p].at \in {"unpoint", "point", "save"} => Exists(a.id)
      /\ desk[p].at = "start" => desk[p].ask \in AccountAsks

AccountInv ==
  /\ users \in [Accounts -> User] /\ manager \in [Zones -> Accounts \cup {None}]
  /\ DesksOK
  /\ tokens \subseteq Token /\ rooms \subseteq Accounts \X Room
  /\ had \in [Accounts -> SUBSET Zones]
  /\ \A u \in Accounts : Placed(u) /\ Managing(users, u) \subseteq had[u]
  /\ \A p \in Desks : DeskOK(p)
  /\ TokensAreOwn
  /\ active \subseteq Zones

UserFields == {"name", "email", "password", "active", "role", "zone", "lang"}

LEMMA UserDomain ==
  /\ \A doc \in User : DOMAIN doc = UserFields
  /\ NoUser \in User /\ NoAsk.op = "none" /\ NoAsk.set = NoUser
  /\ \A doc \in User : doc.name \in Names \cup {None} /\ doc.zone \in Zones \cup {None}
BY DEF User, NoUser, UserFields, NoAsk

\* A function with the fields of a user is one.
LEMMA UserOfFields ==
  ASSUME NEW s, DOMAIN s = UserFields, s = [f \in UserFields |-> s[f]],
         s.name \in Names \cup {None}, s.email \in Emails \cup {None},
         s.password \in Passwords \cup {None}, s.active \in BOOLEAN,
         s.role \in {"ADMIN", "RESPONSABLE_ZONE"}, s.zone \in Zones \cup {None},
         s.lang \in {"fr", "en", "ar"}
  PROVE  s \in User
<1>1. s = [name |-> s.name, email |-> s.email, password |-> s.password, active |-> s.active,
           role |-> s.role, zone |-> s.zone, lang |-> s.lang]
  BY DEF UserFields
<1>. QED
  BY <1>1 DEF User

\* What a request makes of the document it read: only the fields it asks for are other ones.
LEMMA ChangedUser ==
  ASSUME NEW a \in AccountAsks, NEW doc \in User, a.op # "create"
  PROVE  /\ Changed(a, doc) \in User
         /\ Changed(a, doc).role = doc.role
         /\ "name" \in a.fields \/ Changed(a, doc).name = doc.name
         /\ \A f \in UserFields : Changed(a, doc)[f] # doc[f] =>
              IF a.op = "delete" THEN f = "active"
              ELSE f \in a.fields /\ Changed(a, doc)[f] = a.set[f]
<1>. DEFINE s == Changed(a, doc)
<1>1. a \in AccountAsk /\ a.set \in User /\ a.fields \subseteq UserFields \ {"role"}
  BY AskAssumption DEF AccountAsk, UserFields
<1>2. DOMAIN doc = UserFields /\ DOMAIN a.set = UserFields
  BY <1>1, UserDomain
<1>3. CASE a.op = "delete"
  <2>1. s = [doc EXCEPT !.active = FALSE]
    BY <1>3 DEF Changed
  <2>. QED
    BY <2>1, <1>2, <1>3 DEF User, UserFields
<1>4. CASE a.op # "delete"
  <2>1. s = [f \in UserFields |-> IF f \in a.fields THEN a.set[f] ELSE doc[f]]
    BY <1>4, <1>2 DEF Changed
  <2>2. s \in User
    BY <2>1, <1>1, UserOfFields DEF User, UserFields
  <2>. QED
    BY <2>1, <2>2, <1>1, <1>4 DEF UserFields
<1>. QED
  BY <1>3, <1>4

\* save() keeps what others have written, but for the fields the request has changed.
LEMMA SavedIsUser ==
  ASSUME NEW u \in Accounts, users \in [Accounts -> User], NEW read \in User, NEW new \in User
  PROVE  /\ SavedUser(u, read, new) \in User
         /\ \A f \in UserFields : SavedUser(u, read, new)[f] =
              IF new[f] # read[f] THEN new[f] ELSE users[u][f]
<1>. DEFINE s == SavedUser(u, read, new)
<1>1. s = [f \in UserFields |-> IF new[f] # read[f] THEN new[f] ELSE users[u][f]]
  BY UserDomain DEF SavedUser
<1>2. users[u] \in User
  OBVIOUS
<1>3. s \in User
  BY <1>1, <1>2, UserOfFields DEF User, UserFields
<1>. QED
  BY <1>1, <1>3

LEMMA AccountInitOK == Init => AccountInv
<1>. SUFFICES ASSUME Init PROVE AccountInv
  OBVIOUS
<1>. USE DEF Init, AccountInit
<1>1. desk \in [Desks -> Desk] /\ \A p \in Desks : desk[p].ask = NoAsk /\ desk[p].at = "idle"
  BY AccountAssumption, UserDomain DEF AtEntrance, Desk, DeskAt
<1>2. \A u \in Accounts : Placed(u) /\ Managing(users, u) \subseteq had[u]
  BY StaffAssumption DEF Placed, Exists, User
<1>3. had \in [Accounts -> SUBSET Zones]
  BY StaffAssumption DEF Managing, User
<1>4. tokens \subseteq Token /\ TokensAreOwn
  BY AccountAssumption DEF Token, TokensAreOwn
<1>. QED
  BY <1>1, <1>2, <1>3, <1>4, StaffAssumption DEF AccountInv, DesksOK, DeskOK

Unwritten == UNCHANGED <<users, tokens, rooms, had, active>>
                 /\ manager' \in [Zones -> Accounts \cup {None}]

\* A step that moves one request and writes to no account.
LEMMA DeskMoves ==
  ASSUME AccountInv, NEW p \in Desks, Unwritten,
         NEW d \in Desk, desk' = [desk EXCEPT ![p] = d],
         d.ask \in AccountAsks \cup {NoAsk}, DeskOK(p)'
  PROVE  AccountInv'
<1>1. DesksOK'
  BY DEF AccountInv, DesksOK
<1>2. \A q \in Desks \ {p} : desk'[q] = desk[q]
  BY DEF AccountInv, DesksOK
<1>3. \A q \in Desks : DeskOK(q)'
  BY <1>2 DEF AccountInv, DeskOK, Exists, Unwritten
<1>. QED
  BY <1>1, <1>3 DEF AccountInv, Placed, Exists, Managing, TokensAreOwn, Unwritten

LEMMA Entrance == AtEntrance \in Desk /\ AtEntrance.ask = NoAsk /\ AtEntrance.at = "idle"
BY AccountAssumption, UserDomain DEF AtEntrance, Desk, DeskAt

LEMMA LeaveOK ==
  ASSUME AccountInv, NEW p \in Desks, Leave(p), Unwritten
  PROVE  AccountInv'
<1>1. desk'[p] = AtEntrance
  BY DEF Leave, AccountInv, DesksOK
<1>2. DeskOK(p)'
  BY <1>1, Entrance DEF DeskOK
<1>. QED
  BY <1>2, Entrance, DeskMoves DEF Leave

\* A request that goes on with the document it has.
LEMMA ToOK ==
  ASSUME AccountInv, NEW p \in Desks, NEW at \in DeskAt, To(p, at), DeskOK(p)', Unwritten
  PROVE  AccountInv'
<1>. DEFINE d == [desk[p] EXCEPT !.at = at]
<1>1. desk' = [desk EXCEPT ![p] = d] /\ d \in Desk /\ d.ask = desk[p].ask
  BY DEF To, AccountInv, DesksOK, Desk
<1>2. d.ask \in AccountAsks \cup {NoAsk}
  BY <1>1 DEF AccountInv, DesksOK
<1>. QED
  BY <1>1, <1>2, DeskMoves

\* A step that also stores a document that names its account and, for a manager, a zone.
LEMMA DeskStores ==
  ASSUME AccountInv, NEW p \in Desks, UNCHANGED <<manager, tokens, rooms, active>>,
         NEW u \in Accounts, NEW doc \in User, PutUser(u, doc),
         doc.name # None, doc.role = "RESPONSABLE_ZONE" => doc.zone \in Zones,
         NEW d \in Desk, desk' = [desk EXCEPT ![p] = d],
         d.ask \in AccountAsks \cup {NoAsk}, DeskOK(p)'
  PROVE  AccountInv'
<1>1. users \in [Accounts -> User] /\ had \in [Accounts -> SUBSET Zones]
  BY DEF AccountInv
<1>2. users' = [users EXCEPT ![u] = doc] /\ users' \in [Accounts -> User]
  BY <1>1 DEF PutUser
<1>3. \A v \in Accounts : Managing(users', v) \subseteq Zones
  BY <1>2 DEF Managing, User
<1>4. /\ had' \in [Accounts -> SUBSET Zones]
      /\ \A v \in Accounts : had[v] \subseteq had'[v] /\ (v # u => had'[v] = had[v])
      /\ Managing(users', u) \subseteq had'[u]
  BY <1>1, <1>3 DEF PutUser
<1>5. DesksOK'
  BY DEF AccountInv, DesksOK
<1>6. \A q \in Desks \ {p} : desk'[q] = desk[q] /\ desk[q] \in Desk
  BY DEF AccountInv, DesksOK
<1>7. \A v \in Accounts : Exists(v) => Exists(v)'
  BY <1>1, <1>2 DEF Exists
<1>8. \A q \in Desks \ {p} : desk[q].who \in Accounts /\ desk[q].ask.id \in Accounts
  BY <1>6, AskAssumption, AccountAssumption DEF Desk, AccountAsk, NoAsk
<1>9. \A q \in Desks : DeskOK(q)'
  BY <1>4, <1>6, <1>7, <1>8 DEF AccountInv, DeskOK
<1>10. \A v \in Accounts : Placed(v)' /\ Managing(users', v) \subseteq had'[v]
  BY <1>1, <1>2, <1>4 DEF AccountInv, Placed, Exists, Managing
<1>11. TokensAreOwn'
  BY <1>4 DEF AccountInv, TokensAreOwn, Token, Room
<1>. QED
  BY <1>2, <1>4, <1>5, <1>9, <1>10, <1>11 DEF AccountInv

LEMMA AskOK ==
  ASSUME AccountInv, NEW p \in Desks, NEW a \in AccountAsks, Ask(p, a), UNCHANGED active
  PROVE  AccountInv'
<1>. DEFINE d == [AtEntrance EXCEPT !.at = "start", !.ask = a]
<1>1. d \in Desk /\ d.ask = a /\ d.at = "start"
  BY AccountAssumption, AskAssumption, UserDomain DEF AtEntrance, Desk, DeskAt
<1>2. desk' = [desk EXCEPT ![p] = d] /\ desk'[p] = d
  BY DEF Ask, AccountInv, DesksOK
<1>3. DeskOK(p)'
  BY <1>1, <1>2 DEF DeskOK
<1>. QED
  BY <1>1, <1>2, <1>3, DeskMoves DEF Ask, Unwritten, AccountInv

\* What a request asks, once it is past the entrance.
LEMMA AskedFor ==
  ASSUME AccountInv, NEW p \in Desks, desk[p].ask.op # "none"
  PROVE  /\ desk[p].ask \in AccountAsks /\ desk[p].ask.id \in Accounts
         /\ desk[p].ask.set \in User
         /\ desk[p].doc \in User /\ desk[p].who \in Accounts
         /\ desk[p] \in Desk
BY AskAssumption DEF AccountInv, DesksOK, Desk, AccountAsk, NoAsk

LEMMA CheckNewOK ==
  ASSUME AccountInv, NEW p \in Desks, CheckNew(p, active), UNCHANGED active
  PROVE  AccountInv'
<1>1. CASE Leave(p)
  BY <1>1, LeaveOK DEF CheckNew, Unwritten, AccountInv
<1>2. CASE To(p, "insert") /\ desk[p].ask.set.zone \in active
  <2>1. desk'[p].ask = desk[p].ask /\ desk'[p].at = "insert"
    BY <1>2 DEF To, AccountInv, DesksOK, Desk
  <2>2. DeskOK(p)'
    BY <2>1, <1>2 DEF DeskOK, CheckNew, At, AccountInv
  <2>. QED
    BY <1>2, <2>2, ToOK DEF CheckNew, DeskAt, Unwritten, AccountInv
<1>. QED
  BY <1>1, <1>2 DEF CheckNew

LEMMA InsertManagerOK ==
  ASSUME AccountInv, NEW p \in Desks, InsertManager(p), UNCHANGED active
  PROVE  AccountInv'
<1>. DEFINE a == desk[p].ask
            d == [desk[p] EXCEPT !.at = "pointNew"]
<1>1. CASE Leave(p) /\ UNCHANGED <<users, had>>
  BY <1>1, LeaveOK DEF InsertManager, Unwritten, AccountInv
<1>2. CASE To(p, "pointNew") /\ PutUser(a.id, a.set)
  <2>1. a.op = "create" /\ desk[p].at = "insert" /\ DeskOK(p)
    BY DEF InsertManager, At, AccountInv
  <2>2. a \in AccountAsks /\ a.id \in Accounts /\ a.set \in User /\ desk[p] \in Desk
    BY <2>1, AskedFor
  <2>3. a.set.name # None /\ a.set.zone \in Zones
    BY <2>1, <2>2, AskAssumption DEF DeskOK
  <2>4. desk' = [desk EXCEPT ![p] = d] /\ d \in Desk /\ d.ask = a /\ desk'[p] = d /\ d.at = "pointNew"
    BY <1>2, <2>2 DEF To, AccountInv, DesksOK, Desk, DeskAt
  <2>5. DeskOK(p)'
    BY <2>1, <2>3, <2>4 DEF DeskOK
  <2>. QED
    BY <1>2, <2>2, <2>3, <2>4, <2>5, DeskStores DEF InsertManager
<1>. QED
  BY <1>1, <1>2 DEF InsertManager

LEMMA PointNewOK ==
  ASSUME AccountInv, NEW p \in Desks, PointNew(p), UNCHANGED active
  PROVE  AccountInv'
<1>1. desk[p].ask.id \in Accounts
  BY AskedFor DEF PointNew, At
<1>2. Unwritten
  BY <1>1 DEF PointNew, Unwritten, AccountInv
<1>. QED
  BY <1>2, LeaveOK DEF PointNew

LEMMA UnpointZoneOK ==
  ASSUME AccountInv, NEW p \in Desks, UnpointZone(p), UNCHANGED active
  PROVE  AccountInv'
<1>1. Unwritten
  BY DEF UnpointZone, Unwritten, AccountInv
<1>2. PICK at \in {"save", "point"} : To(p, at)
  BY DEF UnpointZone
<1>3. desk'[p].ask = desk[p].ask /\ desk'[p].at = at
  BY <1>2 DEF To, AccountInv, DesksOK, Desk
<1>4. DeskOK(p)'
  BY <1>3, <1>1 DEF DeskOK, UnpointZone, At, AccountInv, Exists, Unwritten
<1>. QED
  BY <1>1, <1>2, <1>4, ToOK DEF DeskAt

LEMMA PointZoneOK ==
  ASSUME AccountInv, NEW p \in Desks, PointZone(p), UNCHANGED active
  PROVE  AccountInv'
<1>1. desk[p].ask.id \in Accounts
  BY AskedFor DEF PointZone, At
<1>2. Unwritten
  BY <1>1 DEF PointZone, Unwritten, AccountInv
<1>3. desk'[p].ask = desk[p].ask /\ desk'[p].at = "save"
  BY DEF PointZone, To, AccountInv, DesksOK, Desk
<1>4. DeskOK(p)'
  BY <1>3, <1>2 DEF DeskOK, PointZone, At, AccountInv, Exists, Unwritten
<1>. QED
  BY <1>2, <1>4, ToOK DEF DeskAt, PointZone

LEMMA ReadAccountOK ==
  ASSUME AccountInv, NEW p \in Desks, ReadAccount(p, active), UNCHANGED active
  PROVE  AccountInv'
<1>. DEFINE a == desk[p].ask
<1>1. Unwritten
  BY DEF ReadAccount, Unwritten, AccountInv
<1>2. CASE Leave(p)
  BY <1>1, <1>2, LeaveOK
<1>3. ASSUME NEW at \in {"unpoint", "point", "save"}, Exists(a.id),
             a.op = "update" /\ "zone" \in a.fields => a.set.zone \in active,
             desk' = [desk EXCEPT ![p].doc = users[a.id], ![p].at = at]
      PROVE  AccountInv'
  <2>. DEFINE d == [desk[p] EXCEPT !.doc = users[a.id], !.at = at]
  <2>1. a \in AccountAsks /\ a.id \in Accounts /\ desk[p] \in Desk /\ users[a.id] \in User
    BY AskedFor DEF ReadAccount, At, AccountInv
  <2>2. d \in Desk /\ d.ask = a /\ d.at = at
    BY <2>1 DEF Desk, DeskAt
  <2>3. desk' = [desk EXCEPT ![p] = d] /\ desk'[p] = d
    BY <1>3 DEF AccountInv, DesksOK
  <2>4. DeskOK(p)'
    BY <1>1, <1>3, <2>2, <2>3 DEF DeskOK, Exists, Unwritten, AccountInv
  <2>. QED
    BY <1>1, <2>1, <2>2, <2>3, <2>4, DeskMoves
<1>. QED
  BY <1>2, <1>3 DEF ReadAccount

LEMMA SaveAccountOK ==
  ASSUME AccountInv, NEW p \in Desks, SaveAccount(p), UNCHANGED active
  PROVE  AccountInv'
<1>. DEFINE a == desk[p].ask
            new == Changed(a, desk[p].doc)
            doc == SavedUser(a.id, desk[p].doc, new)
<1>1. Unwritten \/ PutUser(a.id, doc)
  BY DEF SaveAccount, Unwritten, AccountInv
<1>2. CASE Unwritten
  BY <1>2, LeaveOK DEF SaveAccount
<1>3. CASE PutUser(a.id, doc)
  <2>1. a \in AccountAsks /\ a.id \in Accounts /\ a.set \in User /\ desk[p].doc \in User
    BY AskedFor DEF SaveAccount, At
  <2>2. a.op # "create" /\ DeskOK(p) /\ desk[p].at = "save" /\ a.op \in {"update", "delete", "language"}
    BY DEF SaveAccount, At, AccountInv
  <2>3. /\ new \in User /\ new.role = desk[p].doc.role
        /\ "name" \in a.fields \/ new.name = desk[p].doc.name
        /\ \A f \in UserFields : new[f] # desk[p].doc[f] =>
             IF a.op = "delete" THEN f = "active" ELSE f \in a.fields /\ new[f] = a.set[f]
    BY <2>1, <2>2, ChangedUser
  <2>4. users \in [Accounts -> User] /\ users[a.id] \in User
    BY <2>1 DEF AccountInv
  <2>5. /\ doc \in User
        /\ \A f \in UserFields : doc[f] = IF new[f] # desk[p].doc[f] THEN new[f] ELSE users[a.id][f]
    BY <2>1, <2>3, <2>4, SavedIsUser
  <2>6. "name" \in UserFields /\ "zone" \in UserFields /\ "role" \in UserFields
    BY DEF UserFields
  <2>7. doc.role = users[a.id].role
    BY <2>3, <2>5, <2>6
  <2>8. Exists(a.id) /\ Placed(a.id)
    BY <2>1, <2>2 DEF DeskOK, AccountInv
  <2>9. doc.name # None
    BY <2>1, <2>3, <2>5, <2>6, <2>8, AskAssumption DEF Exists
  <2>10. doc.role = "RESPONSABLE_ZONE" => doc.zone \in Zones
    <3>1. CASE new.zone = desk[p].doc.zone
      BY <3>1, <2>5, <2>6, <2>7, <2>8 DEF Placed
    <3>2. CASE new.zone # desk[p].doc.zone
      <4>1. a.op # "delete" /\ "zone" \in a.fields /\ new.zone = a.set.zone
        BY <3>2, <2>3, <2>6
      <4>2. a.op = "update"
        BY <4>1, <2>1, <2>2, AskAssumption
      <4>. QED
        BY <3>2, <4>1, <4>2, <2>2, <2>5, <2>6 DEF DeskOK
    <3>. QED
      BY <3>1, <3>2
  <2>11. desk' = [desk EXCEPT ![p] = AtEntrance] /\ desk'[p] = AtEntrance
    BY DEF SaveAccount, Leave, AccountInv, DesksOK
  <2>12. DeskOK(p)'
    BY <2>11, Entrance DEF DeskOK
  <2>. QED
    BY <1>3, <2>1, <2>5, <2>9, <2>10, <2>11, <2>12, Entrance, DeskStores DEF SaveAccount
<1>. QED
  BY <1>1, <1>2, <1>3

LEMMA AuthenticateOK ==
  ASSUME AccountInv, NEW p \in Desks, Authenticate(p), UNCHANGED active
  PROVE  AccountInv'
<1>1. Unwritten
  BY DEF Authenticate, Unwritten, AccountInv
<1>2. CASE Leave(p)
  BY <1>1, <1>2, LeaveOK
<1>3. ASSUME NEW u \in Accounts, users[u].active,
             desk' = [desk EXCEPT ![p].at = "sign", ![p].doc = users[u], ![p].who = u]
      PROVE  AccountInv'
  <2>. DEFINE d == [desk[p] EXCEPT !.at = "sign", !.doc = users[u], !.who = u]
  <2>1. desk[p].ask \in AccountAsks /\ desk[p] \in Desk /\ users[u] \in User
    BY AskedFor DEF Authenticate, At, AccountInv
  <2>2. d \in Desk /\ d.ask = desk[p].ask /\ d.at = "sign" /\ d.doc = users[u] /\ d.who = u
    BY <2>1 DEF Desk, DeskAt
  <2>3. desk' = [desk EXCEPT ![p] = d] /\ desk'[p] = d
    BY <1>3 DEF AccountInv, DesksOK
  <2>4. users[u].role = "RESPONSABLE_ZONE" => users[u].zone \in had[u]
    BY <1>3, AccountAssumption DEF AccountInv, Placed, Managing
  <2>5. DeskOK(p)'
    BY <1>1, <2>2, <2>3, <2>4 DEF DeskOK, Unwritten
  <2>. QED
    BY <1>1, <2>1, <2>2, <2>3, <2>5, DeskMoves
<1>. QED
  BY <1>2, <1>3 DEF Authenticate

LEMMA SignOK ==
  ASSUME AccountInv, NEW p \in Desks, Sign(p), UNCHANGED active
  PROVE  AccountInv'
<1>. DEFINE doc == desk[p].doc
            t == [user |-> desk[p].who, role |-> doc.role, zone |-> EffectiveZone(desk[p].ask, doc)]
<1>1. doc \in User /\ desk[p].who \in Accounts
  BY AskedFor DEF Sign, At
<1>2. t \in Token /\ (t.role = "RESPONSABLE_ZONE" => t.zone \in had[t.user])
  BY <1>1 DEF Token, EffectiveZone, User, Sign, At, AccountInv, DeskOK
<1>3. tokens' = tokens \cup {t} /\ UNCHANGED <<users, manager, rooms, had, active>>
  BY DEF Sign
<1>4. desk' = [desk EXCEPT ![p] = AtEntrance] /\ DesksOK'
  BY Entrance DEF Sign, Leave, AccountInv, DesksOK
<1>5. \A q \in Desks : desk'[q] = desk[q] \/ desk'[q] = AtEntrance
  BY <1>4 DEF AccountInv, DesksOK
<1>6. \A q \in Desks : DeskOK(q)'
  BY <1>3, <1>5, Entrance DEF AccountInv, DeskOK, Exists
<1>7. TokensAreOwn'
  BY <1>2, <1>3 DEF AccountInv, TokensAreOwn
<1>. QED
  BY <1>2, <1>3, <1>4, <1>6, <1>7 DEF AccountInv, Placed, Exists, Managing

LEMMA ConnectOK ==
  ASSUME AccountInv, Connect, UNCHANGED active
  PROVE  AccountInv'
<1>1. PICK t \in tokens :
        rooms' = rooms \cup {<<t.user, IF t.role = "ADMIN" THEN <<"admin", None>> ELSE <<"zone", t.zone>> >>}
  BY DEF Connect
<1>2. UNCHANGED <<users, manager, desk, tokens, had>>
  BY DEF Connect
<1>3. t \in Token /\ (t.role # "ADMIN" => t.zone \in had[t.user] /\ t.zone \in Zones)
  BY DEF AccountInv, TokensAreOwn, Token
<1>4. rooms' \subseteq Accounts \X Room
  BY <1>1, <1>3 DEF AccountInv, Room, Token
<1>5. TokensAreOwn'
  BY <1>1, <1>2, <1>3 DEF AccountInv, TokensAreOwn
<1>. QED
  BY <1>2, <1>4, <1>5 DEF AccountInv, DesksOK, DeskOK, Placed, Exists, Managing

LEMMA AccountStepOK == AccountInv /\ [Next]_vars => AccountInv'
<1>. SUFFICES ASSUME AccountInv, [Next]_vars PROVE AccountInv'
  OBVIOUS
<1>1. CASE UNCHANGED <<accountVars, active>>
  BY <1>1 DEF accountVars, AccountInv, DesksOK, DeskOK, Placed, Exists, Managing, TokensAreOwn
<1>2. ASSUME NEW p \in Desks, DeskStep(p, active), UNCHANGED active PROVE AccountInv'
  BY <1>2, CheckNewOK, InsertManagerOK, PointNewOK, ReadAccountOK, UnpointZoneOK, PointZoneOK,
     SaveAccountOK, AuthenticateOK, SignOK DEF DeskStep
<1>3. CASE Connect /\ UNCHANGED active
  BY <1>3, ConnectOK
<1>4. CASE AccountRequest
  BY <1>4, AskOK DEF AccountRequest
<1>5. CASE DeactivateZone
  BY <1>5 DEF DeactivateZone, accountVars, AccountInv, DesksOK, DeskOK, Placed, Exists, Managing,
              TokensAreOwn
<1>6. CASE ProcessDies
  <2>1. \A p \in Desks : desk'[p] = AtEntrance
    BY <1>6 DEF ProcessDies, LoseRequests
  <2>2. DesksOK' /\ \A p \in Desks : DeskOK(p)'
    BY <1>6, <2>1, Entrance DEF DesksOK, DeskOK, ProcessDies, LoseRequests
  <2>. QED
    BY <1>6, <2>2 DEF ProcessDies, LoseRequests, AccountInv, Placed, Exists, Managing, TokensAreOwn
<1>. QED
  BY <1>1, <1>2, <1>3, <1>4, <1>5, <1>6 DEF Next, AccountNext, vars

THEOREM AccountsSound == Spec => []AccountInv
BY AccountInitOK, AccountStepOK, PTL DEF Spec

(* No login, however the requests interleave and the process dies, gives an  *)
(* account a token or a room for a zone it has never actively managed        *)
(* (AuthService.login, WebsocketBroadcastGateway.handleConnection).          *)
THEOREM TokensStayOwn == Spec => []TokensAreOwn
<1>1. AccountInv => TokensAreOwn
  BY DEF AccountInv
<1>. QED
  BY <1>1, AccountsSound, PTL

-----------------------------------------------------------------------------
(* Overlapping updates.                                                       *)

LEMMA StepsKeepFields ==
  ASSUME AccountInv, [Next]_vars, NEW u \in Accounts, NEW f \in UserFields,
         users'[u][f] # users[u][f]
  PROVE  \E p \in Desks : AsksFor(p, u, f)
<1>1. CASE UNCHANGED users
  BY <1>1
<1>2. ASSUME NEW p \in Desks, InsertManager(p) PROVE AsksFor(p, u, f)
  <2>1. desk[p].ask.id = u
    BY <1>2 DEF InsertManager, PutUser, AccountInv
  <2>. QED
    BY <1>2, <2>1 DEF InsertManager, At, AsksFor
<1>3. ASSUME NEW p \in Desks, SaveAccount(p) PROVE AsksFor(p, u, f)
  <2>. DEFINE a == desk[p].ask
              new == Changed(a, desk[p].doc)
              doc == SavedUser(a.id, desk[p].doc, new)
  <2>1. a.id = u /\ users'[u] = doc /\ desk[p].at = "save" /\ a.op \in {"update", "delete", "language"}
    BY <1>3 DEF SaveAccount, PutUser, AccountInv, At
  <2>2. a \in AccountAsks /\ desk[p].doc \in User
    BY <2>1, AskedFor
  <2>3. /\ new \in User
        /\ new[f] # desk[p].doc[f] => IF a.op = "delete" THEN f = "active" ELSE f \in a.fields
    BY <2>1, <2>2, ChangedUser
  <2>4. doc[f] = IF new[f] # desk[p].doc[f] THEN new[f] ELSE users[u][f]
    BY <2>1, <2>2, <2>3, SavedIsUser DEF AccountInv
  <2>. QED
    BY <2>1, <2>3, <2>4 DEF AsksFor
<1>. QED
  BY <1>1, <1>2, <1>3 DEF Next, AccountNext, DeskStep, vars, accountVars, AccountRequest, Ask,
     DeactivateZone, ProcessDies, Connect, CheckNew, PointNew, ReadAccount, UnpointZone, PointZone,
     Authenticate, Sign

(* A password, an activation, a zone or a language changes only in a step of *)
(* a request that asks for it, whatever other requests on the account read   *)
(* before it (UsersService: findById, assign, save).                         *)
THEOREM FieldsStay == Spec => FieldsAreKept
<1>1. DOMAIN NoUser = UserFields
  BY UserDomain
<1>2. AccountInv /\ [Next]_vars =>
        [\A u \in Accounts : \A f \in DOMAIN NoUser :
           users'[u][f] # users[u][f] => \E p \in Desks : AsksFor(p, u, f)]_accountVars
  BY <1>1, StepsKeepFields
<1>. QED
  BY <1>2, AccountsSound, PTL DEF Spec, FieldsAreKept

-----------------------------------------------------------------------------
(* From an event to its handler.                                              *)

\* What is enqueued for a delivery.
LevelsOf(d) == IF d.from = "rest" THEN Normalized(d.name, d.level) ELSE FromUpstream(d.levels)

LEMMA LeastOne == \A n \in Int : Min({n}) = n
BY DEF Min

\* The wrapper of the websocket client bears the wrapper's name and no explicit one.
LEMMA WrapperName ==
  ASSUME NEW w, w = [EmptyLevel EXCEPT !.names.event = "external.event"]
  PROVE  NameOn(w) = "external.event" /\ w.names.eventType = NoName
<1>. DEFINE given == {i \in DOMAIN Keys : w.names[Keys[i]] # NoName}
<1>1. w.names = [type |-> NoName, eventType |-> NoName, event |-> "external.event", queue |-> NoName]
  BY DEF EmptyLevel, NoNames
<1>2. DOMAIN Keys = 1..4 /\ Keys[1] = "type" /\ Keys[2] = "eventType" /\ Keys[3] = "event" /\ Keys[4] = "queue"
  BY DEF Keys
<1>3. NoName # "external.event"
  BY DeliveryAssumption
<1>4. given = {3}
  BY <1>1, <1>2, <1>3
<1>5. NameOn(w) = w.names[Keys[3]]
  BY <1>4, LeastOne DEF NameOn
<1>. QED
  BY <1>1, <1>2, <1>5

LEMMA RestIsRouted ==
  ASSUME NEW name \in Kinds, NEW level
  PROVE  EventType(Normalized(name, level)) = name
<1>1. Normalized(name, level)[1].names.eventType = name
  BY DEF Normalized, EmptyLevel, NoNames
<1>. QED
  BY <1>1, DeliveryAssumption DEF EventType, KindOf, Allowed

LEMMA UpstreamIsRouted ==
  ASSUME NEW b, NEW c, c # EmptyLevel, NameOn(b) \in Kinds
  PROVE  EventType(FromUpstream(<<b, c>>)) = NameOn(b)
<1>. DEFINE w == [EmptyLevel EXCEPT !.names.event = "external.event"]
            whole == FromUpstream(<<b, c>>)
<1>1. Len(whole) = 3 /\ whole[1] = w /\ whole[2] = b /\ whole[3] = c /\ Unwrap(whole)[1] = b
  <2>1. whole = <<w>> \o <<b, c>>
    BY DEF FromUpstream
  <2>. HIDE DEF w, whole
  <2>. QED
    BY <2>1 DEF Unwrap
<1>2. NameOn(w) = "external.event" /\ w.names.eventType = NoName
  BY WrapperName
<1>3. NoName \notin Kinds /\ NoName # "external.event"
  BY DeliveryAssumption DEF Allowed
<1>. HIDE DEF w, whole
<1>4. Envelope(whole).meta = whole
  BY <1>1, <1>2, <1>3 DEF Envelope
<1>5. ResolveEventType(whole) = KindOf(NameOn(b))
  BY <1>1, <1>2, <1>3 DEF ResolveEventType
<1>6. EventType(whole) = NameOn(b)
  BY <1>1, <1>2, <1>3, <1>4, <1>5 DEF EventType, KindOf
<1>. QED
  BY <1>6 DEF whole

\* The names a payload carries under the same keys do not matter.
LEMMA SentIsRouted ==
  ASSUME NEW d \in Deliveries, d.kind # NoName
  PROVE  EventType(LevelsOf(d)) = d.kind
<1>1. d.kind \in Kinds /\ d.from \in {"rest", "upstream"}
  BY DeliveryAssumption
<1>2. CASE d.from = "rest"
  BY <1>1, <1>2, DeliveryAssumption, RestIsRouted DEF LevelsOf
<1>3. CASE d.from = "upstream"
  BY <1>1, <1>3, DeliveryAssumption, UpstreamIsRouted DEF LevelsOf
<1>. QED
  BY <1>1, <1>2, <1>3

-----------------------------------------------------------------------------
(* Complaints.                                                                *)

JobLevels == {LevelsOf(d) : d \in Deliveries}
Made == 0..(MaxAttempts - 1)
Queued == {q \in [event : Deliveries, levels : JobLevels, made : Made, stalls : {0, 1}] :
             q.levels = LevelsOf(q.event)}
Underhand == [at : JobAt, event : Deliveries \cup {Nobody}, levels : JobLevels \cup {<< >>},
              made : Made, stalls : {0, 1}, client : Clients \cup {Nobody}, zone : Somewhere]
Sending == [at : {"idle", "enqueue"}, event : Deliveries \cup {Nobody}, tries : 0..MaxTries]
Serving == [at : CounterAt, ask : CounterAsks \cup {Nobody}, zone : Somewhere, oid : Nat]
ToAudit == [report : Reports, oid : Nat, place : Places]

Worked == {"findContract", "findZone", "upsert", "notify"}

\* The handler of complaints is at work on complaints only.
JobOK ==
  /\ job \in Underhand
  /\ job.at # "idle" => job.event \in Deliveries /\ job.levels = LevelsOf(job.event)
  /\ job.at \in Worked => Handler(job.levels) = "reclamations.new"

SendersOK ==
  /\ sending \in [Senders -> Sending]
  /\ \A s \in Senders : sending[s].at = "enqueue" =>
                          sending[s].event \in Deliveries /\ sending[s].event.from = "rest"

CountersOK ==
  /\ counter \in [Counters -> Serving]
  /\ \A c \in Counters : counter[c].at # "idle" => counter[c].ask \in CounterAsks

StoredOK ==
  /\ complaints \in [Reports -> Complaint]
  /\ \A r \in Reports : complaints[r].live => complaints[r].place \in Places
  /\ notices \subseteq Notice /\ lost \subseteq Reports /\ audit \subseteq ToAudit
  /\ home \in [Clients -> Somewhere] /\ drawn \in [Places -> Somewhere]
  /\ sent \in 0..MaxSent /\ faults \in 0..MaxFaults

Told(r) == \E n \in Inbox(complaints[r].found) :
  n.about = r /\ n.event = "RECLAMATION_NEW" /\ n.to = Addressee(complaints[r].found)

Telling(q, r) == q.event.report = r /\ Handler(q.levels) = "reclamations.new"
OneTells(jobs, r) == \E i \in DOMAIN jobs : Telling(jobs[i], r)

\* A job that will tell of complaint r, unless it fails: one that waits, or the one the
\* worker is at, if it tells the zone its handler found last.
Handled(r) ==
  \/ OneTells(queue, r)
  \/ /\ job.at # "idle" /\ job.event.report = r
     /\ \/ job.at = "route" /\ Handler(job.levels) = "reclamations.new"
        \/ job.at \in Worked \ {"notify"}
        \/ job.at = "notify" /\ job.zone = complaints[r].found

ToldOrHandled == \A r \in Reports :
  complaints[r].live /\ complaints[r].by = "event" /\ r \notin lost => Told(r) \/ Handled(r)

ComplaintInv ==
  /\ queue \in Seq(Queued)
  /\ JobOK /\ SendersOK /\ CountersOK /\ StoredOK
  /\ ToldOrHandled

LEMMA QueueAppends ==
  ASSUME NEW jobs \in Seq(Queued), NEW q \in Queued
  PROVE  /\ Append(jobs, q) \in Seq(Queued)
         /\ \A r : OneTells(jobs, r) \/ Telling(q, r) => OneTells(Append(jobs, q), r)
<1>1. /\ Append(jobs, q) \in Seq(Queued) /\ Len(Append(jobs, q)) = Len(jobs) + 1
      /\ \A i \in 1..Len(jobs) : Append(jobs, q)[i] = jobs[i]
      /\ Append(jobs, q)[Len(jobs) + 1] = q
  OBVIOUS
<1>2. DOMAIN jobs = 1..Len(jobs) /\ DOMAIN Append(jobs, q) = 1..(Len(jobs) + 1) /\ Len(jobs) \in Nat
  BY <1>1
<1>. QED
  BY <1>1, <1>2 DEF OneTells

LEMMA QueueTakes ==
  ASSUME NEW jobs \in Seq(Queued), jobs # << >>
  PROVE  /\ Tail(jobs) \in Seq(Queued) /\ Head(jobs) \in Queued
         /\ \A r : OneTells(jobs, r) => OneTells(Tail(jobs), r) \/ Telling(Head(jobs), r)
<1>1. /\ Tail(jobs) \in Seq(Queued) /\ Head(jobs) \in Queued /\ Head(jobs) = jobs[1]
      /\ Len(jobs) \in Nat /\ Len(Tail(jobs)) = Len(jobs) - 1
      /\ DOMAIN jobs = 1..Len(jobs) /\ DOMAIN Tail(jobs) = 1..(Len(jobs) - 1)
      /\ \A i \in 1..(Len(jobs) - 1) : Tail(jobs)[i] = jobs[i + 1]
  OBVIOUS
<1>2. ASSUME NEW r, NEW i \in DOMAIN jobs, Telling(jobs[i], r)
      PROVE  OneTells(Tail(jobs), r) \/ Telling(Head(jobs), r)
  <2>1. CASE i = 1
    BY <1>1, <1>2, <2>1
  <2>2. CASE i # 1
    <3>1. i - 1 \in DOMAIN Tail(jobs) /\ Tail(jobs)[i - 1] = jobs[i]
      BY <1>1, <2>2
    <3>. QED
      BY <3>1, <1>2 DEF OneTells
  <2>. QED
    BY <2>1, <2>2
<1>. QED
  BY <1>1, <1>2 DEF OneTells

LEMMA QueuePushes ==
  ASSUME NEW jobs \in Seq(Queued), NEW q \in Queued
  PROVE  /\ <<q>> \o jobs \in Seq(Queued)
         /\ \A r : OneTells(jobs, r) \/ Telling(q, r) => OneTells(<<q>> \o jobs, r)
<1>. DEFINE longer == <<q>> \o jobs
<1>1. <<q>> \in Seq(Queued) /\ Len(<<q>>) = 1 /\ <<q>>[1] = q
  OBVIOUS
<1>2. /\ longer \in Seq(Queued) /\ Len(longer) = 1 + Len(jobs) /\ Len(jobs) \in Nat
      /\ longer[1] = q /\ \A i \in 1..Len(jobs) : longer[i + 1] = jobs[i]
  BY <1>1
<1>3. DOMAIN jobs = 1..Len(jobs) /\ DOMAIN longer = 1..(Len(jobs) + 1)
  BY <1>2
<1>4. ASSUME NEW r, NEW i \in DOMAIN jobs, Telling(jobs[i], r) PROVE OneTells(longer, r)
  <2>1. i + 1 \in DOMAIN longer /\ longer[i + 1] = jobs[i]
    BY <1>2, <1>3
  <2>. QED
    BY <2>1, <1>4 DEF OneTells
<1>5. 1 \in DOMAIN longer
  BY <1>2, <1>3
<1>. HIDE DEF longer
<1>6. \A r : OneTells(jobs, r) \/ Telling(q, r) => OneTells(longer, r)
  BY <1>2, <1>4, <1>5 DEF OneTells
<1>. QED
  BY <1>2, <1>6 DEF longer

\* A complaint that was told of stays so, while what its handler found last does.
LEMMA StaysTold ==
  ASSUME NEW r \in Reports, Told(r), notices \subseteq notices',
         complaints'[r].found = complaints[r].found
  PROVE  Told(r)'
BY DEF Told, Inbox

LEMMA IdleIsUnderhand == IdleJob \in Underhand /\ IdleJob.at = "idle" /\ IdleJob.stalls = 0
BY ComplaintAssumption DEF IdleJob, Underhand, JobAt, Made, Somewhere

LEMMA ComplaintInitOK == Init => ComplaintInv
<1>. SUFFICES ASSUME Init PROVE ComplaintInv
  OBVIOUS
<1>. USE DEF Init, ComplaintInit
<1>1. queue \in Seq(Queued)
  OBVIOUS
<1>2. JobOK
  BY IdleIsUnderhand DEF JobOK, Worked
<1>3. SendersOK /\ CountersOK
  BY ComplaintAssumption DEF SendersOK, CountersOK, NotSending, CounterFree, Sending, Serving,
     CounterAt, Somewhere
<1>4. NoComplaint \in Complaint /\ ~NoComplaint.live
  BY DEF NoComplaint, Complaint, Somewhere
<1>5. MaxSent \in Nat /\ MaxFaults \in Nat
  BY ComplaintAssumption
<1>6. StoredOK /\ ToldOrHandled
  BY <1>4, <1>5, PlacesAssumption DEF StoredOK, ToldOrHandled
<1>. QED
  BY <1>1, <1>2, <1>3, <1>6 DEF ComplaintInv

\* A step of somebody else's leaves every complaint as told of as it was.
LEMMA OthersStep ==
  ASSUME ComplaintInv, UNCHANGED <<job, complaints, notices, lost>>,
         \A r : OneTells(queue, r) => OneTells(queue', r)
  PROVE  JobOK' /\ ToldOrHandled'
<1>1. \A r \in Reports : Told(r) => Told(r)'
  BY StaysTold
<1>2. \A r \in Reports : Handled(r) => Handled(r)'
  BY DEF Handled
<1>. QED
  BY <1>1, <1>2 DEF ComplaintInv, JobOK, ToldOrHandled

LEMMA CountedOK ==
  /\ Begin /\ sent \in 0..MaxSent => sent' \in 0..MaxSent
  /\ Fault /\ faults \in 0..MaxFaults => faults' \in 0..MaxFaults
BY ComplaintAssumption DEF Begin, Fault

LEMMA PostEventOK ==
  ASSUME ComplaintInv, NEW s \in Senders, PostEvent(s)
  PROVE  ComplaintInv'
<1>1. PICK d \in Deliveries :
        d.from = "rest" /\ sending' = [sending EXCEPT ![s] = [at |-> "enqueue", event |-> d, tries |-> 1]]
  BY DEF PostEvent
<1>2. SendersOK'
  BY <1>1, ComplaintAssumption DEF ComplaintInv, SendersOK, Sending
<1>3. UNCHANGED <<queue, job, complaints, notices, lost, counter, home, drawn, audit, faults>> /\ Begin
  BY DEF PostEvent
<1>4. StoredOK' /\ CountersOK'
  BY <1>3, CountedOK DEF ComplaintInv, StoredOK, CountersOK
<1>. QED
  BY <1>2, <1>3, <1>4, OthersStep DEF ComplaintInv

\* What a sender puts on the queue.
LEMMA EnqueuedOK ==
  ASSUME ComplaintInv, NEW s \in Senders, sending[s].at = "enqueue"
  PROVE  Enqueued(s) \in Seq(Queued) /\ \A r : OneTells(queue, r) => OneTells(Enqueued(s), r)
<1>. DEFINE d == sending[s].event
            q == NewJob(d, Normalized(d.name, d.level))
<1>1. d \in Deliveries /\ Normalized(d.name, d.level) = LevelsOf(d)
  BY DEF ComplaintInv, SendersOK, LevelsOf
<1>2. q \in Queued
  BY <1>1, ComplaintAssumption DEF NewJob, AJob, Queued, JobLevels, Made
<1>3. Enqueued(s) = Append(queue, q)
  BY DEF Enqueued
<1>. HIDE DEF q
<1>. QED
  BY <1>2, <1>3, QueueAppends DEF ComplaintInv

LEMMA EnqueueWithRetryOK ==
  ASSUME ComplaintInv, NEW s \in Senders, EnqueueWithRetry(s)
  PROVE  ComplaintInv'
<1>1. queue' = Enqueued(s) /\ sending' = [sending EXCEPT ![s] = NotSending] /\ sending[s].at = "enqueue"
      /\ UNCHANGED <<job, complaints, notices, lost, counter, home, drawn, audit, sent, faults>>
  BY DEF EnqueueWithRetry
<1>2. SendersOK'
  BY <1>1, ComplaintAssumption DEF ComplaintInv, SendersOK, Sending, NotSending
<1>3. StoredOK' /\ CountersOK'
  BY <1>1 DEF ComplaintInv, StoredOK, CountersOK
<1>. QED
  BY <1>1, <1>2, <1>3, OthersStep, EnqueuedOK DEF ComplaintInv

LEMMA EnqueueThrowsOK ==
  ASSUME ComplaintInv, NEW s \in Senders, EnqueueThrows(s)
  PROVE  ComplaintInv'
<1>1. queue' \in {queue, Enqueued(s)} /\ sending[s].at = "enqueue" /\ Fault
      /\ UNCHANGED <<job, complaints, notices, lost, counter, home, drawn, audit, sent>>
  BY DEF EnqueueThrows
<1>2. SendersOK'
  <2>1. NotSending \in Sending /\ NotSending.at = "idle" /\ sending[s] \in Sending
    BY ComplaintAssumption DEF Sending, NotSending, ComplaintInv, SendersOK
  <2>. DEFINE more == [sending[s] EXCEPT !.tries = sending[s].tries + 1]
  <2>2. sending[s].tries < MaxTries => more \in Sending /\ more.event = sending[s].event
    BY <2>1, ComplaintAssumption DEF Sending
  <2>3. sending' \in [Senders -> Sending] /\ \A o \in Senders \ {s} : sending'[o] = sending[o]
    BY <2>1, <2>2 DEF EnqueueThrows, ComplaintInv, SendersOK
  <2>4. sending'[s] = IF sending[s].tries < MaxTries THEN more ELSE NotSending
    BY DEF EnqueueThrows, ComplaintInv, SendersOK
  <2>. QED
    BY <1>1, <2>1, <2>2, <2>3, <2>4 DEF ComplaintInv, SendersOK
<1>3. StoredOK' /\ CountersOK'
  BY <1>1, CountedOK DEF ComplaintInv, StoredOK, CountersOK
<1>. QED
  BY <1>1, <1>2, <1>3, OthersStep, EnqueuedOK DEF ComplaintInv

LEMMA UpstreamEventOK ==
  ASSUME ComplaintInv, UpstreamEvent
  PROVE  ComplaintInv'
<1>1. UNCHANGED <<job, sending, complaints, notices, lost, counter, home, drawn, audit>> /\ Begin
      /\ (faults' = faults \/ Fault)
  BY DEF UpstreamEvent
<1>2. queue' \in Seq(Queued) /\ \A r : OneTells(queue, r) => OneTells(queue', r)
  <2>1. CASE queue' = queue
    BY <2>1 DEF ComplaintInv
  <2>2. ASSUME NEW d \in Deliveries, d.from = "upstream",
               queue' = Append(queue, NewJob(d, FromUpstream(d.levels)))
        PROVE  queue' \in Seq(Queued) /\ \A r : OneTells(queue, r) => OneTells(queue', r)
    <3>. DEFINE q == NewJob(d, FromUpstream(d.levels))
    <3>1. FromUpstream(d.levels) = LevelsOf(d)
      BY <2>2 DEF LevelsOf
    <3>2. q \in Queued
      BY <3>1, ComplaintAssumption DEF NewJob, AJob, Queued, JobLevels, Made
    <3>3. queue' = Append(queue, q)
      BY <2>2
    <3>. HIDE DEF q
    <3>. QED
      BY <3>2, <3>3, QueueAppends DEF ComplaintInv
  <2>. QED
    BY <2>1, <2>2 DEF UpstreamEvent
<1>3. StoredOK' /\ CountersOK' /\ SendersOK'
  BY <1>1, CountedOK DEF ComplaintInv, StoredOK, CountersOK, SendersOK
<1>. QED
  BY <1>1, <1>2, <1>3, OthersStep DEF ComplaintInv

\* A step of the worker that stores nothing.
LEMMA WorkerMoves ==
  ASSUME ComplaintInv, JobOK', queue' \in Seq(Queued),
         UNCHANGED <<sending, complaints, notices, lost, counter, home, drawn, audit, sent, faults>>,
         \A r \in Reports : Handled(r) => Handled(r)'
  PROVE  ComplaintInv'
<1>1. \A r \in Reports : Told(r) => Told(r)'
  BY StaysTold
<1>2. ToldOrHandled'
  BY <1>1 DEF ComplaintInv, ToldOrHandled
<1>. QED
  BY <1>2 DEF ComplaintInv, StoredOK, SendersOK, CountersOK

\* What the job at hand asks for.
LEMMA JobFacts ==
  ASSUME ComplaintInv
  PROVE  /\ job \in Underhand
         /\ job.at # "idle" => job.event \in Deliveries /\ job.event.report \in Reports
                               /\ job.event.client \in Clients \cup {Nobody} /\ job.event.place \in Places
                               /\ job.levels = LevelsOf(job.event) /\ job.levels \in JobLevels
BY DeliveryAssumption DEF ComplaintInv, JobOK, JobLevels

LEMMA TakeOK ==
  ASSUME ComplaintInv, Take
  PROVE  ComplaintInv'
<1>1. job.at = "idle" /\ queue # << >> /\ queue' = Tail(queue) /\ queue \in Seq(Queued)
  BY DEF Take, ComplaintInv
<1>2. queue' \in Seq(Queued) /\ Head(queue) \in Queued
  BY <1>1, QueueTakes
<1>3. /\ job'.at = "route" /\ job'.event = Head(queue).event /\ job'.levels = Head(queue).levels
      /\ job' \in Underhand
  BY <1>2, IdleIsUnderhand DEF Take, Underhand, Queued, JobAt
<1>4. JobOK'
  BY <1>2, <1>3 DEF JobOK, Queued, Worked
<1>5. ASSUME NEW r \in Reports, Handled(r) PROVE Handled(r)'
  <2>1. OneTells(queue', r) \/ Telling(Head(queue), r)
    BY <1>1, <1>5, QueueTakes DEF Handled
  <2>. QED
    BY <2>1, <1>3 DEF Handled, Telling
<1>. QED
  BY <1>2, <1>4, <1>5, WorkerMoves DEF Take

LEMMA RouteOK ==
  ASSUME ComplaintInv, Route
  PROVE  ComplaintInv'
<1>1. job.at = "route" /\ UNCHANGED queue /\ job \in Underhand
  BY DEF Route, JobGo, OnlyJob, ComplaintInv, JobOK
<1>2. /\ job' \in Underhand /\ job'.event = job.event /\ job'.levels = job.levels
      /\ job'.at = IF Handler(job.levels) = "reclamations.new" THEN "findContract" ELSE "complete"
  BY <1>1 DEF Route, JobGo, Underhand, JobAt
<1>3. JobOK'
  BY <1>1, <1>2 DEF ComplaintInv, JobOK, Worked
<1>4. \A r \in Reports : Handled(r) => Handled(r)'
  BY <1>1, <1>2 DEF Handled, Worked
<1>. QED
  BY <1>1, <1>3, <1>4, WorkerMoves DEF Route, OnlyJob, ComplaintInv

LEMMA FindContractOK ==
  ASSUME ComplaintInv, FindContract
  PROVE  ComplaintInv'
<1>1. job.at = "findContract" /\ UNCHANGED queue /\ home \in [Clients -> Somewhere] /\ Nobody \in Somewhere
  BY DEF FindContract, OnlyJob, ComplaintInv, StoredOK, Somewhere
<1>2. /\ job' \in Underhand /\ job'.event = job.event /\ job'.levels = job.levels
      /\ job'.at = "findZone"
  BY <1>1, JobFacts DEF FindContract, Underhand, JobAt
<1>3. JobOK'
  BY <1>1, <1>2 DEF ComplaintInv, JobOK, Worked
<1>4. \A r \in Reports : Handled(r) => Handled(r)'
  BY <1>1, <1>2 DEF Handled, Worked
<1>. QED
  BY <1>1, <1>3, <1>4, WorkerMoves DEF FindContract, OnlyJob, ComplaintInv

LEMMA FindZoneOK ==
  ASSUME ComplaintInv, FindZone
  PROVE  ComplaintInv'
<1>1. job.at = "findZone" /\ UNCHANGED queue /\ drawn \in [Places -> Somewhere]
  BY DEF FindZone, OnlyJob, ComplaintInv, StoredOK
<1>2. /\ job' \in Underhand /\ job'.event = job.event /\ job'.levels = job.levels
      /\ job'.at = "upsert"
  BY <1>1, JobFacts DEF FindZone, Underhand, JobAt
<1>3. JobOK'
  BY <1>1, <1>2 DEF ComplaintInv, JobOK, Worked
<1>4. \A r \in Reports : Handled(r) => Handled(r)'
  BY <1>1, <1>2 DEF Handled, Worked
<1>. QED
  BY <1>1, <1>3, <1>4, WorkerMoves DEF FindZone, OnlyJob, ComplaintInv

LEMMA CompleteOK ==
  ASSUME ComplaintInv, Complete
  PROVE  ComplaintInv'
<1>1. job.at = "complete" /\ UNCHANGED queue /\ job' = IdleJob
  BY DEF Complete, OnlyJob
<1>2. JobOK'
  BY <1>1, IdleIsUnderhand DEF JobOK, Worked
<1>3. \A r \in Reports : Handled(r) => Handled(r)'
  BY <1>1 DEF Handled, Worked
<1>. QED
  BY <1>1, <1>2, <1>3, WorkerMoves DEF Complete, OnlyJob, ComplaintInv

LEMMA UpsertOK ==
  ASSUME ComplaintInv, Upsert
  PROVE  ComplaintInv'
<1>. DEFINE x == job.event.report
            old == complaints[x]
            new == complaints'[x]
<1>1. job.at = "upsert" /\ job \in Underhand /\ x \in Reports /\ old \in Complaint
      /\ job.event.place \in Places
      /\ UNCHANGED <<queue, sending, notices, lost, counter, home, drawn, audit, sent, faults>>
  BY JobFacts DEF Upsert, JobGo, ComplaintInv, StoredOK
<1>2. /\ job' \in Underhand /\ job'.at = "notify" /\ job'.zone = job.zone
      /\ job'.event = job.event /\ job'.levels = job.levels
  BY <1>1 DEF Upsert, JobGo, Underhand, JobAt
<1>3. /\ new = [live |-> TRUE, oid |-> IF old.live THEN old.oid ELSE old.oid + 1,
                zone |-> IF job.zone = Nobody THEN old.zone ELSE job.zone, found |-> job.zone,
                client |-> IF job.client = Nobody THEN old.client ELSE job.client,
                place |-> job.event.place, by |-> IF old.live THEN old.by ELSE "event"]
      /\ complaints' = [complaints EXCEPT ![x] = new]
  BY <1>1 DEF Upsert, ComplaintInv, StoredOK
<1>4. new \in Complaint /\ new.place \in Places /\ new.found = job.zone
  BY <1>1, <1>3 DEF Complaint, Underhand
<1>5. /\ complaints' \in [Reports -> Complaint]
      /\ \A r \in Reports \ {x} : complaints'[r] = complaints[r]
  BY <1>3, <1>4 DEF ComplaintInv, StoredOK
<1>. HIDE DEF new
<1>6. StoredOK'
  BY <1>1, <1>4, <1>5 DEF ComplaintInv, StoredOK, new
<1>7. JobOK' /\ SendersOK' /\ CountersOK'
  BY <1>1, <1>2 DEF ComplaintInv, JobOK, Worked, SendersOK, CountersOK
<1>8. ASSUME NEW r \in Reports, r = x PROVE Handled(r)'
  BY <1>2, <1>4, <1>8 DEF Handled, new
<1>9. ASSUME NEW r \in Reports \ {x} PROVE (Told(r) => Told(r)') /\ (Handled(r) => Handled(r)')
  <2>1. complaints'[r].found = complaints[r].found
    BY <1>5
  <2>2. Told(r) => Told(r)'
    BY <1>1, <2>1, StaysTold
  <2>. QED
    BY <1>1, <1>2, <2>1, <2>2 DEF Handled, Worked
<1>10. ToldOrHandled'
  <2>. SUFFICES ASSUME NEW r \in Reports, complaints'[r].live, complaints'[r].by = "event", r \notin lost'
                PROVE  Told(r)' \/ Handled(r)'
    BY DEF ToldOrHandled
  <2>1. CASE r = x
    BY <2>1, <1>8
  <2>2. CASE r # x
    BY <2>2, <1>1, <1>5, <1>9 DEF ComplaintInv, ToldOrHandled
  <2>. QED
    BY <2>1, <2>2
<1>. QED
  BY <1>1, <1>6, <1>7, <1>10 DEF ComplaintInv

LEMMA NotifyOK ==
  ASSUME ComplaintInv, Notify
  PROVE  ComplaintInv'
<1>. DEFINE x == job.event.report
            told == [to |-> Addressee(job.zone), zone |-> job.zone, about |-> x,
                     event |-> "RECLAMATION_NEW"]
<1>1. job.at = "notify" /\ job \in Underhand /\ x \in Reports
      /\ UNCHANGED <<queue, sending, complaints, lost, counter, home, drawn, audit, sent, faults>>
      /\ notices' = notices \cup {told}
  BY JobFacts DEF Notify, JobGo, Tell
<1>2. job' \in Underhand /\ job'.at = "complete" /\ job'.event = job.event /\ job'.levels = job.levels
  BY <1>1 DEF Notify, JobGo, Underhand, JobAt
<1>3. told \in Notice
  BY <1>1 DEF Notice, Underhand, Addressee, Everyone, AdminOnly, Somewhere
<1>4. StoredOK' /\ JobOK' /\ SendersOK' /\ CountersOK'
  BY <1>1, <1>2, <1>3 DEF ComplaintInv, StoredOK, JobOK, Worked, SendersOK, CountersOK
<1>5. ASSUME NEW r \in Reports, Handled(r) PROVE Told(r)' \/ Handled(r)'
  <2>1. CASE OneTells(queue, r)
    BY <1>1, <2>1 DEF Handled
  <2>2. CASE r = x /\ job.zone = complaints[r].found
    <3>1. told \in Inbox(complaints[r].found)'
      BY <1>1, <2>2 DEF Inbox
    <3>2. told.about = r /\ told.event = "RECLAMATION_NEW" /\ told.to = Addressee(complaints'[r].found)
      BY <1>1, <2>2
    <3>. QED
      BY <3>1, <3>2 DEF Told
  <2>. QED
    BY <1>1, <1>5, <2>1, <2>2 DEF Handled, Worked
<1>6. ToldOrHandled'
  BY <1>1, <1>5, StaysTold DEF ComplaintInv, ToldOrHandled
<1>. QED
  BY <1>1, <1>4, <1>6 DEF ComplaintInv

LEMMA JobThrowsOK ==
  ASSUME ComplaintInv, JobThrows
  PROVE  ComplaintInv'
<1>. DEFINE q == AJob(job.event, job.levels, job.made + 1, job.stalls)
            again == job.made + 1 < MaxAttempts
<1>1. job.at \in Worked /\ job' = IdleJob /\ Fault
      /\ UNCHANGED <<sending, complaints, notices, counter, home, drawn, audit, sent>>
      /\ (again => queue' = Append(queue, q) /\ lost' = lost)
      /\ (~again => queue' = queue /\ lost' = lost \cup {job.event.report})
  BY DEF JobThrows, Worked
<1>2. /\ job.event \in Deliveries /\ job.event.report \in Reports
      /\ job.levels = LevelsOf(job.event) /\ job.levels \in JobLevels
      /\ job.made \in Made /\ job.stalls \in {0, 1} /\ Handler(job.levels) = "reclamations.new"
  BY <1>1, JobFacts DEF Worked, Underhand, ComplaintInv, JobOK
<1>3. again => q \in Queued /\ Telling(q, job.event.report)
  <2>1. again => job.made + 1 \in Made
    BY <1>2, ComplaintAssumption DEF Made
  <2>. QED
    BY <1>2, <2>1 DEF Queued, Telling, AJob
<1>. HIDE DEF q
<1>4. /\ queue' \in Seq(Queued)
      /\ \A r : OneTells(queue, r) \/ (again /\ r = job.event.report) => OneTells(queue', r)
  BY <1>1, <1>3, QueueAppends DEF ComplaintInv
<1>5. JobOK' /\ SendersOK' /\ CountersOK'
  BY <1>1, IdleIsUnderhand DEF ComplaintInv, JobOK, Worked, SendersOK, CountersOK
<1>6. StoredOK'
  BY <1>1, <1>2, CountedOK DEF ComplaintInv, StoredOK
<1>7. ASSUME NEW r \in Reports, Handled(r), r \notin lost' PROVE Handled(r)'
  <2>1. CASE OneTells(queue, r)
    BY <2>1, <1>4 DEF Handled
  <2>2. CASE job.event.report = r
    BY <2>2, <1>1, <1>4, <1>7 DEF Handled
  <2>. QED
    BY <1>7, <2>1, <2>2 DEF Handled
<1>8. ToldOrHandled'
  BY <1>1, <1>7, StaysTold DEF ComplaintInv, ToldOrHandled
<1>. QED
  BY <1>4, <1>5, <1>6, <1>8 DEF ComplaintInv

LEMMA CrashOK ==
  ASSUME ComplaintInv, Crash
  PROVE  ComplaintInv'
<1>. DEFINE q == AJob(job.event, job.levels, job.made, 1)
            first == job.at # "idle" /\ job.stalls = 0
<1>1. job' = IdleJob /\ Fault /\ UNCHANGED <<complaints, notices, home, drawn, sent>> /\ audit' = {}
      /\ sending' = [s \in Senders |-> NotSending] /\ counter' = [c \in Counters |-> CounterFree]
      /\ (first => queue' = <<q>> \o queue) /\ (~first => queue' = queue)
      /\ lost' = IF job.at # "idle" /\ job.stalls = 1 THEN lost \cup {job.event.report} ELSE lost
  BY DEF Crash
<1>2. /\ job.at # "idle" => /\ job.event \in Deliveries /\ job.event.report \in Reports
                            /\ job.levels = LevelsOf(job.event) /\ job.levels \in JobLevels
      /\ job.made \in Made /\ job.stalls \in {0, 1}
      /\ job.at \in Worked => Handler(job.levels) = "reclamations.new"
  BY <1>1, JobFacts DEF Underhand, ComplaintInv, JobOK
<1>3. first => /\ q \in Queued
               /\ \A r : Handler(job.levels) = "reclamations.new" /\ job.event.report = r => Telling(q, r)
  BY <1>2 DEF AJob, Queued, Telling
<1>. HIDE DEF q
<1>4. /\ queue' \in Seq(Queued)
      /\ \A r : \/ OneTells(queue, r)
                \/ first /\ Handler(job.levels) = "reclamations.new" /\ r = job.event.report
                => OneTells(queue', r)
  BY <1>1, <1>3, QueuePushes DEF ComplaintInv
<1>5. JobOK'
  BY <1>1, IdleIsUnderhand DEF JobOK, Worked
<1>6. SendersOK' /\ CountersOK'
  BY <1>1, ComplaintAssumption DEF SendersOK, CountersOK, NotSending, CounterFree, Sending, Serving,
     CounterAt, Somewhere
<1>7. StoredOK'
  BY <1>1, <1>2, CountedOK DEF ComplaintInv, StoredOK
<1>8. ASSUME NEW r \in Reports, Handled(r), r \notin lost' PROVE Handled(r)'
  <2>1. CASE OneTells(queue, r)
    BY <2>1, <1>4 DEF Handled
  <2>2. CASE job.at # "idle" /\ job.event.report = r /\ Handler(job.levels) = "reclamations.new"
    BY <2>2, <1>1, <1>2, <1>4, <1>8 DEF Handled
  <2>. QED
    BY <1>2, <1>8, <2>1, <2>2 DEF Handled, Worked
<1>9. ToldOrHandled'
  BY <1>1, <1>8, StaysTold DEF ComplaintInv, ToldOrHandled
<1>. QED
  BY <1>4, <1>5, <1>6, <1>7, <1>9 DEF ComplaintInv

\* A step that changes complaints, but none an event stored that is there afterwards, and
\* perhaps tells of some.
LEMMA CounterMoves ==
  ASSUME ComplaintInv, UNCHANGED <<queue, job, sending, lost, home, drawn>>, CountersOK',
         complaints' \in [Reports -> Complaint], notices \subseteq notices', notices' \subseteq Notice,
         audit' \subseteq ToAudit, sent' \in 0..MaxSent, faults' \in 0..MaxFaults,
         \A r \in Reports : complaints'[r].live =>
           /\ complaints'[r].place \in Places
           /\ complaints'[r].by = "event" => /\ complaints[r].live /\ complaints[r].by = "event"
                                             /\ complaints'[r].found = complaints[r].found
  PROVE  ComplaintInv'
<1>1. JobOK' /\ SendersOK' /\ StoredOK' /\ queue' \in Seq(Queued)
  BY DEF ComplaintInv, JobOK, SendersOK, StoredOK
<1>2. ASSUME NEW r \in Reports, complaints'[r].live, complaints'[r].by = "event", r \notin lost'
      PROVE  Told(r)' \/ Handled(r)'
  <2>1. complaints[r].live /\ complaints[r].by = "event" /\ complaints'[r].found = complaints[r].found
    BY <1>2
  <2>2. Told(r) \/ Handled(r)
    BY <1>2, <2>1 DEF ComplaintInv, ToldOrHandled
  <2>3. Told(r) => Told(r)'
    BY <2>1, StaysTold
  <2>4. Handled(r) => Handled(r)'
    BY <2>1 DEF Handled
  <2>. QED
    BY <2>2, <2>3, <2>4
<1>3. ToldOrHandled'
  BY <1>2 DEF ToldOrHandled
<1>. QED
  BY <1>1, <1>3 DEF ComplaintInv

\* What a request at the counter asks for.
LEMMA CounterFacts ==
  ASSUME ComplaintInv, NEW c \in Counters, counter[c].at # "idle"
  PROVE  LET a == counter[c].ask IN
         /\ counter[c] \in Serving /\ a.report \in Reports /\ a.place \in Places
         /\ a.client \in Clients \cup {Nobody} /\ a.by \in {"ADMIN", "SERVICE_CLIENT"}
BY CounterAssumption DEF ComplaintInv, CountersOK

LEMMA FreeIsServing == CounterFree \in Serving /\ CounterFree.at = "idle"
BY ComplaintAssumption DEF CounterFree, Serving, CounterAt, Somewhere

LEMMA ServedOK ==
  ASSUME ComplaintInv, NEW c \in Counters, counter[c].at # "idle",
         NEW next \in CounterAt, Served(c, next)
  PROVE  CountersOK'
<1>1. counter \in [Counters -> Serving] /\ counter[c].ask \in CounterAsks
  BY DEF ComplaintInv, CountersOK
<1>. DEFINE on == [counter[c] EXCEPT !.at = next]
<1>2. on \in Serving /\ on.ask = counter[c].ask
  BY <1>1 DEF Serving
<1>. HIDE DEF on
<1>3. counter' = [counter EXCEPT ![c] = on] \/ counter' = [counter EXCEPT ![c] = CounterFree]
  BY <1>1 DEF Served, on
<1>. QED
  BY <1>1, <1>2, <1>3, FreeIsServing DEF ComplaintInv, CountersOK

LEMMA OpenCounterOK ==
  ASSUME ComplaintInv, NEW c \in Counters, OpenCounter(c)
  PROVE  ComplaintInv'
<1>1. PICK a \in CounterAsks :
        counter' = [counter EXCEPT ![c] =
          IF a.op = "delete"
          THEN [at |-> "erase", ask |-> a, zone |-> complaints[a.report].zone,
                oid |-> complaints[a.report].oid]
          ELSE [at |-> "create", ask |-> a, oid |-> 0,
                zone |-> IF a.zone # Nobody THEN a.zone
                         ELSE IF a.client # Nobody /\ home[a.client] # Nobody THEN home[a.client]
                         ELSE drawn[a.place]]]
  BY DEF OpenCounter
<1>2. Begin /\ UNCHANGED <<complaints, notices>> /\ OnlyCounter
  BY DEF OpenCounter
<1>3. /\ complaints[a.report] \in Complaint /\ a.zone \in Somewhere /\ drawn[a.place] \in Somewhere
      /\ a.client # Nobody => home[a.client] \in Somewhere
  BY CounterAssumption DEF ComplaintInv, StoredOK
<1>4. CountersOK'
  <2>1. counter'[c] \in Serving /\ counter'[c].ask \in CounterAsks
    BY <1>1, <1>3 DEF Serving, Complaint, CounterAt, ComplaintInv, CountersOK
  <2>2. counter' \in [Counters -> Serving] /\ \A o \in Counters \ {c} : counter'[o] = counter[o]
    BY <1>1, <2>1 DEF ComplaintInv, CountersOK
  <2>. QED
    BY <2>1, <2>2 DEF ComplaintInv, CountersOK
<1>. QED
  BY <1>2, <1>4, CountedOK, CounterMoves DEF OnlyCounter, ComplaintInv, StoredOK

LEMMA CreateReclamationOK ==
  ASSUME ComplaintInv, NEW c \in Counters, CreateReclamation(c)
  PROVE  ComplaintInv'
<1>. DEFINE a == counter[c].ask
            x == a.report
            new == [live |-> TRUE, oid |-> complaints[x].oid + 1, zone |-> counter[c].zone,
                    found |-> counter[c].zone, client |-> a.client, place |-> a.place, by |-> a.by]
<1>1. counter[c].at = "create" /\ UNCHANGED <<notices, sent>> /\ OnlyCounter
      /\ x \in Reports /\ a.place \in Places /\ a.client \in Clients \cup {Nobody}
      /\ a.by \in {"ADMIN", "SERVICE_CLIENT"} /\ counter[c].zone \in Somewhere
  BY CounterFacts DEF CreateReclamation, Serving
<1>2. CASE Served(c, "idle") /\ UNCHANGED complaints
  <2>1. CountersOK'
    BY <1>1, <1>2, ServedOK DEF CounterAt
  <2>. QED
    BY <1>1, <1>2, <2>1, CounterMoves DEF OnlyCounter, ComplaintInv, StoredOK
<1>3. CASE Served(c, "tellAdmin") /\ complaints' = [complaints EXCEPT ![x] = new]
  <2>1. CountersOK'
    BY <1>1, <1>3, ServedOK DEF CounterAt
  <2>2. complaints[x] \in Complaint
    BY <1>1 DEF ComplaintInv, StoredOK
  <2>3. new \in Complaint /\ new.place \in Places /\ new.by # "event"
    BY <1>1, <2>2 DEF Complaint
  <2>. HIDE DEF new
  <2>4. /\ complaints' \in [Reports -> Complaint] /\ complaints'[x] = new
        /\ \A r \in Reports \ {x} : complaints'[r] = complaints[r]
    BY <1>1, <1>3, <2>3 DEF ComplaintInv, StoredOK
  <2>. QED
    BY <1>1, <2>1, <2>3, <2>4, CounterMoves DEF OnlyCounter, ComplaintInv, StoredOK
<1>. QED
  BY <1>2, <1>3 DEF CreateReclamation

LEMMA DeleteReclamationOK ==
  ASSUME ComplaintInv, NEW c \in Counters, DeleteReclamation(c)
  PROVE  ComplaintInv'
<1>. DEFINE x == counter[c].ask.report
            none == [NoComplaint EXCEPT !.oid = counter[c].oid]
<1>1. counter[c].at = "erase" /\ UNCHANGED <<notices, sent>> /\ OnlyCounter
      /\ x \in Reports /\ counter[c].oid \in Nat /\ Served(c, "tellAdmin")
  BY CounterFacts DEF DeleteReclamation, Serving
<1>2. CountersOK'
  BY <1>1, ServedOK DEF CounterAt
<1>3. none \in Complaint /\ ~none.live
  BY <1>1 DEF NoComplaint, Complaint, Somewhere
<1>. HIDE DEF none
<1>4. complaints' = [complaints EXCEPT ![x] = none] \/ complaints' = [complaints EXCEPT ![x] = complaints[x]]
  BY DEF DeleteReclamation, none
<1>5. /\ complaints' \in [Reports -> Complaint]
      /\ \A r \in Reports : complaints'[r] = complaints[r] \/ complaints'[r] = none
  BY <1>1, <1>3, <1>4 DEF ComplaintInv, StoredOK
<1>. QED
  BY <1>1, <1>2, <1>3, <1>5, CounterMoves DEF OnlyCounter, ComplaintInv, StoredOK

LEMMA TellsOK ==
  ASSUME ComplaintInv, NEW c \in Counters, TellAdmin(c) \/ TellZone(c)
  PROVE  ComplaintInv'
<1>1. counter[c] \in Serving /\ counter[c].ask.report \in Reports /\ counter[c].at # "idle"
  BY CounterFacts DEF TellAdmin, TellZone
<1>2. CountersOK'
  BY <1>1, ServedOK DEF TellAdmin, TellZone, CounterAt
<1>3. \A z \in Somewhere, e \in {"RECLAMATION_NEW", "RECLAMATION_DELETE"} :
        \A t \in {AdminOnly, Addressee(z)} :
        [to |-> t, zone |-> z, about |-> counter[c].ask.report, event |-> e] \in Notice
  BY <1>1 DEF Notice, Addressee, Everyone, AdminOnly, Somewhere
<1>4. notices \subseteq notices' /\ notices' \subseteq Notice
  BY <1>1, <1>3 DEF TellAdmin, TellZone, Tell, EventOf, Serving, ComplaintInv, StoredOK
<1>. QED
  BY <1>2, <1>4, CounterMoves DEF TellAdmin, TellZone, OnlyCounter, ComplaintInv, StoredOK

LEMMA StartAuditOK ==
  ASSUME ComplaintInv, StartAudit
  PROVE  ComplaintInv'
<1>1. audit' \subseteq ToAudit
  BY DEF StartAudit, ToAudit, ComplaintInv, StoredOK, Complaint
<1>2. CountersOK'
  BY DEF StartAudit, ComplaintInv, CountersOK
<1>. QED
  BY <1>1, <1>2, CounterMoves DEF StartAudit, ComplaintInv, StoredOK

LEMMA AuditComplaintOK ==
  ASSUME ComplaintInv, AuditComplaint
  PROVE  ComplaintInv'
<1>1. PICK a \in audit :
        /\ audit' \subseteq audit
        /\ \/ UNCHANGED complaints
           \/ complaints' = [complaints EXCEPT ![a.report].zone = drawn[a.place]]
  BY DEF AuditComplaint
<1>2. UNCHANGED <<queue, job, sending, notices, lost, counter, home, drawn, sent, faults>>
  BY DEF AuditComplaint
<1>3. a.report \in Reports /\ drawn[a.place] \in Somewhere /\ complaints[a.report] \in Complaint
  BY DEF ComplaintInv, StoredOK, ToAudit
<1>. DEFINE new == [complaints[a.report] EXCEPT !.zone = drawn[a.place]]
<1>4. /\ new \in Complaint /\ new.live = complaints[a.report].live /\ new.by = complaints[a.report].by
      /\ new.found = complaints[a.report].found /\ new.place = complaints[a.report].place
  BY <1>3 DEF Complaint
<1>5. complaints' = complaints \/ complaints' = [complaints EXCEPT ![a.report] = new]
  BY <1>1
<1>. HIDE DEF new
<1>6. /\ complaints' \in [Reports -> Complaint]
      /\ \A r \in Reports : complaints'[r] = complaints[r] \/ (r = a.report /\ complaints'[r] = new)
  BY <1>3, <1>4, <1>5 DEF ComplaintInv, StoredOK
<1>7. CountersOK' /\ audit' \subseteq ToAudit
  BY <1>1, <1>2 DEF ComplaintInv, CountersOK, StoredOK
<1>. QED
  BY <1>2, <1>4, <1>6, <1>7, CounterMoves DEF ComplaintInv, StoredOK

LEMMA NetworkMovesOK ==
  ASSUME ComplaintInv, NetworkMoves
  PROVE  ComplaintInv'
<1>1. UNCHANGED <<queue, job, sending, complaints, notices, lost, counter, audit, faults>> /\ Begin
  BY DEF NetworkMoves
<1>2. home' \in [Clients -> Somewhere] /\ drawn' \in [Places -> Somewhere]
  BY DEF NetworkMoves, ComplaintInv, StoredOK
<1>3. StoredOK' /\ SendersOK' /\ CountersOK'
  BY <1>1, <1>2, CountedOK DEF ComplaintInv, StoredOK, SendersOK, CountersOK
<1>. QED
  BY <1>1, <1>3, OthersStep DEF ComplaintInv

\* The accounts' requests count in the bound of what is begun, and nothing else.
LEMMA RequestCounts ==
  ASSUME ComplaintInv, Begin,
         UNCHANGED <<queue, job, sending, complaints, notices, lost, counter, home, drawn, audit, faults>>
  PROVE  ComplaintInv'
<1>1. StoredOK' /\ SendersOK' /\ CountersOK'
  BY CountedOK DEF ComplaintInv, StoredOK, SendersOK, CountersOK
<1>. QED
  BY <1>1, OthersStep DEF ComplaintInv

LEMMA ComplaintStepOK == ComplaintInv /\ [Next]_vars => ComplaintInv'
<1>. SUFFICES ASSUME ComplaintInv, [Next]_vars PROVE ComplaintInv'
  OBVIOUS
<1>1. CASE UNCHANGED complaintVars
  <2>1. StoredOK' /\ SendersOK' /\ CountersOK'
    BY <1>1 DEF complaintVars, ComplaintInv, StoredOK, SendersOK, CountersOK
  <2>. QED
    BY <1>1, <2>1, OthersStep DEF complaintVars, ComplaintInv
<1>2. CASE ComplaintNext
  <2>1. ASSUME NEW s \in Senders, PostEvent(s) \/ EnqueueWithRetry(s) \/ EnqueueThrows(s)
        PROVE  ComplaintInv'
    BY <2>1, PostEventOK, EnqueueWithRetryOK, EnqueueThrowsOK
  <2>2. ASSUME WorkerStep PROVE ComplaintInv'
    BY <2>2, TakeOK, RouteOK, FindContractOK, FindZoneOK, UpsertOK, NotifyOK, CompleteOK DEF WorkerStep
  <2>3. ASSUME NEW c \in Counters, OpenCounter(c) \/ CounterStep(c) PROVE ComplaintInv'
    BY <2>3, OpenCounterOK, CreateReclamationOK, DeleteReclamationOK, TellsOK DEF CounterStep
  <2>. QED
    BY <1>2, <2>1, <2>2, <2>3, UpstreamEventOK, JobThrowsOK, StartAuditOK, AuditComplaintOK,
       NetworkMovesOK DEF ComplaintNext
<1>3. CASE AccountRequest
  BY <1>3, RequestCounts DEF AccountRequest
<1>4. CASE DeactivateZone
  BY <1>4, RequestCounts DEF DeactivateZone
<1>5. CASE ProcessDies
  BY <1>5, CrashOK DEF ProcessDies
<1>. QED
  BY <1>1, <1>2, <1>3, <1>4, <1>5 DEF Next, AccountNext, vars

THEOREM ComplaintsSound == Spec => []ComplaintInv
BY ComplaintInitOK, ComplaintStepOK, PTL DEF Spec

(* No retry, redelivery, crash, deletion or audit, in any order, leaves a    *)
(* complaint an event stored untold, or told only where a first attempt      *)
(* looked (DomainEventHandlerService: upsert, then notify, at each attempt). *)
THEOREM ComplaintsGetTold == Spec => []ComplaintsAreTold
<1>1. ASSUME NEW r \in Reports, Handled(r) PROVE Underway(r)
  BY <1>1 DEF Handled, Underway, OneTells, Telling, Worked
<1>2. ComplaintInv => ComplaintsAreTold
  BY <1>1 DEF ComplaintInv, ToldOrHandled, ComplaintsAreTold, Told
<1>. QED
  BY <1>2, ComplaintsSound, PTL

(* However a payload names things, resolveEventType finds the name the       *)
(* sender gave an event, for every payload, at every attempt.                *)
THEOREM EventsAreRouted == Spec => []RoutedAsSent
<1>1. ComplaintInv => RoutedAsSent
  <2>. SUFFICES ASSUME ComplaintInv, NEW i \in DOMAIN queue, queue[i].event.kind # NoName
                PROVE  EventType(queue[i].levels) = queue[i].event.kind
    BY DEF RoutedAsSent
  <2>1. queue[i] \in Queued
    BY DEF ComplaintInv
  <2>. QED
    BY <2>1, SentIsRouted DEF Queued
<1>. QED
  BY <1>1, ComplaintsSound, PTL

(* Every document, request, job and notice has the fields it should.         *)
THEOREM HelpdeskTypeCorrect == Spec => []TypeOK
<1>1. AccountInv => AccountType /\ active \subseteq Zones
  BY DEF AccountInv, AccountType, DesksOK, Desk
<1>2. ComplaintInv => ComplaintType
  <2>. SUFFICES ASSUME ComplaintInv PROVE ComplaintType
    OBVIOUS
  <2>1. \A i \in DOMAIN queue : queue[i].event \in Deliveries /\ queue[i].made < MaxAttempts
                                /\ queue[i].stalls <= 1
    <3>1. \A i \in DOMAIN queue : queue[i] \in Queued
      BY DEF ComplaintInv
    <3>. QED
      BY <3>1, ComplaintAssumption DEF Queued, Made
  <2>2. job.at \in JobAt /\ job.zone \in Somewhere /\ job.client \in Clients \cup {Nobody}
    BY JobFacts DEF Underhand
  <2>3. \A s \in Senders : sending[s].at \in {"idle", "enqueue"} /\ sending[s].tries \in 0..MaxTries
    BY DEF ComplaintInv, SendersOK, Sending
  <2>4. \A c \in Counters : counter[c].at \in CounterAt /\ counter[c].zone \in Somewhere
    BY DEF ComplaintInv, CountersOK, Serving
  <2>5. \A a \in audit : a.report \in Reports /\ a.oid \in Nat
    BY DEF ComplaintInv, StoredOK, ToAudit
  <2>. QED
    BY <2>1, <2>2, <2>3, <2>4, <2>5 DEF ComplaintInv, StoredOK, ComplaintType
<1>. QED
  BY <1>1, <1>2, AccountsSound, ComplaintsSound, PTL DEF TypeOK
=============================================================================
