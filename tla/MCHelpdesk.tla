------------------------------ MODULE MCHelpdesk ------------------------------
(***************************************************************************)
(* Values for checking Helpdesk: one manager in the first of two zones and *)
(* a candidate for either, one customer, complaints that come by each way  *)
(* in, and events nobody handles.                                          *)
(***************************************************************************)
EXTENDS Helpdesk

CONSTANTS z1, z2, boss, ann, bob, e0, e1, e2, w0, w1, w2, r1, r2, k1, p1

Hired(name, email, password, zone) ==
  [NoUser EXCEPT !.name = name, !.email = email, !.password = password, !.active = TRUE,
                 !.zone = zone]
OneManager == [u \in Accounts |->
  CASE u = boss -> [Hired(boss, e0, w0, None) EXCEPT !.role = "ADMIN"]
    [] u = ann -> Hired(ann, e1, w1, z1)
    [] OTHER -> NoUser]

HomeInOne == [k \in Clients |-> z1]
DrawnNowhere == [k \in Places |-> None]

AskFor(op, u, set, fields) == [op |-> op, id |-> u, set |-> set, fields |-> fields]
AllAccountAsks ==
  {AskFor("create", bob, Hired(bob, e2, w2, z1), {}),
   AskFor("create", bob, Hired(bob, e1, w2, z2), {}),
   AskFor("update", ann, Hired(ann, e1, w1, z2), {"zone"}),
   AskFor("update", ann, [Hired(ann, e2, w2, z1) EXCEPT !.active = FALSE],
          {"email", "password", "active"}),
   AskFor("update", ann, Hired(ann, e1, w1, z1), {"zone", "active"}),
   AskFor("delete", ann, NoUser, {}),
   AskFor("language", ann, [NoUser EXCEPT !.lang = "ar"], {"lang"}),
   AskFor("login", ann, Hired(ann, e1, w1, z2), {})}

Complaining == [EmptyLevel EXCEPT !.names.type = "panne",
                  !.fields = {"id", "latitude", "longitude", "cin"}]
From(way, kind, levels, report, client) ==
  [from |-> way, name |-> "reclamations.new", direct |-> TRUE, level |-> Complaining,
   levels |-> levels, kind |-> kind, report |-> report, client |-> client, place |-> p1]
Wrapped == <<[EmptyLevel EXCEPT !.names.event = "reclamations.new"], Complaining>>
Flat == <<[Complaining EXCEPT !.names.eventType = "reclamations.new"]>>
AllDeliveries ==
  {From("rest", "reclamations.new", << >>, r1, k1),
   From("upstream", "reclamations.new", Wrapped, r1, Nobody),
   From("upstream", NoName, Flat, r2, Nobody),
   [From("rest", NoName, << >>, r2, Nobody) EXCEPT !.name = "fdt.update", !.direct = FALSE],
   [From("rest", NoName, << >>, r2, Nobody) EXCEPT !.level = EmptyLevel]}

CounterAsk(op, zone, by) ==
  [op |-> op, report |-> r1, client |-> k1, place |-> p1, by |-> by, zone |-> zone]
AllCounterAsks ==
  {CounterAsk("create", Nobody, "SERVICE_CLIENT"), CounterAsk("create", z2, "ADMIN"),
   CounterAsk("delete", Nobody, "SERVICE_CLIENT")}
=============================================================================
