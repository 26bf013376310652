---------------------------- MODULE MCNetworkAdmin ----------------------------
(***************************************************************************)
(* Values for checking NetworkAdmin: two zones, one tree of centrale, NRO, *)
(* FDT and contract in the first, a refused contract whose zone was never  *)
(* found, and payloads that rebuild the tree, move it to the other zone,   *)
(* add a second NRO, rename a contract or clash with one.                  *)
(***************************************************************************)
EXTENDS NetworkAdmin

CONSTANTS z1, z2, k1, n1, n2, f1, c1, c2, c3, x1, p1, t1, t2

AllInPlaceOne == [c \in Contracts |-> p1]

TreeInZoneOne == [k \in Ids |->
  CASE k = z1 -> [active |-> TRUE, covers |-> {p1}]
    [] k = z2 -> [active |-> TRUE, covers |-> {}]
    [] k = k1 -> [live |-> TRUE, oid |-> 1, zone |-> z1, cap |-> 2]
    [] k = n1 -> [NoNro EXCEPT !.live = TRUE, !.region = IdOf(z1), !.centrale = <<k1, 1>>,
                               !.max = 2, !.gb = 2, !.load = 1, !.used = 1, !.fdts = 1]
    [] k = f1 -> [NoFdt EXCEPT !.live = TRUE, !.region = IdOf(z1), !.nro = n1, !.total = 2,
                               !.ports = 1, !.clients = 1]
    [] k = c1 -> [live |-> TRUE, status |-> "ACTIVE", zone |-> z1, nro |-> n1, fdt |-> f1,
                  gb |-> 1, phone |-> t1]
    [] k = c2 -> [NoContract EXCEPT !.live = TRUE, !.status = "FAILED", !.gb = 1, !.phone = t2]
    [] k \in Nros -> NoNro
    [] k \in Contracts -> NoContract
    [] OTHER -> NoFiber]

Blank == [geom |-> "Point", kind |-> "", prefix |-> "", has |-> {}, inside |-> TRUE, name |-> None,
          id |-> None, centrale |-> None, nro |-> None, fdt |-> None, gb |-> 2, phone |-> None,
          status |-> "ACTIVE", covers |-> {}]
Polygon(z, where) == [Blank EXCEPT !.geom = "Polygon", !.name = z, !.covers = where]
Centrale(k) == [Blank EXCEPT !.prefix = "CO-", !.id = k]
NroUnder(n, k) == [Blank EXCEPT !.kind = "nro", !.id = n, !.centrale = k]
FdtUnder(f, n) == [Blank EXCEPT !.has = {"nroId"}, !.id = f, !.nro = n]
\* This one names its NRO as well, like an FDT does.
ContractOn(c, f, n, t) ==
  [Blank EXCEPT !.has = {"nroId", "phone", "bandwidth"}, !.id = c, !.fdt = f, !.nro = n, !.phone = t,
                !.gb = 1]

\* The children come first in the file.
Tree == << z1, <<ContractOn(c1, f1, n1, t1), FdtUnder(f1, n1), NroUnder(n1, k1),
                 Centrale(k1), Polygon(z1, {})>> >>
Moved == << z2, <<Polygon(z2, {p1}), NroUnder(n1, None), FdtUnder(f1, n1),
                  ContractOn(c3, f1, None, t2)>> >>
Cancelled(c, f, n, t) == [ContractOn(c, f, n, t) EXCEPT !.status = "CANCELLED"]
Second == << z1, <<NroUnder(n2, None), Cancelled(c2, f1, None, t2), ContractOn(c3, f1, None, t1)>> >>
Clash == << z1, <<NroUnder(n2, k1), ContractOn(c2, f1, None, t1)>> >>
Invalid == << z2, <<ContractOn(c2, f1, None, t2), ContractOn(c3, f1, None, t2)>> >>

AllPayloads == {Tree, Moved, Second, Clash, Invalid}
TwoImporters == 1..2
Admin == {[role |-> "ADMIN", zone |-> None], [role |-> "RESPONSABLE_ZONE", zone |-> z2]}

Ask(op, by, id) == [op |-> op, by |-> by, id |-> id, zone |-> z1, region |-> IdOf(z1),
                    centrale |-> k1, nro |-> n1, gb |-> 3, used |-> 1, status |-> "DOWN",
                    active |-> FALSE]
Office == "SERVICE_CLIENT"
AllRequests ==
  {Ask("zone.update", "ADMIN", z2), Ask("zone.remove", "ADMIN", z1),
   Ask("centrale.create", Office, k1), [Ask("centrale.update", "ADMIN", k1) EXCEPT !.zone = z2],
   Ask("centrale.delete", Office, k1), Ask("nro.create", Office, n2),
   [Ask("nro.update", "ADMIN", n1) EXCEPT !.region = IdOf(z2)], Ask("nro.remove", Office, n1),
   Ask("fdt.create", Office, f1),
   [Ask("fdt.create", "ADMIN", f1) EXCEPT !.region = NoRegion, !.centrale = None],
   [Ask("fdt.update", "ADMIN", f1) EXCEPT !.nro = n2, !.region = NameOf(z2)],
   Ask("fdt.remove", Office, f1), [Ask("fdt.new", "ADMIN", f1) EXCEPT !.nro = None],
   Ask("fiber.create", "ADMIN", x1), Ask("fiber.update", "ADMIN", x1),
   Ask("fiber.delete", "ADMIN", x1)}
=============================================================================
