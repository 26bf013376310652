------------------------- MODULE MCContractPipeline -------------------------
(***************************************************************************)
(* Values for checking ContractPipeline: two contracts that compete for    *)
(* one or two NROs too small for both of them, the events upstream may     *)
(* send about them, and small bounds on failures.                          *)
(***************************************************************************)
EXTENDS ContractPipeline, TLC

CONSTANTS n1, n2, c1, c2, f1, f2

OneGb == [c \in Contracts |-> 1]
TwoAndOneGb == [c \in Contracts |-> IF c = c1 THEN 2 ELSE 1]
OwnPhone == [c \in Contracts |-> c]
SharedPhone == [c \in Contracts |-> c1]
ReachAll == [c \in Contracts |-> Nros]
RoomForOne == [n \in Nros |-> 1]
RoomForTwo == [n \in Nros |-> 2]
OnePort == [f \in Fdts |-> 1]
TwoPorts == [f \in Fdts |-> 2]
\* f1 hangs from n1, and f2 from n2 where there is one.
OneEach == [f \in ManualFdts |-> IF f = f2 /\ n2 \in Nros THEN n2 ELSE n1]

ContractEvent(type, c) == [type |-> type, c |-> c, n |-> n1, max |-> 0]
NroEvent(type, n, max) == [type |-> type, c |-> c1, n |-> n, max |-> max]

News == {ContractEvent("contracts.new", c) : c \in Contracts}
Cancels == {ContractEvent("contracts.cancel", c) : c \in Contracts}
ContractEvents == News \cup Cancels
NoEvents == {}
NroEvents == {NroEvent("nro.new", n1, 2), NroEvent("nro.update", n1, 1),
              NroEvent("nro.delete", n1, 0)}
AllEvents == ContractEvents \cup NroEvents

\* Which of two REST calls is which does not matter.
CallsAlike == Permutations(Requests)

NoEdits == {}
SomeEdits == {[status |-> "DELETED"], [max |-> 1, status |-> "ACTIVE"]}
=============================================================================
