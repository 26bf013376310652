---------------------------- MODULE NetworkState ----------------------------
(***************************************************************************)
(* The documents of the two infrastructure collections that contracts are  *)
(* accounted against, and the arithmetic the services apply to them.       *)
(*                                                                         *)
(* An NRO document keeps its load and its capacity in GB, its status, and  *)
(* the number of FDTs linked to it; an FDT document keeps its parent NRO,  *)
(* its used ports and its active clients.  Percentages, the French-named   *)
(* mirrors of the same numbers, names and coordinates are not kept.        *)
(***************************************************************************)
EXTENDS Integers

NroStatus == {"ACTIVE", "SATURATED", "DOWN", "DELETED"}

NroDoc == [load : Nat, max : Nat, status : NroStatus, fdts : Nat]

\* Faulty variant: no floor.
Unfloored(x) == x

AtLeastZero(x) == IF x < 0 THEN 0 ELSE x

AtMost(x, top) == IF x > top THEN top ELSE x

\* The check made before anything is written; no limit when max is 0.
HasCapacityFor(doc, gb) == doc.max <= 0 \/ doc.load + gb <= doc.max

\* The in-memory part of updateCapacite: a claim (delta > 0) or a release.
UpdateCapacite(doc, delta) ==
  LET load == AtLeastZero(doc.load + delta)
  IN  [doc EXCEPT !.load = load,
                  !.status = IF @ \in {"DOWN", "DELETED"} THEN @
                             ELSE IF load >= doc.max THEN "SATURATED" ELSE "ACTIVE"]

\* An UPDATE_NRO event that carries a capacity.
UpdateNro(doc, max) ==
  [doc EXCEPT !.max = max,
              !.status = IF doc.load >= max THEN "SATURATED"
                         ELSE IF @ \in {"DOWN", "DELETED"} THEN @ ELSE "ACTIVE"]

\* A NEW_NRO event upserts: the load of a known NRO is left alone.
NewNro(doc, max) == [doc EXCEPT !.max = max, !.status = "ACTIVE"]

\* A PATCH or DELETE by REST: the fields given, and the status is not computed again.
Edited(doc, e) == [k \in DOMAIN doc |-> IF k \in DOMAIN e THEN e[k] ELSE doc[k]]

\* The in-memory part of updatePorts.
UpdatePorts(fdoc, delta, total) ==
  [fdoc EXCEPT !.ports = AtLeastZero(AtMost(@ + delta, total))]

\* Faulty variant: the whole document is written back.
SaveWhole(stored, read, new) == new

\* What save() writes: mongoose sends the paths changed since the document was
\* read, so a path another writer changed meanwhile survives only if untouched here.
SaveModified(stored, read, new) ==
  [k \in DOMAIN stored |-> IF new[k] # read[k] THEN new[k] ELSE stored[k]]
=============================================================================
