--------------------- MODULE CapacityRefinement_proofs ---------------------
(***************************************************************************)
(* On a replica set, with contracts created by events and deleted by       *)
(* events or by the REST API, and NROs changed by both, the contract       *)
(* pipeline implements the capacity ledger, so that no crash, retry,       *)
(* aborted commit or concurrent deletion leaks capacity; and the load a    *)
(* claim leaves is within the capacity its check saw.                      *)
(*                                                                         *)
(* The invariant behind it is LedgerInv: the worker is alone in inserting  *)
(* rows, so the contract it prepares is still absent when it commits; a    *)
(* release is for the NRO its contract is on as long as the document read  *)
(* is there; and a deletion erases a row whose load is already given back. *)
(*                                                                         *)
(* From it, no port is leaked (PortsInv), and where nobody deletes by REST *)
(* no client either (ClientsInv).                                          *)
(*                                                                         *)
(* The other way round, with or without transactions: when contracts come  *)
(* and go by one REST call at a time, no ACTIVE contract is left without   *)
(* load (CoverInv: an NRO has load for its ACTIVE contracts but the one    *)
(* being released, and for the one being claimed).  And without            *)
(* transactions, when the worker is alone and nothing fails, its separate  *)
(* writes leave no load and no port behind (SoloInv).                      *)
(***************************************************************************)
EXTENDS ContractPipeline_proofs, Gigabytes_proofs

Holding(n) == {c \in Contracts : Active(c) /\ contract[c].nro = n}

LEMMA LedgerHolders ==
  ASSUME NEW n \in Nros
  PROVE  Ledger!Holders(n) = Holding(n)
BY PipelineAssumption DEF Ledger!Holders, Held, Holding

LEMMA LedgerUnits ==
  ASSUME NEW S
  PROVE  Ledger!Units(Gb, S) = Units(Gb, S)
<1>1. \A T : Ledger!Cardinality(T) = Cardinality(T)
  BY Zenon DEF Ledger!Cardinality, Cardinality
<1>. QED
  BY <1>1 DEF Ledger!Units, Ledger!UnitsOf, Units, UnitsOf

LEMMA HoldingFinite ==
  ASSUME NEW S \in SUBSET Contracts
  PROVE  IsFiniteSet(S) /\ Units(Gb, S) \in Nat /\ \A c \in S : Gb[c] \in Nat
<1>1. IsFiniteSet(S) /\ \A c \in S : Gb[c] \in Nat
  BY PipelineAssumption, FS_Subset
<1>. QED
  BY <1>1, UnitsFinite

\* LoadIsStaying, without the instance.
LEMMA Staying ==
  LoadIsStaying <=> \A n \in Nros : nro[n].load <= Units(Gb, Holding(n) \ Leaving)
BY LedgerHolders DEF LoadIsStaying, Load

LEMMA StayingPrime ==
  LoadIsStaying' <=> \A n \in Nros : nro'[n].load <= Units(Gb, Holding(n)' \ Leaving')
<1>1. \A n \in Nros : Ledger!Holders(n)' = Holding(n)'
  BY PipelineAssumption DEF Ledger!Holders, Held, Holding
<1>. QED
  BY <1>1 DEF LoadIsStaying, Load

LedgerStep == Ledger!LedgerNext \/ UNCHANGED Ledger!ledger

-----------------------------------------------------------------------------
(* Steps that leave the rows and the loads alone.                          *)

\* What a handler must know to be at a label.
ClaimKnown(lab, l) ==
  /\ lab \in {"resolveNro", "refuse", "commitClaim"} => ~Exists(l.c)
  /\ lab = "commitClaim" =>
       l.n \in Nros /\ l.doc.load >= nro[l.n].load /\ HasCapacityFor(l.doc, Gb[l.c])
ReleaseKnown(p, lab, l) ==
  /\ lab \in {"plainSave", "commitRelease"} =>
       l.row.oid \in 1..born[l.c] /\ (Same(l) => contract[l.c].nro = l.n)
  /\ lab = "plainSave" => l.n = NoNro
  /\ lab = "commitRelease" => l.n \in Nros
  /\ p # Worker /\ lab \in CancelLabel \cup {"erase"} => l.target \in 1..born[l.c]

LabelOf(p) == IF p = Worker THEN {"idle"} \cup CancelLabel \cup EventLabel
              ELSE {"idle", "findById", "erase", "saveEdit"} \cup CancelLabel

LEMMA QuietStep ==
  ASSUME TypeInv, LedgerInv, NEW p \in Procs, NEW lab \in LabelOf(p), NEW l \in Locals,
         pc' = [pc EXCEPT ![p] = lab], loc' = [loc EXCEPT ![p] = l],
         UNCHANGED <<contract, born>>,
         \A n \in Nros : nro'[n].load = nro[n].load,
         p = Worker => ClaimKnown(lab, l),
         ReleaseKnown(p, lab, l),
         p # Worker /\ lab \in {"notifyCancel", "erase"} /\ contract[l.c].oid = l.target
           => l.c \in Leaving \/ ~Active(l.c)
  PROVE  LedgerInv'
<1>1. pc \in [Procs -> Label] /\ loc \in [Procs -> Locals] /\ Worker \in Procs /\ Requests \subseteq Procs
  BY DEF TypeInv, Handlers, Procs
<1>2. LabelsOK'
  BY <1>1, PipelineAssumption DEF LedgerInv, LabelsOK, LabelOf, Procs
<1>3. RowsOK'
  BY DEF LedgerInv, RowsOK, Exists, Active
<1>4. ClaimOK'
  <2>1. CASE p = Worker
    <3>1. pc'[Worker] = lab /\ loc'[Worker] = l
      BY <1>1, <2>1
    <3>. QED
      BY <2>1, <3>1 DEF ClaimOK, ClaimKnown, Exists
  <2>2. CASE p # Worker
    BY <1>1, <2>2 DEF LedgerInv, ClaimOK, Exists
  <2>. QED
    BY <2>1, <2>2
<1>5. ReleaseOK'
  <2>. SUFFICES ASSUME NEW q \in Procs
                PROVE  ReleaseKnown(q, pc[q], loc[q])'
    BY DEF ReleaseOK, ReleaseKnown
  <2>1. CASE q = p
    BY <1>1, <2>1 DEF ReleaseKnown, Same, Exists
  <2>2. CASE q # p
    BY <1>1, <2>2 DEF LedgerInv, ReleaseOK, ReleaseKnown, Same, Exists
  <2>. QED
    BY <2>1, <2>2
<1>6. LoadIsStaying'
  <2>1. ASSUME NEW n \in Nros
        PROVE  nro'[n].load <= Units(Gb, Holding(n)' \ Leaving')
    <3>1. nro'[n].load = nro[n].load /\ nro[n].load \in Nat
      BY DEF TypeInv, Collections, NroDoc
    <3>2. Holding(n)' = Holding(n) /\ Holding(n) \in SUBSET Contracts
      BY DEF Holding, Active
    <3>3. \A c \in Holding(n) : c \in Leaving' => c \in Leaving
      <4>. SUFFICES ASSUME NEW c \in Holding(n), c \in Leaving'
                    PROVE  c \in Leaving
        OBVIOUS
      <4>1. PICK r \in Requests : /\ pc'[r] \in {"notifyCancel", "erase"}
                                  /\ loc'[r].c = c /\ loc'[r].target = contract[c].oid
        BY DEF Leaving
      <4>2. CASE r = p
        BY <1>1, <4>1, <4>2, PipelineAssumption DEF Holding
      <4>3. CASE r # p
        BY <1>1, <4>1, <4>3 DEF Leaving, Holding
      <4>. QED
        BY <4>2, <4>3
    <3>4. Holding(n) \ Leaving \in SUBSET (Holding(n)' \ Leaving')
      BY <3>2, <3>3
    <3>5. /\ IsFiniteSet(Holding(n)' \ Leaving') /\ \A c \in Holding(n)' \ Leaving' : Gb[c] \in Nat
          /\ Units(Gb, Holding(n)' \ Leaving') \in Nat
      BY <3>2, HoldingFinite
    <3>6. Units(Gb, Holding(n) \ Leaving) <= Units(Gb, Holding(n)' \ Leaving')
      BY <3>4, <3>5, UnitsMonotone
    <3>7. Units(Gb, Holding(n) \ Leaving) \in Nat
      BY <3>2, HoldingFinite
    <3>8. nro[n].load <= Units(Gb, Holding(n) \ Leaving)
      BY Staying DEF LedgerInv
    <3>. QED
      BY <3>1, <3>5, <3>6, <3>7, <3>8
  <2>. QED
    BY <2>1, StayingPrime
<1>. QED
  BY <1>2, <1>3, <1>4, <1>5, <1>6 DEF LedgerInv

\* Rows and NROs unchanged: a stutter of the ledger.
LEMMA SameLedger ==
  ASSUME UNCHANGED <<contract, nro>>
  PROVE  LedgerStep
BY DEF LedgerStep, Ledger!ledger, Held, Load, Limit, Active

\* The same, for a handler that keeps what it holds.
LEMMA QuietGo ==
  ASSUME TypeInv, LedgerInv, NEW p \in Procs, NEW lab \in LabelOf(p),
         pc' = [pc EXCEPT ![p] = lab], UNCHANGED <<loc, contract, born>>,
         \A n \in Nros : nro'[n].load = nro[n].load,
         p = Worker => ClaimKnown(lab, loc[p]),
         ReleaseKnown(p, lab, loc[p]),
         p # Worker /\ lab \in {"notifyCancel", "erase"} /\ contract[loc[p].c].oid = loc[p].target
           => loc[p].c \in Leaving \/ ~Active(loc[p].c)
  PROVE  LedgerInv'
<1>1. loc[p] \in Locals /\ loc' = [loc EXCEPT ![p] = loc[p]]
  BY DEF TypeInv, Handlers
<1>. QED
  BY <1>1, QuietStep

\* A handler that ends, or a call that starts, knows nothing yet.
LEMMA QuietFinish ==
  ASSUME TypeInv, LedgerInv, NEW p \in Procs, Finish(p), UNCHANGED db, UNCHANGED born
  PROVE  LedgerInv'
<1>1. /\ pc' = [pc EXCEPT ![p] = "idle"] /\ loc' = [loc EXCEPT ![p] = Blank]
      /\ UNCHANGED <<contract, born, nro>>
  BY DEF Finish, db
<1>2. "idle" \in LabelOf(p) /\ ClaimKnown("idle", Blank) /\ ReleaseKnown(p, "idle", Blank)
  BY DEF LabelOf, ClaimKnown, ReleaseKnown, CancelLabel
<1>. QED
  BY <1>1, <1>2, BlankType, QuietStep

\* The worker's labels, before and after each of its steps.
LEMMA WorkerLabels ==
  /\ Worker \in Procs
  /\ LabelOf(Worker) = {"idle"} \cup CancelLabel \cup EventLabel
  /\ \A l : \A lab \in EventLabel :
       /\ lab \notin {"resolveNro", "refuse", "commitClaim"} => ClaimKnown(lab, l)
       /\ ReleaseKnown(Worker, lab, l)
BY DEF Procs, LabelOf, ClaimKnown, ReleaseKnown, CancelLabel, EventLabel

\* The worker's steps on contracts.new up to its writes.
LEMMA QuietNew ==
  ASSUME TypeInv, LedgerInv, Transactional,
         FindExisting(Worker) \/ ResolveNro(Worker) \/ ReadLink(Worker) \/ SaveLink(Worker)
           \/ NotifyNew(Worker)
  PROVE  LedgerInv' /\ LedgerStep
<1>. DEFINE p == Worker
            c == loc[Worker].c
<1>0. loc[Worker] \in Locals /\ c \in Contracts /\ Worker \in Procs
  BY DEF TypeInv, Handlers, Procs, Locals
<1>1. CASE FindExisting(Worker)
  <2>1. PICK lab \in {"broadcast", "resolveNro"} :
          pc' = [pc EXCEPT ![Worker] = lab] /\ (lab = "resolveNro" => ~Exists(c))
    BY <1>1 DEF FindExisting, Go
  <2>2. UNCHANGED <<loc, contract, born, nro>>
    BY <1>1 DEF FindExisting, db, history
  <2>3. /\ lab \in LabelOf(Worker) /\ ClaimKnown(lab, loc[Worker])
        /\ ReleaseKnown(Worker, lab, loc[Worker])
    BY <2>1 DEF LabelOf, EventLabel, ClaimKnown, ReleaseKnown, CancelLabel
  <2>4. LedgerInv'
    BY <1>0, <2>1, <2>2, <2>3, QuietGo
  <2>. QED
    BY <2>2, <2>4, SameLedger
<1>2. CASE ResolveNro(Worker)
  <2>1. UNCHANGED <<contract, born, nro>> /\ pc[Worker] = "resolveNro" /\ ~Exists(c)
    BY <1>2 DEF ResolveNro, db, history, Go, LedgerInv, ClaimOK
  <2>2. ASSUME Go(Worker, "resolveNro", "refuse"),
               Hold(Worker, [loc[Worker] EXCEPT !.n = NoNro])
        PROVE  LedgerInv'
    <3>. DEFINE l == [loc[Worker] EXCEPT !.n = NoNro]
    <3>1. l \in Locals /\ l.c = c
      BY <1>0 DEF Locals
    <3>3. pc' = [pc EXCEPT ![Worker] = "refuse"] /\ loc' = [loc EXCEPT ![Worker] = l]
      BY <2>2 DEF Go, Hold
    <3>. HIDE DEF l
    <3>2. "refuse" \in LabelOf(Worker) /\ ClaimKnown("refuse", l) /\ ReleaseKnown(Worker, "refuse", l)
      <4>1. ~Exists(l.c)
        BY <2>1, <3>1
      <4>. QED
        BY <4>1 DEF LabelOf, EventLabel, ClaimKnown, ReleaseKnown, CancelLabel
    <3>. QED
      BY <1>0, <2>1, <3>1, <3>2, <3>3, QuietStep
  <2>3. ASSUME NEW n \in Nros,
               Go(Worker, "resolveNro", IF ~HasCapacityFor(nro[n], Gb[c]) THEN "refuse"
                                        ELSE IF Transactional THEN "commitClaim" ELSE "readClaim"),
               Hold(Worker, [loc[Worker] EXCEPT !.n = n, !.f = c, !.doc = nro[n]])
        PROVE  LedgerInv'
    <3>. DEFINE l == [loc[Worker] EXCEPT !.n = n, !.f = c, !.doc = nro[n]]
    <3>1. nro[n] \in NroDoc /\ c \in Fdts
      BY <1>0 DEF TypeInv, Collections, Fdts
    <3>2. l \in Locals /\ l.c = c /\ l.n = n /\ l.doc = nro[n]
      BY <1>0, <3>1 DEF Locals
    <3>3. loc' = [loc EXCEPT ![Worker] = l]
      BY <2>3 DEF Hold
    <3>. HIDE DEF l
    <3>4. PICK lab \in {"refuse", "commitClaim"} :
            /\ pc' = [pc EXCEPT ![Worker] = lab]
            /\ lab = "commitClaim" => HasCapacityFor(nro[n], Gb[c])
      BY <2>3 DEF Go
    <3>5. ~Exists(l.c) /\ (lab = "commitClaim" => HasCapacityFor(l.doc, Gb[l.c]))
      BY <2>1, <3>2, <3>4
    <3>6. l.n \in Nros /\ l.doc.load >= nro[l.n].load
      <4>1. nro[n].load \in Nat
        BY <3>1 DEF NroDoc
      <4>. QED
        BY <3>2, <4>1
    <3>7. lab \in LabelOf(Worker) /\ ReleaseKnown(Worker, lab, l)
      BY DEF LabelOf, EventLabel, ReleaseKnown, CancelLabel
    <3>8. ClaimKnown(lab, l)
      BY <3>5, <3>6 DEF ClaimKnown
    <3>9. /\ UNCHANGED <<contract, born, nro>> /\ pc' = [pc EXCEPT ![Worker] = lab]
          /\ l \in Locals
      BY <2>1, <3>2, <3>4
    <3>. QED
      BY <1>0, <3>3, <3>7, <3>8, <3>9, QuietStep
  <2>4. LedgerInv'
    <3>1. Reach[c] \subseteq Nros
      BY <1>0, PipelineAssumption
    <3>. QED
      BY <1>2, <2>2, <2>3, <3>1 DEF ResolveNro
  <2>. QED
    BY <2>1, <2>4, SameLedger
<1>3. CASE ReadLink(Worker)
  <2>. DEFINE l == [loc[Worker] EXCEPT !.fdoc = fdt[loc[Worker].f]]
  <2>1. /\ pc' = [pc EXCEPT ![Worker] = "saveLink"] /\ loc' = [loc EXCEPT ![Worker] = l]
        /\ UNCHANGED <<contract, born, nro>> /\ pc[Worker] = "readLink"
    BY <1>3 DEF ReadLink, ReadFdtDoc, Go, Hold, db, history
  <2>2. l \in Locals
    <3>1. loc[Worker].f \in Fdts
      BY <1>0, <2>1 DEF TypeInv, Handlers, FdtLabel
    <3>2. fdt[loc[Worker].f] \in FdtDoc
      BY <3>1 DEF TypeInv, Collections
    <3>. QED
      BY <1>0, <3>2 DEF Locals
  <2>3. "saveLink" \in LabelOf(Worker) /\ ClaimKnown("saveLink", l) /\ ReleaseKnown(Worker, "saveLink", l)
    BY DEF LabelOf, EventLabel, ClaimKnown, ReleaseKnown, CancelLabel
  <2>. HIDE DEF l
  <2>4. LedgerInv'
    BY <1>0, <2>1, <2>2, <2>3, QuietStep
  <2>. QED
    BY <2>1, <2>4, SameLedger
<1>4. CASE SaveLink(Worker) \/ NotifyNew(Worker)
  <2>1. PICK lab \in {"countLink", "broadcast"} : pc' = [pc EXCEPT ![Worker] = lab]
    BY <1>4 DEF SaveLink, SaveFdt, NotifyNew, Go
  <2>2. UNCHANGED <<loc, contract, born, nro>>
    BY <1>4 DEF SaveLink, SaveFdt, NotifyNew, db, history
  <2>3. /\ lab \in LabelOf(Worker) /\ ClaimKnown(lab, loc[Worker])
        /\ ReleaseKnown(Worker, lab, loc[Worker])
    BY DEF LabelOf, EventLabel, ClaimKnown, ReleaseKnown, CancelLabel
  <2>4. LedgerInv'
    BY <1>0, <2>1, <2>2, <2>3, QuietGo
  <2>. QED
    BY <2>2, <2>4, SameLedger
<1>. QED
  BY <1>1, <1>2, <1>3, <1>4

\* An NRO document is written, and its load is what it was.
LEMMA ResizeStep ==
  ASSUME nro \in [Nros -> NroDoc], nro' \in [Nros -> NroDoc], UNCHANGED contract,
         NEW n \in Nros, NEW new, nro' = [nro EXCEPT ![n] = new], new.load = nro[n].load
  PROVE  LedgerStep /\ \A m \in Nros : nro'[m].load = nro[m].load
<1>1. \A m \in Nros : nro'[m].load = nro[m].load
  OBVIOUS
<1>2. Held' = Held
  BY DEF Held, Active
<1>3. Load' = Load
  BY <1>1 DEF Load
<1>4. Limit' = [Limit EXCEPT ![n] = Limit'[n]] /\ Limit'[n] \in Nat
  <2>1. \A m \in Nros \ {n} : nro'[m] = nro[m]
    OBVIOUS
  <2>2. nro'[n].max \in Nat
    BY DEF NroDoc
  <2>. QED
    BY <2>1, <2>2 DEF Limit
<1>5. Ledger!Resize(n)
  BY <1>2, <1>3, <1>4 DEF Ledger!Resize
<1>. QED
  BY <1>1, <1>5 DEF LedgerStep, Ledger!LedgerNext

\* The worker's writes to NRO documents: loads stay, a capacity may change.
LEMMA QuietNro ==
  ASSUME TypeInv, TypeInv', LedgerInv, NroSteps(Worker) \/ CountLink(Worker)
  PROVE  LedgerInv' /\ LedgerStep
<1>. DEFINE l == loc[Worker]
<1>0. /\ l \in Locals /\ Worker \in Procs /\ l.doc \in NroDoc /\ l.n \in Nros
      /\ nro[l.n] \in NroDoc /\ nro \in [Nros -> NroDoc] /\ nro' \in [Nros -> NroDoc]
  <2>1. l \in Locals /\ Worker \in Procs /\ nro \in [Nros -> NroDoc] /\ nro' \in [Nros -> NroDoc]
    BY DEF TypeInv, Handlers, Procs, Collections
  <2>2. l.doc \in NroDoc
    BY <2>1 DEF Locals
  <2>3. pc[Worker] \in NroLabel
    BY DEF NroSteps, CountLink, UpsertNro, ReadUpdate, SaveUpdate, ReadDelete, SaveDelete,
           ReadNro, SaveNro, Go, NroLabel
  <2>4. l.n \in Nros
    BY <2>1, <2>3 DEF TypeInv, Handlers
  <2>. QED
    BY <2>1, <2>2, <2>4
<1>1. CASE ReadUpdate(Worker) \/ ReadDelete(Worker)
  <2>. DEFINE k == [l EXCEPT !.doc = nro[l.n]]
  <2>1. PICK lab \in {"saveUpdate", "saveDelete"} : pc' = [pc EXCEPT ![Worker] = lab]
    BY <1>1 DEF ReadUpdate, ReadDelete, ReadNro, Go
  <2>2. UNCHANGED <<contract, born, nro>> /\ loc' = [loc EXCEPT ![Worker] = k]
    BY <1>1 DEF ReadUpdate, ReadDelete, ReadNro, Hold, db, history
  <2>3. k \in Locals
    BY <1>0 DEF Locals
  <2>4. lab \in LabelOf(Worker) /\ ClaimKnown(lab, k) /\ ReleaseKnown(Worker, lab, k)
    BY DEF LabelOf, EventLabel, ClaimKnown, ReleaseKnown, CancelLabel
  <2>. HIDE DEF k
  <2>5. LedgerInv'
    BY <1>0, <2>1, <2>2, <2>3, <2>4, QuietStep
  <2>. QED
    BY <2>2, <2>5, SameLedger
<1>2. ASSUME NEW lab \in {"broadcast", "notifyNew"}, NEW new,
             pc' = [pc EXCEPT ![Worker] = lab], UNCHANGED <<loc, contract, born>>,
             nro' = [nro EXCEPT ![l.n] = new], new.load = nro[l.n].load
      PROVE  LedgerInv' /\ LedgerStep
  <2>1. LedgerStep /\ \A n \in Nros : nro'[n].load = nro[n].load
    BY <1>0, <1>2, ResizeStep
  <2>2. lab \in LabelOf(Worker) /\ ClaimKnown(lab, l) /\ ReleaseKnown(Worker, lab, l)
    BY DEF LabelOf, EventLabel, ClaimKnown, ReleaseKnown, CancelLabel
  <2>3. LedgerInv'
    BY <1>0, <1>2, <2>1, <2>2, QuietGo
  <2>. QED
    BY <2>1, <2>3
<1>3. CASE UpsertNro(Worker)
  <2>. DEFINE new == NewNro(nro[l.n], l.max)
  <2>1. /\ pc' = [pc EXCEPT ![Worker] = "broadcast"] /\ UNCHANGED <<loc, contract, born>>
        /\ nro' = [nro EXCEPT ![l.n] = new]
    BY <1>3 DEF UpsertNro, Go, history
  <2>2. new.load = nro[l.n].load
    BY <1>0 DEF NewNro, NroDoc
  <2>. HIDE DEF new
  <2>. QED
    BY <1>2, <2>1, <2>2
<1>4. CASE CountLink(Worker)
  <2>1. PICK k : nro' = [nro EXCEPT ![l.n].fdts = k]
    BY <1>4 DEF CountLink
  <2>. DEFINE new == [nro[l.n] EXCEPT !.fdts = k]
  <2>2. /\ pc' = [pc EXCEPT ![Worker] = "notifyNew"] /\ UNCHANGED <<loc, contract, born>>
        /\ nro' = [nro EXCEPT ![l.n] = new]
    BY <1>4, <2>1 DEF CountLink, Go, history
  <2>3. new.load = nro[l.n].load
    BY <1>0 DEF NroDoc
  <2>. HIDE DEF new
  <2>. QED
    BY <1>2, <2>2, <2>3
<1>5. ASSUME NEW from, NEW changed, SaveNro(Worker, from, changed, "broadcast"),
             changed.load = l.doc.load
      PROVE  LedgerInv' /\ LedgerStep
  <2>. DEFINE new == SaveModified(nro[l.n], l.doc, changed)
  <2>1. /\ pc' = [pc EXCEPT ![Worker] = "broadcast"] /\ UNCHANGED <<loc, contract, born>>
        /\ nro' = [nro EXCEPT ![l.n] = new]
    BY <1>5 DEF SaveNro, Go, history
  <2>2. new.load = nro[l.n].load
    <3>1. "load" \in DOMAIN nro[l.n]
      BY <1>0 DEF NroDoc
    <3>. QED
      BY <1>5, <3>1 DEF SaveModified
  <2>. HIDE DEF new
  <2>. QED
    BY <1>2, <2>1, <2>2
<1>6. CASE SaveUpdate(Worker)
  <2>1. UpdateNro(l.doc, l.max).load = l.doc.load
    BY <1>0 DEF UpdateNro, NroDoc
  <2>. QED
    BY <1>5, <1>6, <2>1 DEF SaveUpdate
<1>7. CASE SaveDelete(Worker)
  <2>1. [l.doc EXCEPT !.status = "DELETED"].load = l.doc.load
    BY <1>0 DEF NroDoc
  <2>. QED
    BY <1>5, <1>7, <2>1 DEF SaveDelete
<1>. QED
  BY <1>1, <1>3, <1>4, <1>6, <1>7 DEF NroSteps

\* The administrator's writes to NRO documents.
LEMMA QuietEdit ==
  ASSUME TypeInv, TypeInv', LedgerInv, NEW r \in Requests, EditSteps(r)
  PROVE  LedgerInv' /\ LedgerStep
<1>0. /\ r \in Procs /\ r # Worker /\ loc[r] \in Locals /\ loc' \in [Procs -> Locals]
      /\ nro \in [Nros -> NroDoc] /\ nro' \in [Nros -> NroDoc]
  BY PipelineAssumption DEF TypeInv, Handlers, Procs, Collections
<1>1. /\ UNCHANGED <<contract, born>> /\ \A n \in Nros : nro'[n].load = nro[n].load
      /\ pc' = [pc EXCEPT ![r] = pc'[r]] /\ loc' = [loc EXCEPT ![r] = loc'[r]]
      /\ pc'[r] \in {"idle", "saveEdit"}
  BY EditStep DEF history
<1>2. LedgerInv'
  <2>. DEFINE lab == pc'[r]
              l == loc'[r]
  <2>1. lab \in {"idle", "saveEdit"} /\ l \in Locals
    BY <1>0, <1>1
  <2>2. pc' = [pc EXCEPT ![r] = lab] /\ loc' = [loc EXCEPT ![r] = l]
    BY <1>1
  <2>. HIDE DEF lab, l
  <2>3. lab \in LabelOf(r) /\ ReleaseKnown(r, lab, l)
    BY <1>0, <2>1 DEF LabelOf, CancelLabel, ReleaseKnown
  <2>. QED
    BY <1>0, <1>1, <2>1, <2>2, <2>3, QuietStep
<1>3. ASSUME NEW n \in Nros, EditNro(r, n)
      PROVE  LedgerStep
  BY <1>3, SameLedger DEF EditNro, db
<1>4. CASE SaveEdit(r)
  <2>. DEFINE n == loc[r].n
  <2>1. PICK e \in Edits :
          nro' = [nro EXCEPT ![n] = SaveModified(nro[n], loc[r].doc, Edited(loc[r].doc, e))]
    BY <1>4 DEF SaveEdit
  <2>. DEFINE new == SaveModified(nro[n], loc[r].doc, Edited(loc[r].doc, e))
  <2>2. n \in Nros
    BY <1>0, <1>4 DEF SaveEdit, TypeInv, Handlers, NroLabel
  <2>3. nro' = [nro EXCEPT ![n] = new]
    BY <2>1
  <2>. HIDE DEF new, n
  <2>4. new.load = nro[n].load
    <3>1. nro'[n] = new
      BY <1>0, <2>2, <2>3
    <3>. QED
      BY <1>1, <2>2, <3>1
  <2>. QED
    BY <1>0, <1>1, <1>2, <2>2, <2>3, <2>4, ResizeStep
<1>. QED
  BY <1>2, <1>3, <1>4 DEF EditSteps

\* The worker's bookkeeping: a job taken, a broadcast made, a job completed.
LEMMA QuietJob ==
  ASSUME TypeInv, LedgerInv, TakeJob \/ Broadcast \/ Complete
  PROVE  LedgerInv' /\ LedgerStep
<1>0. loc \in [Procs -> Locals] /\ Worker \in Procs /\ loc[Worker] \in Locals
  BY DEF TypeInv, Handlers, Procs
<1>1. CASE TakeJob
  <2>. DEFINE ev == jobs[Head(wait)].ev
              l == [Blank EXCEPT !.job = Head(wait), !.c = ev.c, !.n = ev.n, !.max = ev.max]
  <2>1. wait # <<>> /\ UNCHANGED db /\ UNCHANGED history
    BY <1>1 DEF TakeJob
  <2>2. Head(wait) \in 1..Len(jobs) /\ ev \in Event
    <3>1. Head(wait) \in 1..Len(jobs)
      BY <2>1 DEF TypeInv, Queue
    <3>2. jobs[Head(wait)] \in Job
      BY <3>1, ElementOfSeq DEF TypeInv, Queue
    <3>. QED
      BY <3>1, <3>2 DEF Job
  <2>3. l \in Locals
    <3>1. ev.c \in Contracts /\ ev.n \in Nros /\ ev.max \in Nat /\ Head(wait) \in Nat
      BY <2>2 DEF Event
    <3>. QED
      BY <3>1, BlankType DEF Locals
  <2>4. loc' = [loc EXCEPT ![Worker] = l]
    BY <1>1 DEF TakeJob, Hold
  <2>5. PICK lab \in {"findExisting", "findContract", "upsertNro", "readUpdate", "readDelete"} :
          pc' = [pc EXCEPT ![Worker] = lab]
    <3>1. pc' = [pc EXCEPT ![Worker] = Entry(ev.type)]
      BY <1>1 DEF TakeJob, Go
    <3>2. ev.type \in EventType
      BY <2>2 DEF Event
    <3>. QED
      BY <3>1, <3>2 DEF Entry, EventType
  <2>. HIDE DEF ev, l
  <2>6. lab \in LabelOf(Worker) /\ ClaimKnown(lab, l) /\ ReleaseKnown(Worker, lab, l)
    BY DEF LabelOf, EventLabel, ClaimKnown, ReleaseKnown, CancelLabel
  <2>7. UNCHANGED <<contract, born, nro>>
    BY <2>1 DEF db, history
  <2>8. LedgerInv'
    BY <1>0, <2>3, <2>4, <2>5, <2>6, <2>7, QuietStep
  <2>. QED
    BY <2>7, <2>8, SameLedger
<1>2. CASE Broadcast
  <2>1. pc' = [pc EXCEPT ![Worker] = "complete"] /\ UNCHANGED <<loc, contract, born, nro>>
    BY <1>2 DEF Broadcast, Go, db
  <2>2. /\ "complete" \in LabelOf(Worker) /\ ClaimKnown("complete", loc[Worker])
        /\ ReleaseKnown(Worker, "complete", loc[Worker])
    BY DEF LabelOf, EventLabel, ClaimKnown, ReleaseKnown, CancelLabel
  <2>3. LedgerInv'
    BY <1>0, <2>1, <2>2, QuietGo
  <2>. QED
    BY <2>1, <2>3, SameLedger
<1>3. CASE Complete
  <2>1. Finish(Worker) /\ UNCHANGED db /\ UNCHANGED born
    BY <1>3 DEF Complete, history
  <2>2. LedgerInv'
    BY <1>0, <2>1, QuietFinish
  <2>. QED
    BY <2>1, <2>2, SameLedger DEF db
<1>. QED
  BY <1>1, <1>2, <1>3

\* The queue, and the environment.
LEMMA QuietQueue ==
  ASSUME LedgerInv, UNCHANGED <<nro, contract, born, pc, loc>>
  PROVE  LedgerInv' /\ LedgerStep
<1>1. LedgerInv'
  <2>1. LabelsOK' /\ RowsOK'
    BY DEF LedgerInv, LabelsOK, RowsOK, Exists, Active
  <2>2. ClaimOK' /\ ReleaseOK'
    BY DEF LedgerInv, ClaimOK, ReleaseOK, Exists, Same
  <2>3. LoadIsStaying'
    <3>1. Leaving' = Leaving /\ \A n \in Nros : Holding(n)' = Holding(n)
      BY DEF Leaving, Holding, Active
    <3>2. \A n \in Nros : nro[n].load <= Units(Gb, Holding(n) \ Leaving)
      BY Staying DEF LedgerInv
    <3>. QED
      BY <3>1, <3>2, StayingPrime
  <2>. QED
    BY <2>1, <2>2, <2>3 DEF LedgerInv
<1>. QED
  BY <1>1, SameLedger

\* A handler that throws, and a process that dies, change no document.
LEMMA QuietFailure ==
  ASSUME TypeInv, LedgerInv, NEW p \in Procs, WriteRefused(p) \/ CallFails(p)
  PROVE  LedgerInv' /\ LedgerStep
<1>1. CASE Throw(p)
  <2>1. Finish(p) /\ UNCHANGED db /\ UNCHANGED born
    BY <1>1 DEF Throw, history
  <2>2. LedgerInv'
    BY <2>1, QuietFinish
  <2>. QED
    BY <2>1, <2>2, SameLedger DEF db
<1>2. CASE ~Throw(p)
  <2>1. /\ pc[p] \in {"readLink", "saveLink", "countLink"}
        /\ pc' = [pc EXCEPT ![p] = "notifyNew"] /\ UNCHANGED <<loc, contract, born, nro>>
    BY <1>2 DEF WriteRefused, CallFails, db, history
  <2>2. p = Worker
    BY <2>1 DEF LedgerInv, LabelsOK, CancelLabel, Procs
  <2>3. /\ "notifyNew" \in LabelOf(p) /\ ClaimKnown("notifyNew", loc[p])
        /\ ReleaseKnown(p, "notifyNew", loc[p])
    BY <2>2 DEF LabelOf, EventLabel, ClaimKnown, ReleaseKnown, CancelLabel
  <2>4. LedgerInv'
    BY <2>1, <2>2, <2>3, QuietGo
  <2>. QED
    BY <2>1, <2>4, SameLedger
<1>. QED
  BY <1>1, <1>2

LEMMA QuietCrash ==
  ASSUME TypeInv, LedgerInv, Crash
  PROVE  LedgerInv' /\ LedgerStep
<1>1. /\ UNCHANGED <<nro, contract, born>>
      /\ \A p \in Procs : pc'[p] = "idle"
      /\ Worker \in Procs /\ Requests \subseteq Procs
  BY DEF Crash, db, history, Procs
<1>2. LabelsOK' /\ RowsOK'
  BY <1>1 DEF LedgerInv, LabelsOK, RowsOK, Exists, Active
<1>3. ClaimOK' /\ ReleaseOK'
  BY <1>1 DEF ClaimOK, ReleaseOK, CancelLabel
<1>4. LoadIsStaying'
  <2>1. ASSUME NEW n \in Nros
        PROVE  nro'[n].load <= Units(Gb, Holding(n)' \ Leaving')
    <3>1. Leaving' = {} /\ Holding(n)' = Holding(n) /\ Holding(n) \in SUBSET Contracts
      BY <1>1 DEF Leaving, Holding, Active
    <3>2. /\ IsFiniteSet(Holding(n)) /\ \A c \in Holding(n) : Gb[c] \in Nat
          /\ Units(Gb, Holding(n)) \in Nat /\ Units(Gb, Holding(n) \ Leaving) \in Nat
      BY <3>1, HoldingFinite
    <3>3. Units(Gb, Holding(n) \ Leaving) <= Units(Gb, Holding(n))
      BY <3>2, UnitsMonotone
    <3>4. nro[n].load <= Units(Gb, Holding(n) \ Leaving) /\ nro[n].load \in Nat
      BY Staying DEF LedgerInv, TypeInv, Collections, NroDoc
    <3>5. nro'[n].load = nro[n].load /\ Holding(n)' \ Leaving' = Holding(n)
      BY <1>1, <3>1
    <3>. QED
      BY <3>2, <3>3, <3>4, <3>5
  <2>. QED
    BY <2>1, StayingPrime
<1>. QED
  BY <1>1, <1>2, <1>3, <1>4, SameLedger DEF LedgerInv

\* Steps of a cancellation that change no document.
LEMMA QuietCancel ==
  ASSUME TypeInv, LedgerInv, Transactional, NEW p \in Procs,
         FindContract(p) \/ NotifyCancel(p) \/ AbortCommit(p)
  PROVE  LedgerInv' /\ LedgerStep
<1>. DEFINE c == loc[p].c
<1>0. /\ loc[p] \in Locals /\ c \in Contracts /\ contract[c] \in ContractRow /\ born[c] \in Nat
      /\ loc[p].target \in Nat
  <2>1. loc[p] \in Locals
    BY DEF TypeInv, Handlers
  <2>2. c \in Contracts /\ loc[p].target \in Nat
    BY <2>1 DEF Locals
  <2>. QED
    BY <2>1, <2>2 DEF TypeInv, Collections, Tallies
<1>1. p # Worker /\ pc[p] \in CancelLabel => loc[p].target \in 1..born[c]
  BY DEF LedgerInv, ReleaseOK
<1>2. CASE FindContract(p)
  <2>. DEFINE row == contract[c]
              l == [loc[p] EXCEPT !.row = row, !.n = row.nro, !.f = row.fdt, !.dirty = TRUE]
  <2>1. row.nro \in Nros \cup {NoNro} /\ row.fdt \in Fdts \cup {NoFdt} /\ row.oid \in Nat
    BY <1>0 DEF ContractRow
  <2>2. l \in Locals /\ l.c = c /\ l.n = row.nro /\ l.row = row /\ l.target = loc[p].target
    BY <1>0, <2>1 DEF Locals
  <2>3. PICK lab \in {"notifyCancel", "broadcast", "erase", "plainSave", "commitRelease"} :
          /\ pc' = [pc EXCEPT ![p] = lab]
          /\ lab = "broadcast" => p = Worker
          /\ lab = "erase" => p # Worker
          /\ lab \in {"notifyCancel", "erase"} => ~Active(c)
          /\ lab \in {"plainSave", "commitRelease"} => Exists(c)
          /\ lab = "plainSave" => row.nro = NoNro
          /\ lab = "commitRelease" => row.nro # NoNro
    <3>1. pc' = [pc EXCEPT ![p] =
                   IF row.status = "NONE" THEN "notifyCancel"
                   ELSE IF row.status = "CANCELLED" THEN AfterCancel(p)
                   ELSE IF row.nro = NoNro THEN "plainSave" ELSE "commitRelease"]
      BY <1>2 DEF FindContract, Go
    <3>. QED
      BY <3>1 DEF AfterCancel, Active, Exists
  <2>4. /\ loc' = [loc EXCEPT ![p] = l] /\ UNCHANGED <<contract, born, nro>>
        /\ pc[p] = "findContract"
    BY <1>2 DEF FindContract, Hold, Go, db, history
  <2>. HIDE DEF l
  <2>5. lab \in {"plainSave", "commitRelease"} => row.oid \in 1..born[c]
    BY <1>0, <2>1, <2>3 DEF LedgerInv, RowsOK
  <2>6. p # Worker => loc[p].target \in 1..born[c]
    BY <1>1, <2>4 DEF CancelLabel
  <2>7. ReleaseKnown(p, lab, l)
    BY <2>1, <2>2, <2>3, <2>5, <2>6 DEF ReleaseKnown
  <2>8. lab \in LabelOf(p) /\ (p = Worker => ClaimKnown(lab, l))
    BY <2>3 DEF LabelOf, EventLabel, CancelLabel, ClaimKnown
  <2>9. LedgerInv'
    <3>1. lab \in {"notifyCancel", "erase"} => ~Active(l.c)
      BY <2>2, <2>3
    <3>. HIDE DEF c, row
    <3>. QED
      BY <2>2, <2>3, <2>4, <2>7, <2>8, <3>1, QuietStep
  <2>. QED
    BY <2>4, <2>9, SameLedger
<1>3. CASE NotifyCancel(p)
  <2>1. /\ pc' = [pc EXCEPT ![p] = AfterCancel(p)] /\ UNCHANGED <<loc, contract, born, nro>>
        /\ pc[p] = "notifyCancel"
    BY <1>3 DEF NotifyCancel, Go, db, history
  <2>2. PICK lab \in {"broadcast", "erase"} :
          /\ pc' = [pc EXCEPT ![p] = lab] /\ (lab = "broadcast" <=> p = Worker)
    BY <2>1 DEF AfterCancel
  <2>3. p # Worker => loc[p].target \in 1..born[c]
    BY <1>1, <2>1 DEF CancelLabel
  <2>4. /\ lab \in LabelOf(p) /\ ReleaseKnown(p, lab, loc[p])
        /\ p = Worker => ClaimKnown(lab, loc[p])
    BY <2>2, <2>3 DEF LabelOf, EventLabel, CancelLabel, ClaimKnown, ReleaseKnown
  <2>5. p # Worker /\ contract[c].oid = loc[p].target => c \in Leaving
    BY <1>0, <2>1 DEF Leaving, Procs
  <2>6. LedgerInv'
    BY <2>1, <2>2, <2>4, <2>5, QuietGo
  <2>. QED
    BY <2>1, <2>6, SameLedger
<1>4. CASE AbortCommit(p)
  <2>. DEFINE l == [loc[p] EXCEPT !.dirty = FALSE]
  <2>1. /\ pc[p] = "commitRelease" /\ loc' = [loc EXCEPT ![p] = l]
        /\ UNCHANGED <<pc, contract, born, nro>>
    BY <1>4 DEF AbortCommit, Hold, db, history
  <2>2. /\ l \in Locals /\ l.c = c /\ l.n = loc[p].n /\ l.row = loc[p].row
        /\ l.target = loc[p].target
    BY <1>0 DEF Locals
  <2>. HIDE DEF l
  <2>3. pc' = [pc EXCEPT ![p] = "commitRelease"]
    BY <2>1 DEF TypeInv, Handlers
  <2>4. ReleaseKnown(p, "commitRelease", l)
    <3>1. ReleaseKnown(p, "commitRelease", loc[p])
      BY <2>1 DEF LedgerInv, ReleaseOK, ReleaseKnown
    <3>. QED
      BY <2>2, <3>1 DEF ReleaseKnown, Same
  <2>5. "commitRelease" \in LabelOf(p) /\ (p = Worker => ClaimKnown("commitRelease", l))
    BY DEF LabelOf, CancelLabel, ClaimKnown
  <2>6. LedgerInv'
    BY <2>1, <2>2, <2>3, <2>4, <2>5, QuietStep
  <2>. QED
    BY <2>1, <2>6, SameLedger
<1>. QED
  BY <1>2, <1>3, <1>4

\* A DELETE that starts, and finds its contract.
LEMMA QuietRest ==
  ASSUME TypeInv, LedgerInv, NEW r \in Requests,
         FindById(r) \/ \E c \in Contracts : DeleteContract(r, c)
  PROVE  LedgerInv' /\ LedgerStep
<1>0. r \in Procs /\ r # Worker /\ loc[r] \in Locals
  BY PipelineAssumption DEF TypeInv, Handlers, Procs
<1>1. ASSUME NEW lab \in {"findById", "findContract"}, NEW l \in Locals,
             pc' = [pc EXCEPT ![r] = lab], loc' = [loc EXCEPT ![r] = l],
             UNCHANGED <<contract, born, nro>>,
             lab = "findContract" => l.target \in 1..born[l.c]
      PROVE  LedgerInv' /\ LedgerStep
  <2>1. lab \in LabelOf(r) /\ ReleaseKnown(r, lab, l)
    BY <1>0, <1>1 DEF LabelOf, CancelLabel, ReleaseKnown
  <2>2. LedgerInv'
    BY <1>0, <1>1, <2>1, QuietStep
  <2>. QED
    BY <1>1, <2>2, SameLedger
<1>2. ASSUME NEW c \in Contracts, DeleteContract(r, c)
      PROVE  LedgerInv' /\ LedgerStep
  <2>. DEFINE l == [Blank EXCEPT !.c = c]
  <2>1. /\ pc' = [pc EXCEPT ![r] = "findById"] /\ loc' = [loc EXCEPT ![r] = l]
        /\ UNCHANGED <<contract, born, nro>>
    BY <1>2 DEF DeleteContract, Call, Go, Hold, db, history
  <2>2. l \in Locals
    BY BlankType DEF Locals
  <2>. HIDE DEF l
  <2>. QED
    BY <1>1, <2>1, <2>2
<1>3. CASE FindById(r)
  <2>. DEFINE c == loc[r].c
              l == [loc[r] EXCEPT !.target = contract[c].oid]
  <2>1. UNCHANGED <<contract, born, nro>> /\ UNCHANGED db
    BY <1>3 DEF FindById, db, history
  <2>2. CASE Exists(c)
    <3>1. pc' = [pc EXCEPT ![r] = "findContract"] /\ loc' = [loc EXCEPT ![r] = l]
      BY <1>3, <2>2 DEF FindById, Go, Hold
    <3>2. c \in Contracts
      BY <1>0 DEF Locals
    <3>3. contract[c].oid \in 1..born[c]
      <4>1. contract[c].oid \in Nat /\ born[c] \in Nat
        BY <3>2 DEF TypeInv, Collections, ContractRow, Tallies
      <4>. QED
        BY <2>2, <3>2, <4>1 DEF LedgerInv, RowsOK
    <3>4. l \in Locals /\ l.target \in 1..born[l.c]
      BY <1>0, <3>3 DEF Locals
    <3>. HIDE DEF l
    <3>. QED
      BY <1>1, <2>1, <3>1, <3>4
  <2>3. CASE ~Exists(c)
    <3>1. Finish(r)
      BY <1>3, <2>3 DEF FindById
    <3>. QED
      BY <1>0, <2>1, <3>1, QuietFinish, SameLedger
  <2>. QED
    BY <2>2, <2>3
<1>. QED
  BY <1>2, <1>3

-----------------------------------------------------------------------------
(* Steps that write or erase a row.                                        *)

\* The row of c becomes row: a new document, the same one on the same NRO, or none.
Rewritten(c, row) ==
  \/ row.oid > born[c] /\ row.oid <= born'[c] /\ row.status # "NONE"
  \/ row.oid = contract[c].oid /\ row.nro = contract[c].nro /\ row.status # "NONE" /\ Exists(c)
  \/ row = NoContract

\* After its write a handler claims and releases nothing more.
RowWritten(p, lab, l, c, row) ==
  /\ lab \in LabelOf(p)
  /\ lab \notin {"resolveNro", "refuse", "commitClaim", "plainSave", "commitRelease", "erase"}
  /\ pc' = [pc EXCEPT ![p] = lab] /\ loc' = [loc EXCEPT ![p] = l]
  /\ contract' = [contract EXCEPT ![c] = row]
  /\ Rewritten(c, row) /\ (row.status = "ACTIVE" => row.nro # NoNro)
  /\ born' \in [Contracts -> Nat] /\ \A d \in Contracts : born'[d] >= born[d]
  /\ p # Worker => /\ row.status # "NONE" => Exists(c)
                   /\ \A n \in Nros : nro'[n].load <= nro[n].load
                   /\ lab \in CancelLabel => l.target \in 1..born[l.c]

\* The parts of LedgerInv that do not count gigabytes.
LEMMA WriteStep ==
  ASSUME TypeInv, TypeInv', LedgerInv, NEW p \in Procs, NEW lab, NEW l \in Locals,
         NEW c \in Contracts, NEW row \in ContractRow, RowWritten(p, lab, l, c, row)
  PROVE  LabelsOK' /\ RowsOK' /\ ClaimOK' /\ ReleaseOK'
<1>0. /\ pc \in [Procs -> Label] /\ loc \in [Procs -> Locals] /\ Worker \in Procs
      /\ Requests \subseteq Procs /\ Procs = {Worker} \cup Requests
      /\ contract \in [Contracts -> ContractRow] /\ born \in [Contracts -> Nat]
      /\ nro \in [Nros -> NroDoc] /\ nro' \in [Nros -> NroDoc]
  BY DEF TypeInv, Handlers, Procs, Collections, Tallies
<1>1. /\ contract' = [contract EXCEPT ![c] = row]
      /\ pc' = [pc EXCEPT ![p] = lab] /\ loc' = [loc EXCEPT ![p] = l]
      /\ born' \in [Contracts -> Nat] /\ \A d \in Contracts : born'[d] >= born[d]
  BY DEF RowWritten
<1>2. LabelsOK'
  BY <1>0, <1>1, PipelineAssumption DEF LedgerInv, LabelsOK, LabelOf, RowWritten
<1>3. RowsOK'
  <2>1. ASSUME NEW d \in Contracts, d # c
        PROVE  /\ contract'[d].oid <= born'[d]
               /\ (contract'[d].status # "NONE" <=> contract'[d].oid # 0)
               /\ (contract'[d].status = "ACTIVE" => contract'[d].nro # NoNro)
    <3>1. contract'[d] = contract[d] /\ contract[d].oid \in Nat /\ born[d] \in Nat /\ born'[d] \in Nat
      BY <1>0, <1>1, <2>1 DEF ContractRow
    <3>2. /\ contract[d].oid <= born[d]
          /\ (contract[d].status # "NONE" <=> contract[d].oid # 0)
          /\ (contract[d].status = "ACTIVE" => contract[d].nro # NoNro)
      BY DEF LedgerInv, RowsOK, Exists, Active
    <3>. QED
      BY <1>1, <3>1, <3>2
  <2>2. /\ row.oid <= born'[c] /\ (row.status # "NONE" <=> row.oid # 0)
        /\ row.status = "ACTIVE" => row.nro # NoNro
    <3>1. /\ contract[c].oid \in Nat /\ born[c] \in Nat /\ born'[c] \in Nat /\ row.oid \in Nat
          /\ born'[c] >= born[c]
      BY <1>0, <1>1 DEF ContractRow
    <3>2. contract[c].oid <= born[c] /\ (Exists(c) <=> contract[c].oid # 0)
      BY DEF LedgerInv, RowsOK
    <3>. QED
      BY <3>1, <3>2 DEF RowWritten, Rewritten, NoContract
  <2>3. contract'[c] = row
    BY <1>0, <1>1
  <2>. QED
    BY <2>1, <2>2, <2>3 DEF RowsOK, Exists, Active
<1>4. ClaimOK'
  <2>1. CASE p = Worker
    <3>1. pc'[Worker] \notin {"resolveNro", "refuse", "commitClaim"}
      BY <1>0, <1>1, <2>1 DEF RowWritten
    <3>. QED
      BY <3>1 DEF ClaimOK
  <2>2. CASE p # Worker
    <3>1. PICK k \in Locals : pc'[Worker] = pc[Worker] /\ loc[Worker] = k /\ loc'[Worker] = k
      BY <1>0, <1>1, <2>2
    <3>2. k.c \in Contracts /\ k.doc \in NroDoc
      BY <3>1 DEF Locals
    <3>3. ~Exists(k.c) => ~Exists(k.c)'
      BY <1>0, <1>1, <2>2, <3>1, <3>2 DEF RowWritten, Exists
    <3>4. ASSUME k.n \in Nros, k.doc.load >= nro[k.n].load
          PROVE  k.doc.load >= nro'[k.n].load
      <4>1. nro'[k.n].load <= nro[k.n].load
        BY <2>2, <3>4 DEF RowWritten
      <4>2. nro[k.n].load \in Nat /\ nro'[k.n].load \in Nat /\ k.doc.load \in Nat
        BY <1>0, <3>2, <3>4 DEF NroDoc
      <4>. QED
        BY <3>4, <4>1, <4>2
    <3>5. ClaimOK
      BY DEF LedgerInv
    <3>6. /\ pc[Worker] \in {"resolveNro", "refuse", "commitClaim"} => ~Exists(k.c)
          /\ pc[Worker] = "commitClaim" =>
               /\ k.n \in Nros /\ k.doc.load >= nro[k.n].load
               /\ HasCapacityFor(k.doc, Gb[k.c])
      BY <3>1, <3>5 DEF ClaimOK
    <3>. QED
      BY <3>1, <3>3, <3>4, <3>6 DEF ClaimOK, Exists
  <2>. QED
    BY <2>1, <2>2
<1>5. ReleaseOK'
  <2>. SUFFICES ASSUME NEW q \in Procs
                PROVE  ReleaseKnown(q, pc[q], loc[q])'
    BY DEF ReleaseOK, ReleaseKnown
  <2>1. CASE q = p
    <3>1. pc'[q] = lab /\ loc'[q] = l /\ l.c \in Contracts
      BY <1>0, <1>1, <2>1 DEF Locals
    <3>2. p # Worker /\ lab \in CancelLabel => l.target \in 1..born'[l.c]
      <4>1. born[l.c] \in Nat /\ born'[l.c] \in Nat /\ born'[l.c] >= born[l.c]
        BY <1>0, <1>1, <3>1
      <4>. QED
        BY <4>1 DEF RowWritten
    <3>3. lab \notin {"plainSave", "commitRelease", "erase"}
      BY DEF RowWritten
    <3>. QED
      BY <2>1, <3>1, <3>2, <3>3 DEF ReleaseKnown
  <2>2. CASE q # p
    <3>1. PICK k \in Locals : pc'[q] = pc[q] /\ loc[q] = k /\ loc'[q] = k
      BY <1>0, <1>1, <2>2
    <3>2. /\ k.c \in Contracts /\ k.target \in Nat /\ k.row \in ContractRow /\ k.row.oid \in Nat
      BY <3>1 DEF Locals, ContractRow
    <3>3. ReleaseKnown(q, pc[q], k)
      BY <3>1 DEF LedgerInv, ReleaseOK, ReleaseKnown
    <3>4. born[k.c] \in Nat /\ born'[k.c] \in Nat /\ born'[k.c] >= born[k.c]
      BY <1>0, <1>1, <3>2
    <3>5. ASSUME k.row.oid \in 1..born[k.c], Same(k) => contract[k.c].nro = k.n,
                 contract'[k.c].status # "NONE", contract'[k.c].oid = k.row.oid
          PROVE  contract'[k.c].nro = k.n
      <4>1. CASE k.c # c
        <5>1. contract'[k.c] = contract[k.c]
          BY <1>0, <1>1, <3>2, <4>1
        <5>. QED
          BY <3>5, <5>1 DEF Same, Exists
      <4>2. CASE k.c = c
        <5>1. contract'[k.c] = row
          BY <1>0, <1>1, <3>2, <4>2
        <5>2. row.oid = contract[c].oid /\ row.nro = contract[c].nro /\ Exists(c)
          <6>1. row.status # "NONE" /\ row.oid \in Nat /\ row.oid <= born[c] /\ born[c] \in Nat
            BY <3>4, <3>5, <4>2, <5>1
          <6>. QED
            BY <6>1 DEF RowWritten, Rewritten, NoContract
        <5>. QED
          BY <3>5, <4>2, <5>1, <5>2 DEF Same
      <4>. QED
        BY <4>1, <4>2
    <3>6. pc[q] \in {"plainSave", "commitRelease"} =>
            k.row.oid \in 1..born'[k.c] /\ (Same(k)' => contract'[k.c].nro = k.n)
      <4>. SUFFICES ASSUME pc[q] \in {"plainSave", "commitRelease"}
                    PROVE  k.row.oid \in 1..born'[k.c] /\ (Same(k)' => contract'[k.c].nro = k.n)
        OBVIOUS
      <4>1. k.row.oid \in 1..born[k.c] /\ (Same(k) => contract[k.c].nro = k.n)
        BY <3>3 DEF ReleaseKnown
      <4>2. Same(k)' => contract'[k.c].status # "NONE" /\ contract'[k.c].oid = k.row.oid
        BY DEF Same, Exists
      <4>. QED
        BY <3>2, <3>4, <3>5, <4>1, <4>2
    <3>7. q # Worker /\ pc[q] \in CancelLabel \cup {"erase"} => k.target \in 1..born'[k.c]
      BY <3>2, <3>3, <3>4 DEF ReleaseKnown
    <3>. QED
      BY <3>1, <3>3, <3>6, <3>7 DEF ReleaseKnown, Same, Exists
  <2>. QED
    BY <2>1, <2>2
<1>. QED
  BY <1>2, <1>3, <1>4, <1>5

\* No contract is about to be erased that was not before, but the one just cancelled.
LEMMA LeavingStep ==
  ASSUME TypeInv, LedgerInv, NEW p \in Procs, NEW lab, NEW l \in Locals,
         NEW c \in Contracts, NEW row \in ContractRow, RowWritten(p, lab, l, c, row)
  PROVE  \A d \in Leaving' : d \in Leaving \/ (p # Worker /\ lab = "notifyCancel" /\ d = l.c)
<1>. SUFFICES ASSUME NEW d \in Leaving', ~(p # Worker /\ lab = "notifyCancel" /\ d = l.c)
              PROVE  d \in Leaving
  OBVIOUS
<1>0. /\ pc \in [Procs -> Label] /\ loc \in [Procs -> Locals] /\ Requests \subseteq Procs
      /\ Worker \notin Requests /\ contract \in [Contracts -> ContractRow]
      /\ pc' = [pc EXCEPT ![p] = lab] /\ loc' = [loc EXCEPT ![p] = l]
      /\ contract' = [contract EXCEPT ![c] = row]
  BY PipelineAssumption DEF TypeInv, Handlers, Procs, Collections, RowWritten
<1>1. PICK r \in Requests : /\ pc'[r] \in {"notifyCancel", "erase"} /\ loc'[r].c = d
                            /\ loc'[r].target = contract'[d].oid
  BY DEF Leaving
<1>2. d \in Contracts
  BY DEF Leaving
<1>3. r # p
  <2>1. pc'[p] = lab /\ loc'[p] = l /\ lab # "erase"
    BY <1>0 DEF RowWritten
  <2>. QED
    BY <1>0, <1>1, <2>1
<1>4. pc[r] \in {"notifyCancel", "erase"} /\ loc[r].c = d /\ loc[r].target = contract'[d].oid
  BY <1>0, <1>1, <1>3
<1>5. loc[r].target \in 1..born[d]
  BY <1>0, <1>4 DEF LedgerInv, ReleaseOK, CancelLabel, Procs
<1>6. contract'[d].oid = contract[d].oid
  <2>1. CASE d # c
    BY <1>0, <1>2, <2>1
  <2>2. CASE d = c
    <3>1. contract'[d] = row /\ row.oid \in Nat /\ born[d] \in Nat
      BY <1>0, <1>2, <2>2 DEF ContractRow, TypeInv, Tallies
    <3>. QED
      BY <1>4, <1>5, <2>2, <3>1 DEF RowWritten, Rewritten, NoContract
  <2>. QED
    BY <2>1, <2>2
<1>. QED
  BY <1>2, <1>4, <1>6 DEF Leaving

LEMMA UnitsGrow ==
  ASSUME NEW T \in SUBSET Contracts, NEW S \in SUBSET T
  PROVE  /\ Units(Gb, S) \in Nat /\ Units(Gb, T) \in Nat
         /\ Units(Gb, S) <= Units(Gb, T)
<1>1. IsFiniteSet(T) /\ \A c \in T : Gb[c] \in Nat
  BY HoldingFinite
<1>2. S \in SUBSET Contracts
  OBVIOUS
<1>. QED
  BY <1>1, <1>2, HoldingFinite, UnitsMonotone

LEMMA LedgerInvOf ==
  ASSUME LabelsOK', RowsOK', ClaimOK', ReleaseOK',
         \A n \in Nros : nro'[n].load <= Units(Gb, Holding(n)' \ Leaving')
  PROVE  LedgerInv'
BY StayingPrime DEF LedgerInv

\* A document the event refuses holds nothing.
LEMMA RefuseStep ==
  ASSUME TypeInv, TypeInv', LedgerInv, Refuse(Worker)
  PROVE  LedgerInv' /\ LedgerStep
<1>. DEFINE c == loc[Worker].c
            row == [status |-> "FAILED", nro |-> loc[Worker].n, fdt |-> NoFdt, oid |-> born[c] + 1]
<1>0. Worker \in Procs /\ loc[Worker] \in Locals /\ c \in Contracts /\ born[c] \in Nat
  BY DEF TypeInv, Handlers, Procs, Locals, Tallies
<1>1. /\ pc' = [pc EXCEPT ![Worker] = "notifyNew"] /\ UNCHANGED <<loc, nro>> /\ ~Exists(c)
      /\ contract' = [contract EXCEPT ![c] = row] /\ born' = [born EXCEPT ![c] = born[c] + 1]
  BY <1>0 DEF Refuse, Go, PutRow
<1>2. row \in ContractRow
  BY <1>0 DEF Locals, ContractRow
<1>3. RowWritten(Worker, "notifyNew", loc[Worker], c, row)
  <2>1. loc' = [loc EXCEPT ![Worker] = loc[Worker]]
    BY <1>0, <1>1 DEF TypeInv, Handlers
  <2>2. born \in [Contracts -> Nat]
    BY DEF TypeInv, Tallies
  <2>3. born' \in [Contracts -> Nat] /\ (\A d \in Contracts : born'[d] >= born[d])
        /\ born'[c] = born[c] + 1
    BY <1>0, <1>1, <2>2
  <2>4. "notifyNew" \in LabelOf(Worker)
    BY DEF LabelOf, EventLabel
  <2>5. Rewritten(c, row)
    BY <1>0, <2>3 DEF Rewritten
  <2>. QED
    BY <1>1, <2>1, <2>3, <2>4, <2>5 DEF RowWritten
<1>4. contract \in [Contracts -> ContractRow]
  BY DEF TypeInv, Collections
<1>5. \A d \in Contracts : /\ Active(d)' <=> Active(d)
                           /\ Active(d) => contract'[d] = contract[d]
  BY <1>0, <1>1, <1>4 DEF Active, Exists
<1>6. Held' = Held
  BY <1>5 DEF Held
<1>7. ASSUME NEW n \in Nros
      PROVE  nro'[n].load <= Units(Gb, Holding(n)' \ Leaving')
  <2>1. Holding(n)' = Holding(n) /\ Holding(n) \in SUBSET Contracts
    BY <1>5 DEF Holding
  <2>2. Leaving' \subseteq Leaving
    BY <1>0, <1>2, <1>3, LeavingStep
  <2>3. Holding(n) \ Leaving \in SUBSET (Holding(n)' \ Leaving')
    BY <2>1, <2>2
  <2>4. nro[n].load <= Units(Gb, Holding(n) \ Leaving) /\ nro[n].load \in Nat
    BY Staying DEF LedgerInv, TypeInv, Collections, NroDoc
  <2>. QED
    BY <1>1, <2>1, <2>3, <2>4, UnitsGrow
<1>8. LedgerInv'
  BY <1>0, <1>2, <1>3, <1>7, WriteStep, LedgerInvOf
<1>9. UNCHANGED Ledger!ledger
  BY <1>1, <1>6 DEF Ledger!ledger, Load, Limit
<1>. QED
  BY <1>8, <1>9 DEF LedgerStep

\* A claim is a grant, to a contract that held nothing.
LEMMA ClaimStep ==
  ASSUME TypeInv, TypeInv', LedgerInv, CommitClaim(Worker)
  PROVE  LedgerInv' /\ LedgerStep
<1>. DEFINE c == loc[Worker].c
            n == loc[Worker].n
            row == [status |-> "ACTIVE", nro |-> n, fdt |-> c, oid |-> born[c] + 1]
            l == [loc[Worker] EXCEPT !.news = TRUE]
            load == nro[n].load + Gb[c]
<1>0. /\ Worker \in Procs /\ loc[Worker] \in Locals /\ c \in Contracts /\ born[c] \in Nat
      /\ pc[Worker] = "commitClaim" /\ Gb[c] \in Nat
  BY PipelineAssumption DEF TypeInv, Handlers, Procs, Locals, Tallies, CommitClaim, Go
<1>1. ~Exists(c) /\ n \in Nros
  BY <1>0 DEF LedgerInv, ClaimOK
<1>2. /\ nro \in [Nros -> NroDoc] /\ contract \in [Contracts -> ContractRow]
      /\ nro[n] \in NroDoc
  BY <1>0, <1>1 DEF TypeInv, Collections
<1>3. nro[n].load \in Nat /\ load \in Nat
  BY <1>0, <1>2 DEF NroDoc
<1>4. /\ pc' = [pc EXCEPT ![Worker] = "readLink"] /\ loc' = [loc EXCEPT ![Worker] = l]
      /\ contract' = [contract EXCEPT ![c] = row] /\ born' = [born EXCEPT ![c] = born[c] + 1]
      /\ nro' = [nro EXCEPT ![n] = UpdateCapacite(nro[n], Gb[c])]
  BY <1>0, <1>1 DEF CommitClaim, Go, Hold, PutRow
<1>5. l \in Locals
  BY <1>0 DEF Locals
<1>6. row \in ContractRow
  BY <1>0, <1>1 DEF ContractRow, Fdts
<1>7. /\ nro'[n].load = load /\ nro'[n].max = nro[n].max
      /\ \A m \in Nros : m # n => nro'[m] = nro[m]
  <2>1. AtLeastZero(load) = load
    BY <1>3 DEF AtLeastZero
  <2>2. /\ UpdateCapacite(nro[n], Gb[c]).load = load
        /\ UpdateCapacite(nro[n], Gb[c]).max = nro[n].max
    BY <1>2, <2>1 DEF UpdateCapacite, NroDoc
  <2>. HIDE DEF load
  <2>. QED
    BY <1>1, <1>2, <1>4, <2>2
<1>8. RowWritten(Worker, "readLink", l, c, row)
  <2>1. born \in [Contracts -> Nat]
    BY DEF TypeInv, Tallies
  <2>2. /\ born' \in [Contracts -> Nat] /\ born'[c] = born[c] + 1
        /\ \A d \in Contracts : born'[d] >= born[d]
    BY <1>0, <1>4, <2>1
  <2>3. "readLink" \in LabelOf(Worker) /\ n # NoNro
    BY <1>1, PipelineAssumption DEF LabelOf, EventLabel
  <2>4. Rewritten(c, row)
    BY <1>0, <2>2 DEF Rewritten
  <2>. HIDE DEF l
  <2>. QED
    BY <1>4, <2>2, <2>3, <2>4 DEF RowWritten
<1>. HIDE DEF l
<1>9. /\ contract'[c] = row /\ ~Active(c)
       /\ \A d \in Contracts : d # c => contract'[d] = contract[d]
  BY <1>0, <1>1, <1>2, <1>4 DEF Active, Exists
<1>10. Held[c] = NoNro /\ Held' = [Held EXCEPT ![c] = n]
  BY <1>0, <1>9 DEF Held, Active
<1>11. Load' = [Load EXCEPT ![n] = load] /\ Limit' = Limit
  <2>. HIDE DEF load
  <2>. QED
    BY <1>1, <1>7 DEF Load, Limit
<1>12. Ledger!Grant(c, n)
  <2>1. Load[n] = nro[n].load
    BY <1>1 DEF Load
  <2>. QED
    BY <1>10, <1>11, <2>1 DEF Ledger!Grant
<1>13. Leaving' \subseteq Leaving /\ c \notin Leaving'
  <2>1. Leaving' \subseteq Leaving
    BY <1>0, <1>5, <1>6, <1>8, LeavingStep
  <2>2. c \notin Leaving
    <3>1. contract[c].oid = 0
      BY <1>0, <1>1 DEF LedgerInv, RowsOK
    <3>2. \A r \in Requests : /\ r # Worker
                              /\ pc[r] \in {"notifyCancel", "erase"} => loc[r].target # 0
      BY PipelineAssumption DEF LedgerInv, ReleaseOK, CancelLabel, Procs
    <3>. QED
      BY <3>1, <3>2 DEF Leaving
  <2>. QED
    BY <2>1, <2>2
<1>14. ASSUME NEW m \in Nros
       PROVE  nro'[m].load <= Units(Gb, Holding(m)' \ Leaving')
  <2>. DEFINE S == Holding(m) \ Leaving
  <2>1. Holding(m)' = IF m = n THEN Holding(m) \cup {c} ELSE Holding(m)
    BY <1>0, <1>9 DEF Holding, Active
  <2>2. /\ S \in SUBSET Contracts /\ c \notin S /\ Holding(m)' \in SUBSET Contracts
        /\ S \in SUBSET (Holding(m)' \ Leaving')
    BY <1>9, <1>13, <2>1 DEF Holding
  <2>3. nro[m].load <= Units(Gb, S) /\ nro[m].load \in Nat
    BY <1>2, Staying DEF LedgerInv, NroDoc
  <2>. HIDE DEF S
  <2>4. CASE m # n
    BY <1>7, <2>2, <2>3, <2>4, UnitsGrow
  <2>5. CASE m = n
    <3>1. S \cup {c} \in SUBSET (Holding(m)' \ Leaving')
      BY <1>13, <2>1, <2>2, <2>5
    <3>2. IsFiniteSet(S) /\ \A d \in S : Gb[d] \in Nat
      BY <2>2, HoldingFinite
    <3>3. Units(Gb, S \cup {c}) = Units(Gb, S) + Gb[c]
      BY <1>0, <2>2, <3>2, UnitsAdd
    <3>4. Units(Gb, S) \in Nat
      BY <2>2, HoldingFinite
    <3>5. load <= Units(Gb, S \cup {c})
      BY <1>0, <2>3, <2>5, <3>3, <3>4
    <3>. HIDE DEF load
    <3>6. Units(Gb, S \cup {c}) <= Units(Gb, Holding(m)' \ Leaving')
      BY <2>2, <3>1, UnitsGrow
    <3>7. /\ Units(Gb, S \cup {c}) \in Nat /\ Units(Gb, Holding(m)' \ Leaving') \in Nat
      BY <2>2, <3>1, UnitsGrow
    <3>. QED
      BY <1>3, <1>7, <2>5, <3>5, <3>6, <3>7
  <2>. QED
    BY <2>4, <2>5
<1>15. LedgerInv'
  BY <1>0, <1>5, <1>6, <1>8, <1>14, WriteStep, LedgerInvOf
<1>. QED
  BY <1>0, <1>1, <1>12, <1>15 DEF LedgerStep, Ledger!LedgerNext

\* The row a cancellation saves: the document found, CANCELLED or as it was.
Saved(c) == {[contract[c] EXCEPT !.status = "CANCELLED"], contract[c]}

LEMMA SaveCancelled ==
  ASSUME TypeInv, LedgerInv, NEW p \in Procs, pc[p] \in CancelLabel, Same(loc[p]),
         pc' = [pc EXCEPT ![p] = "notifyCancel"], UNCHANGED <<loc, born>>,
         NEW row \in Saved(loc[p].c), contract' = [contract EXCEPT ![loc[p].c] = row],
         \A n \in Nros : nro'[n].load <= nro[n].load
  PROVE  /\ loc[p] \in Locals /\ loc[p].c \in Contracts /\ row \in ContractRow
         /\ RowWritten(p, "notifyCancel", loc[p], loc[p].c, row)
<1>. DEFINE c == loc[p].c
<1>1. loc[p] \in Locals /\ c \in Contracts /\ contract[c] \in ContractRow /\ Exists(c)
  <2>1. loc[p] \in Locals
    BY DEF TypeInv, Handlers
  <2>2. c \in Contracts
    BY <2>1 DEF Locals
  <2>. QED
    BY <2>1, <2>2 DEF TypeInv, Collections, Same
<1>2. /\ row \in ContractRow /\ row.oid = contract[c].oid /\ row.nro = contract[c].nro
      /\ row.status # "NONE" /\ (row.status = "ACTIVE" => Active(c))
  BY <1>1 DEF Saved, ContractRow, Exists, Active
<1>3. row.status = "ACTIVE" => row.nro # NoNro
  BY <1>1, <1>2 DEF LedgerInv, RowsOK
<1>4. loc' = [loc EXCEPT ![p] = loc[p]] /\ "notifyCancel" \in LabelOf(p)
  BY DEF TypeInv, Handlers, LabelOf, CancelLabel
<1>5. p # Worker => loc[p].target \in 1..born[c]
  BY DEF LedgerInv, ReleaseOK
<1>6. born' \in [Contracts -> Nat] /\ \A d \in Contracts : born'[d] >= born[d]
  <2>1. born \in [Contracts -> Nat]
    BY DEF TypeInv, Tallies
  <2>. QED
    BY <2>1
<1>. QED
  BY <1>1, <1>2, <1>3, <1>4, <1>5, <1>6 DEF RowWritten, Rewritten

\* A refused contract without an NRO holds nothing.
LEMMA PlainSaveStep ==
  ASSUME TypeInv, TypeInv', LedgerInv, NEW p \in Procs, PlainSave(p)
  PROVE  LedgerInv' /\ LedgerStep
<1>. DEFINE c == loc[p].c
            row == [contract[c] EXCEPT !.status = "CANCELLED"]
<1>0. /\ pc[p] = "plainSave" /\ pc' = [pc EXCEPT ![p] = "notifyCancel"] /\ Same(loc[p])
      /\ UNCHANGED <<nro, loc, born>>
      /\ contract' = [contract EXCEPT ![c] = row] /\ row \in Saved(c)
  BY DEF PlainSave, Go, Cancelled, history, Saved
<1>1. contract \in [Contracts -> ContractRow] /\ nro \in [Nros -> NroDoc]
  BY DEF TypeInv, Collections
<1>2. \A n \in Nros : nro'[n].load <= nro[n].load
  BY <1>0, <1>1 DEF NroDoc
<1>3. /\ loc[p] \in Locals /\ c \in Contracts /\ row \in ContractRow
      /\ RowWritten(p, "notifyCancel", loc[p], c, row)
  <2>. HIDE DEF row
  <2>. QED
    BY <1>0, <1>2, SaveCancelled DEF CancelLabel
<1>4. contract[c].nro = NoNro
  BY <1>0 DEF LedgerInv, ReleaseOK
<1>5. ~Active(c) /\ contract'[c].status # "ACTIVE"
  <2>1. ~Active(c)
    BY <1>3, <1>4 DEF LedgerInv, RowsOK
  <2>2. contract'[c].status = "CANCELLED"
    BY <1>0, <1>1, <1>3 DEF ContractRow
  <2>. QED
    BY <2>1, <2>2 DEF Active
<1>6. \A d \in Contracts : d # c => contract'[d] = contract[d]
  BY <1>0, <1>1, <1>3
<1>7. UNCHANGED Ledger!ledger
  BY <1>0, <1>5, <1>6 DEF Ledger!ledger, Held, Load, Limit, Active
<1>8. ASSUME NEW n \in Nros
      PROVE  nro'[n].load <= Units(Gb, Holding(n)' \ Leaving')
  <2>1. Holding(n)' = Holding(n) /\ Holding(n) \in SUBSET Contracts /\ c \notin Holding(n)
    BY <1>5, <1>6 DEF Holding, Active
  <2>2. \A d \in Leaving' : d \in Leaving \/ d = c
    BY <1>3, LeavingStep
  <2>3. Holding(n) \ Leaving \in SUBSET (Holding(n)' \ Leaving')
    BY <2>1, <2>2
  <2>4. nro[n].load <= Units(Gb, Holding(n) \ Leaving) /\ nro[n].load \in Nat
    BY <1>1, Staying DEF LedgerInv, NroDoc
  <2>. QED
    BY <1>0, <2>1, <2>3, <2>4, UnitsGrow
<1>9. LedgerInv'
  BY <1>3, <1>8, WriteStep, LedgerInvOf
<1>. QED
  BY <1>7, <1>9 DEF LedgerStep

\* A release gives back the load of its contract, down to none: the load left is held by
\* the contracts that stay.  When the status is not written, or was not ACTIVE, the load
\* is written off.
LEMMA ReleaseStep ==
  ASSUME TypeInv, TypeInv', LedgerInv, NEW p \in Procs, CommitRelease(p)
  PROVE  LedgerInv' /\ LedgerStep
<1>. DEFINE c == loc[p].c
            n == loc[p].n
            row == IF loc[p].dirty THEN [contract[c] EXCEPT !.status = "CANCELLED"] ELSE contract[c]
            load == IF nro[n].load < Gb[c] THEN 0 ELSE nro[n].load - Gb[c]
<1>0. /\ pc[p] = "commitRelease" /\ pc' = [pc EXCEPT ![p] = "notifyCancel"] /\ Same(loc[p])
      /\ UNCHANGED <<loc, born>>
      /\ nro' = [nro EXCEPT ![n] = UpdateCapacite(nro[n], -Gb[c])]
      /\ contract' = IF loc[p].dirty THEN Cancelled(c) ELSE contract
      /\ row \in Saved(c)
  <2>1. n \in Nros
    BY DEF CommitRelease, Go, LedgerInv, ReleaseOK
  <2>. QED
    BY <2>1 DEF CommitRelease, Go, history, Saved, TypeInv, Collections
<1>1. /\ contract \in [Contracts -> ContractRow] /\ nro \in [Nros -> NroDoc]
      /\ n \in Nros /\ contract[c].nro = n /\ nro[n] \in NroDoc /\ n # NoNro
      /\ loc[p] \in Locals /\ c \in Contracts
  <2>1. n \in Nros /\ contract[c].nro = n /\ n # NoNro
    BY <1>0, PipelineAssumption DEF LedgerInv, ReleaseOK
  <2>2. loc[p] \in Locals
    BY DEF TypeInv, Handlers
  <2>3. c \in Contracts
    BY <2>2 DEF Locals
  <2>. QED
    BY <2>1, <2>2, <2>3 DEF TypeInv, Collections
<1>2. /\ nro[n].load \in Nat /\ nro[n].max \in Nat /\ Gb[c] \in Nat
      /\ load \in Nat /\ load <= nro[n].load
  BY <1>1, PipelineAssumption DEF NroDoc
<1>3. contract' = [contract EXCEPT ![c] = row]
  BY <1>0, <1>1 DEF Cancelled
<1>4. /\ nro'[n].load = load /\ nro'[n].max = nro[n].max
      /\ \A m \in Nros : m # n => nro'[m] = nro[m]
  <2>1. AtLeastZero(nro[n].load + (-Gb[c])) = load
    BY <1>2 DEF AtLeastZero
  <2>2. /\ UpdateCapacite(nro[n], -Gb[c]).load = load
        /\ UpdateCapacite(nro[n], -Gb[c]).max = nro[n].max
    BY <1>1, <2>1 DEF UpdateCapacite, NroDoc
  <2>. HIDE DEF load
  <2>. QED
    BY <1>0, <1>1, <2>2
<1>5. \A m \in Nros : nro'[m].load <= nro[m].load
  <2>1. \A m \in Nros : nro[m].load \in Nat
    BY <1>1 DEF NroDoc
  <2>. HIDE DEF load
  <2>. QED
    BY <1>2, <1>4, <2>1
<1>6. row \in ContractRow /\ RowWritten(p, "notifyCancel", loc[p], c, row)
  <2>. HIDE DEF row
  <2>. QED
    BY <1>0, <1>3, <1>5, SaveCancelled DEF CancelLabel
<1>7. /\ contract'[c] = row /\ \A d \in Contracts : d # c => contract'[d] = contract[d]
  BY <1>1, <1>3
<1>8. Load' = [Load EXCEPT ![n] = load] /\ Limit' = Limit /\ Load[n] = nro[n].load
  <2>. HIDE DEF load
  <2>. QED
    BY <1>1, <1>4 DEF Load, Limit
<1>9. ASSUME NEW m \in Nros
      PROVE  nro'[m].load <= Units(Gb, Holding(m)' \ Leaving')
  <2>. DEFINE S == Holding(m) \ Leaving
  <2>1. Holding(m) \ {c} \in SUBSET Holding(m)' /\ (m # n => c \notin Holding(m))
    BY <1>1, <1>7 DEF Holding, Active
  <2>2. \A d \in Leaving' : d \in Leaving \/ d = c
    BY <1>1, <1>6, LeavingStep
  <2>3. /\ S \in SUBSET Contracts /\ Holding(m)' \ Leaving' \in SUBSET Contracts
        /\ S \ {c} \in SUBSET (Holding(m)' \ Leaving') /\ (m # n => c \notin S)
        /\ c \in S => c \in Holding(m)
    BY <2>1, <2>2 DEF Holding
  <2>4. nro[m].load <= Units(Gb, S) /\ nro[m].load \in Nat
    BY <1>1, Staying DEF LedgerInv, NroDoc
  <2>5. /\ IsFiniteSet(S) /\ (\A d \in S : Gb[d] \in Nat) /\ Units(Gb, S) \in Nat
        /\ Units(Gb, S \ {c}) \in Nat /\ Units(Gb, Holding(m)' \ Leaving') \in Nat
        /\ Units(Gb, S \ {c}) <= Units(Gb, Holding(m)' \ Leaving')
    BY <2>3, HoldingFinite, UnitsGrow
  <2>. HIDE DEF S
  <2>6. CASE c \notin S
    <3>1. S \ {c} = S
      BY <2>6
    <3>2. nro'[m].load <= nro[m].load /\ nro'[m].load \in Nat
      BY <1>5 DEF TypeInv, Collections, NroDoc
    <3>. QED
      BY <2>4, <2>5, <3>1, <3>2
  <2>7. CASE c \in S
    <3>1. m = n
      BY <2>3, <2>7
    <3>2. Units(Gb, S) = Units(Gb, S \ {c}) + Gb[c]
      BY <2>5, <2>7, UnitsRemove
    <3>3. load <= Units(Gb, S \ {c})
      BY <1>2, <2>4, <2>5, <3>1, <3>2
    <3>. HIDE DEF load
    <3>. QED
      BY <1>2, <1>4, <2>5, <3>1, <3>3
  <2>. QED
    BY <2>6, <2>7
<1>10. LedgerInv'
  BY <1>1, <1>6, <1>9, WriteStep, LedgerInvOf
<1>11. CASE Active(c) /\ loc[p].dirty
  <2>1. row.status = "CANCELLED"
    BY <1>1, <1>11 DEF ContractRow
  <2>2. Held[c] = n /\ Held' = [Held EXCEPT ![c] = NoNro]
    BY <1>1, <1>7, <1>11, <2>1 DEF Held, Active
  <2>3. Ledger!Release(c, n)
    BY <1>8, <2>2 DEF Ledger!Release
  <2>. QED
    BY <1>1, <1>10, <2>3 DEF LedgerStep, Ledger!LedgerNext
<1>12. CASE ~(Active(c) /\ loc[p].dirty)
  <2>1. contract'[c].status = "ACTIVE" <=> Active(c)
    BY <1>1, <1>7, <1>12 DEF Active, ContractRow
  <2>2. Active(c) => contract'[c] = contract[c]
    BY <1>7, <1>12
  <2>3. Held' = Held
    BY <1>7, <2>1, <2>2 DEF Held, Active
  <2>4. Ledger!WriteOff(n, load)
    BY <1>2, <1>8, <2>3 DEF Ledger!WriteOff
  <2>5. load \in 0..Load[n]
    BY <1>2, <1>8
  <2>. QED
    BY <1>1, <1>10, <2>4, <2>5 DEF LedgerStep, Ledger!LedgerNext
<1>. QED
  BY <1>11, <1>12

\* The row erased is one whose load was given back before.
LEMMA EraseStep ==
  ASSUME TypeInv, TypeInv', LedgerInv, NEW r \in Requests, Erase(r)
  PROVE  LedgerInv' /\ LedgerStep
<1>. DEFINE c == loc[r].c
<1>0. /\ r \in Procs /\ r # Worker /\ loc[r] \in Locals /\ pc[r] = "erase" /\ Finish(r)
      /\ UNCHANGED <<nro, fdt, born>>
      /\ contract' = IF contract[c].oid = loc[r].target
                     THEN [contract EXCEPT ![c] = NoContract] ELSE contract
  BY PipelineAssumption DEF Erase, history, TypeInv, Handlers, Procs
<1>1. CASE contract[c].oid # loc[r].target
  <2>1. UNCHANGED db
    BY <1>0, <1>1 DEF db
  <2>2. LedgerInv'
    BY <1>0, <2>1, QuietFinish
  <2>. QED
    BY <1>0, <1>1, <2>2, SameLedger
<1>2. CASE contract[c].oid = loc[r].target
  <2>1. /\ c \in Contracts /\ contract \in [Contracts -> ContractRow] /\ nro \in [Nros -> NroDoc]
        /\ born \in [Contracts -> Nat]
    BY <1>0 DEF Locals, TypeInv, Collections, Tallies
  <2>2. /\ contract' = [contract EXCEPT ![c] = NoContract] /\ contract'[c] = NoContract
        /\ \A d \in Contracts : d # c => contract'[d] = contract[d]
    BY <1>0, <1>2, <2>1
  <2>3. RowWritten(r, "idle", Blank, c, NoContract)
    <3>1. /\ pc' = [pc EXCEPT ![r] = "idle"] /\ loc' = [loc EXCEPT ![r] = Blank]
          /\ "idle" \in LabelOf(r) /\ "idle" \notin CancelLabel
      BY <1>0 DEF Finish, LabelOf, CancelLabel
    <3>2. born' \in [Contracts -> Nat] /\ (\A d \in Contracts : born'[d] >= born[d])
      BY <1>0, <2>1
    <3>3. NoContract.status = "NONE"
      BY DEF NoContract
    <3>4. \A n \in Nros : nro'[n].load <= nro[n].load
      BY <1>0, <2>1 DEF NroDoc
    <3>5. Rewritten(c, NoContract)
      BY DEF Rewritten
    <3>. QED
      BY <1>0, <2>2, <3>1, <3>2, <3>3, <3>4, <3>5 DEF RowWritten
  <2>4. NoContract \in ContractRow /\ NoContract.status = "NONE"
    BY DEF NoContract, ContractRow
  <2>5. c \in Leaving
    BY <1>0, <1>2, <2>1 DEF Leaving
  <2>6. Leaving' \subseteq Leaving
    BY <1>0, <2>1, <2>3, <2>4, BlankType, LeavingStep
  <2>7. ASSUME NEW n \in Nros
        PROVE  /\ Holding(n) \in SUBSET Contracts /\ Holding(n)' = Holding(n) \ {c}
               /\ Holding(n) \ Leaving \in SUBSET (Holding(n) \ {c})
               /\ Holding(n) \ Leaving \in SUBSET (Holding(n)' \ Leaving')
               /\ nro[n].load <= Units(Gb, Holding(n) \ Leaving) /\ nro[n].load \in Nat
    <3>1. Holding(n) \in SUBSET Contracts /\ Holding(n)' = Holding(n) \ {c}
      BY <2>2, <2>4 DEF Holding, Active
    <3>2. nro[n].load <= Units(Gb, Holding(n) \ Leaving) /\ nro[n].load \in Nat
      BY <2>1, Staying DEF LedgerInv, NroDoc
    <3>. QED
      BY <2>5, <2>6, <3>1, <3>2
  <2>8. LedgerInv'
    <3>1. ASSUME NEW n \in Nros
          PROVE  nro'[n].load <= Units(Gb, Holding(n)' \ Leaving')
      <4>1. /\ Holding(n)' \ Leaving' \in SUBSET Contracts
            /\ Holding(n) \ Leaving \in SUBSET (Holding(n)' \ Leaving')
        BY <2>7
      <4>2. /\ nro[n].load <= Units(Gb, Holding(n) \ Leaving) /\ nro[n].load \in Nat
            /\ nro'[n].load = nro[n].load
        BY <1>0, <2>7
      <4>. QED
        BY <4>1, <4>2, UnitsGrow
    <3>. QED
      BY <1>0, <2>1, <2>3, <2>4, <3>1, BlankType, WriteStep, LedgerInvOf
  <2>9. Load' = Load /\ Limit' = Limit
    BY <1>0 DEF Load, Limit
  <2>10. CASE ~Active(c)
    <3>1. Held' = Held
      BY <2>1, <2>2, <2>4, <2>10 DEF Held, Active
    <3>. QED
      BY <2>8, <2>9, <3>1 DEF LedgerStep, Ledger!ledger
  <2>11. CASE Active(c)
    <3>. DEFINE n == contract[c].nro
    <3>1. n \in Nros
      <4>1. n \in Nros \cup {NoNro}
        BY <2>1 DEF ContractRow
      <4>. QED
        BY <2>1, <2>11, <4>1 DEF LedgerInv, RowsOK
    <3>2. Held[c] = n /\ Held' = [Held EXCEPT ![c] = NoNro]
      BY <2>1, <2>2, <2>4, <2>11 DEF Held, Active
    <3>3. Load[n] <= Ledger!Units(Gb, Ledger!Holders(n) \ {c})
      <4>1. Load[n] = nro[n].load
        BY <3>1 DEF Load
      <4>2. Ledger!Holders(n) = Holding(n)
        BY <3>1, LedgerHolders
      <4>3. Ledger!Units(Gb, Holding(n) \ {c}) = Units(Gb, Holding(n) \ {c})
        BY LedgerUnits
      <4>4. nro[n].load <= Units(Gb, Holding(n) \ {c})
        <5>. HIDE DEF n
        <5>1. /\ Holding(n) \ {c} \in SUBSET Contracts
              /\ Holding(n) \ Leaving \in SUBSET (Holding(n) \ {c})
          BY <2>7, <3>1
        <5>2. nro[n].load <= Units(Gb, Holding(n) \ Leaving) /\ nro[n].load \in Nat
          BY <2>7, <3>1
        <5>. QED
          BY <5>1, <5>2, UnitsGrow
      <4>. QED
        BY <4>1, <4>2, <4>3, <4>4
    <3>4. Ledger!Forget(c, n)
      BY <2>9, <3>2, <3>3 DEF Ledger!Forget
    <3>. QED
      BY <2>1, <2>8, <3>1, <3>4 DEF LedgerStep, Ledger!LedgerNext
  <2>. QED
    BY <2>10, <2>11
<1>. QED
  BY <1>1, <1>2

-----------------------------------------------------------------------------
(* The theorems.                                                           *)

\* A replica set, and contracts created by events only.
EventsOnReplicaSet == Transactional /\ "create" \notin RestOps

\* The calls of the standalone paths and of POST /contracts are not reached.
LEMMA Unreached ==
  ASSUME LedgerInv, NEW p \in Procs
  PROVE  /\ ~UpsertFdt(p) /\ ~UpsertRow(p) /\ ~ClaimSteps(p)
         /\ ~ReadRelease(p) /\ ~SaveRelease(p) /\ ~ReadPortsBack(p) /\ ~SavePortsBack(p)
         /\ ~ReadLinkBack(p) /\ ~SaveLinkBack(p) /\ ~SaveRow(p)
         /\ p # Worker => ~ResolveParents(p) /\ ~InsertRow(p)
<1>1. /\ pc[p] \notin {"upsertFdt", "upsertRow", "readClaim", "saveClaim", "readPorts", "savePorts",
                       "readRelease", "saveRelease", "readPortsBack", "savePortsBack",
                       "readLinkBack", "saveLinkBack", "saveRow"}
      /\ p # Worker => pc[p] \notin {"readFdt", "insertRow"}
  BY DEF LedgerInv, LabelsOK, CancelLabel, EventLabel, Procs
<1>. QED
  BY <1>1 DEF UpsertFdt, UpsertRow, ClaimSteps, ReadClaim, SaveClaim, ReadPorts, SavePorts,
     ReadRelease, SaveRelease, ReadPortsBack, SavePortsBack, ReadLinkBack, SaveLinkBack, SaveRow,
     ResolveParents, InsertRow, ReadNro, SaveNro, ReadFdtDoc, SaveFdt, Go

LEMMA LedgerInvNext ==
  ASSUME EventsOnReplicaSet, TypeInv, TypeInv', LedgerInv, [Next]_vars
  PROVE  LedgerInv' /\ LedgerStep
<1>0. Worker \in Procs /\ Requests \subseteq Procs /\ Worker \notin Requests /\ Transactional
  BY PipelineAssumption DEF Procs, EventsOnReplicaSet
<1>1. ASSUME NEW p \in Procs, CancelSteps(p) \/ WriteRefused(p) \/ CallFails(p) \/ AbortCommit(p)
      PROVE  LedgerInv' /\ LedgerStep
  <2>1. CASE CancelSteps(p)
    <3>1. FindContract(p) \/ PlainSave(p) \/ CommitRelease(p) \/ NotifyCancel(p)
      BY <2>1, Unreached DEF CancelSteps
    <3>. QED
      BY <1>0, <3>1, QuietCancel, PlainSaveStep, ReleaseStep
  <2>2. CASE WriteRefused(p) \/ CallFails(p)
    BY <2>2, QuietFailure
  <2>3. CASE AbortCommit(p)
    BY <1>0, <2>3, QuietCancel
  <2>. QED
    BY <1>1, <2>1, <2>2, <2>3
<1>2. CASE WorkerStep
  <2>1. CASE TakeJob \/ Broadcast \/ Complete
    BY <2>1, QuietJob
  <2>2. CASE NewSteps(Worker)
    <3>1. \/ FindExisting(Worker) \/ ResolveNro(Worker) \/ ReadLink(Worker) \/ SaveLink(Worker)
          \/ NotifyNew(Worker) \/ CountLink(Worker) \/ Refuse(Worker) \/ CommitClaim(Worker)
      BY <1>0, <2>2, Unreached DEF NewSteps
    <3>. QED
      BY <1>0, <3>1, QuietNew, QuietNro, RefuseStep, ClaimStep
  <2>3. CASE ClaimSteps(Worker)
    BY <1>0, <2>3, Unreached
  <2>4. CASE NroSteps(Worker)
    BY <2>4, QuietNro
  <2>. QED
    BY <1>0, <1>1, <1>2, <2>1, <2>2, <2>3, <2>4 DEF WorkerStep
<1>3. ASSUME NEW r \in Requests, RequestStep(r)
      PROVE  LedgerInv' /\ LedgerStep
  <2>1. ASSUME NEW c \in Contracts, PostContract(r, c)
        PROVE  FALSE
    BY <2>1 DEF PostContract, Call, EventsOnReplicaSet
  <2>2. CASE ClaimSteps(r)
    BY <1>0, <2>2, Unreached
  <2>3. CASE RestSteps(r)
    <3>1. FindById(r) \/ Erase(r)
      BY <1>0, <2>3, Unreached DEF RestSteps
    <3>. QED
      BY <3>1, QuietRest, EraseStep
  <2>4. ASSUME NEW c \in Contracts, DeleteContract(r, c)
        PROVE  LedgerInv' /\ LedgerStep
    BY <2>4, QuietRest
  <2>5. CASE EditSteps(r)
    BY <2>5, QuietEdit
  <2>. QED
    BY <1>0, <1>1, <1>3, <2>1, <2>2, <2>3, <2>4, <2>5 DEF RequestStep
<1>4. ASSUME NEW ev \in Events, Enqueue(ev)
      PROVE  LedgerInv' /\ LedgerStep
  <2>1. UNCHANGED <<nro, contract, born, pc, loc>>
    BY <1>4 DEF Enqueue, db, history
  <2>. QED
    BY <2>1, QuietQueue
<1>5. ASSUME NEW id \in DOMAIN jobs, Promote(id) \/ Recover(id)
      PROVE  LedgerInv' /\ LedgerStep
  <2>1. UNCHANGED <<nro, contract, born, pc, loc>>
    BY <1>5 DEF Promote, Recover, db, history
  <2>. QED
    BY <2>1, QuietQueue
<1>6. CASE Failure
  BY <1>1, <1>6, QuietCrash DEF Failure
<1>7. CASE UNCHANGED vars
  <2>1. UNCHANGED <<nro, contract, born, pc, loc>>
    BY <1>7 DEF vars
  <2>. QED
    BY <2>1, QuietQueue
<1>. QED
  BY <1>2, <1>3, <1>4, <1>5, <1>6, <1>7 DEF Next, AllDone

LEMMA LedgerInvInit ==
  ASSUME Init
  PROVE  LedgerInv /\ Ledger!LedgerInit
<1>1. LabelsOK /\ ClaimOK /\ ReleaseOK
  BY DEF Init, LabelsOK, ClaimOK, ReleaseOK, CancelLabel, Procs
<1>2. RowsOK
  <2>1. ASSUME NEW c \in Contracts
        PROVE  born[c] = 0 /\ contract[c] = NoContract
    BY DEF Init
  <2>2. NoContract.oid = 0 /\ NoContract.status = "NONE"
    BY DEF NoContract
  <2>3. 0 <= 0
    OBVIOUS
  <2>. QED
    BY <2>1, <2>2, <2>3 DEF RowsOK, Exists, Active
<1>3. \A n \in Nros : nro[n].load <= Units(Gb, Holding(n) \ Leaving)
  <2>1. ASSUME NEW n \in Nros
        PROVE  nro[n].load <= Units(Gb, Holding(n) \ Leaving)
    <3>1. nro[n].load = 0
      BY DEF Init
    <3>2. Holding(n) \ Leaving \in SUBSET Contracts
      BY DEF Holding
    <3>. QED
      BY <3>1, <3>2, HoldingFinite
  <2>. QED
    BY <2>1
<1>4. Held = [c \in Contracts |-> NoNro]
  BY DEF Init, Held, Active, NoContract
<1>5. Load = [n \in Nros |-> 0]
  BY DEF Init, Load
<1>6. Limit = Capacity
  <2>1. Limit = [n \in Nros |-> Capacity[n]]
    BY DEF Init, Limit
  <2>. QED
    BY <2>1, PipelineAssumption
<1>. QED
  BY <1>1, <1>2, <1>3, <1>4, <1>5, <1>6, Staying DEF LedgerInv, Ledger!LedgerInit

\* The worker alone inserts rows, a release is for the NRO its contract is on, and an
\* erased row's load is given back before, along every interleaving and failure.
THEOREM LedgerInvCorrect ==
  ASSUME EventsOnReplicaSet
  PROVE  Spec => []LedgerInv
<1>1. TypeInv /\ TypeInv' /\ LedgerInv /\ [Next]_vars => LedgerInv'
  BY LedgerInvNext
<1>2. Init => LedgerInv
  BY LedgerInvInit
<1>. QED
  BY <1>1, <1>2, TypeInvCorrect, PTL DEF Spec

\* The pipeline implements the capacity ledger: every write to the collections, by the
\* worker or a deletion, is one grant, release, write-off, removal or resize of it.
THEOREM LedgerImplemented ==
  ASSUME EventsOnReplicaSet
  PROVE  Spec => ImplementsLedger
<1>1. TypeInv /\ TypeInv' /\ LedgerInv /\ [Next]_vars => [Ledger!LedgerNext]_Ledger!ledger
  BY LedgerInvNext DEF LedgerStep
<1>2. Init => Ledger!LedgerInit
  BY LedgerInvInit
<1>. QED
  BY <1>1, <1>2, TypeInvCorrect, LedgerInvCorrect, PTL DEF Spec, ImplementsLedger, Ledger!LedgerSpec

\* No NRO ever records more load than its ACTIVE contracts hold: nothing leaks.
THEOREM LoadHeld ==
  ASSUME EventsOnReplicaSet
  PROVE  Spec => []LoadIsHeld
<1>1. TypeInv /\ LedgerInv => LoadIsHeld
  <2>. SUFFICES ASSUME TypeInv, LedgerInv, NEW n \in Nros
                PROVE  Load[n] <= Ledger!Units(Gb, Ledger!Holders(n))
    BY DEF LoadIsHeld, Ledger!Covered
  <2>1. Load[n] = nro[n].load /\ nro[n].load \in Nat
    BY DEF Load, TypeInv, Collections, NroDoc
  <2>2. nro[n].load <= Units(Gb, Holding(n) \ Leaving)
    BY Staying DEF LedgerInv
  <2>3. Holding(n) \in SUBSET Contracts /\ Holding(n) \ Leaving \in SUBSET Holding(n)
    BY DEF Holding
  <2>4. nro[n].load <= Units(Gb, Holding(n))
    BY <2>1, <2>2, <2>3, UnitsGrow
  <2>. QED
    BY <2>1, <2>4, LedgerHolders, LedgerUnits
<1>. QED
  BY <1>1, TypeInvCorrect, LedgerInvCorrect, PTL

\* Nothing but the commit of a claim makes a row ACTIVE.
LEMMA OnlyClaims ==
  ASSUME EventsOnReplicaSet, TypeInv, LedgerInv, [Next]_vars, NEW c \in Contracts,
         ~Active(c), Active(c)'
  PROVE  CommitClaim(Worker)
<1>. SUFFICES ASSUME ~CommitClaim(Worker)
              PROVE  FALSE
  OBVIOUS
<1>0. /\ Worker \in Procs /\ Requests \subseteq Procs /\ contract \in [Contracts -> ContractRow]
      /\ \A p \in Procs : loc[p].c \in Contracts
  BY DEF Procs, TypeInv, Handlers, Locals, Collections
<1>1. contract' # contract
  BY DEF Active
<1>2. ASSUME NEW d \in Contracts
      PROVE  contract' # Cancelled(d) /\ contract' # [contract EXCEPT ![d] = NoContract]
  <2>1. contract[c].status # "ACTIVE" /\ contract'[c].status = "ACTIVE"
    BY DEF Active
  <2>2. Cancelled(d)[c].status \in {contract[c].status, "CANCELLED"}
    BY <1>0 DEF Cancelled, ContractRow
  <2>3. [contract EXCEPT ![d] = NoContract][c].status \in {contract[c].status, "NONE"}
    BY <1>0 DEF NoContract
  <2>. QED
    BY <2>1, <2>2, <2>3
<1>3. ASSUME NEW p \in Procs, CancelSteps(p)
      PROVE  FALSE
  <2>1. contract' = contract \/ contract' = Cancelled(loc[p].c)
    BY <1>3 DEF CancelSteps, FindContract, PlainSave, CommitRelease, ReadLinkBack, SaveRow,
       NotifyCancel, ReadRelease, SaveRelease, ReadPortsBack, SavePortsBack, SaveLinkBack,
       ReadNro, SaveNro, ReadFdtDoc, SaveFdt, db
  <2>. QED
    BY <1>0, <1>1, <1>2, <2>1
<1>4. ASSUME NEW p \in Procs, WriteRefused(p) \/ CallFails(p) \/ AbortCommit(p)
      PROVE  FALSE
  BY <1>1, <1>4 DEF WriteRefused, CallFails, AbortCommit, Throw, db
<1>5. CASE NewSteps(Worker)
  <2>1. CASE Refuse(Worker)
    <3>1. PutRow(loc[Worker].c, "FAILED", loc[Worker].n, NoFdt)
      BY <2>1 DEF Refuse
    <3>. QED
      BY <1>0, <3>1 DEF PutRow, Active
  <2>2. CASE ~Refuse(Worker)
    <3>1. contract' = contract
      BY <1>0, <1>5, <2>2, Unreached DEF NewSteps, FindExisting, ResolveNro, ReadLink, SaveLink,
         CountLink, NotifyNew, ReadFdtDoc, SaveFdt, db
    <3>. QED
      BY <1>1, <3>1
  <2>. QED
    BY <2>1, <2>2
<1>6. CASE TakeJob \/ Broadcast \/ Complete \/ NroSteps(Worker)
  BY <1>1, <1>6 DEF TakeJob, Broadcast, Complete, NroSteps, UpsertNro, ReadUpdate, SaveUpdate,
     ReadDelete, SaveDelete, ReadNro, SaveNro, db
<1>7. CASE WorkerStep
  BY <1>0, <1>3, <1>4, <1>5, <1>6, <1>7, Unreached DEF WorkerStep
<1>8. ASSUME NEW r \in Requests, RequestStep(r)
      PROVE  FALSE
  <2>1. ASSUME NEW d \in Contracts, PostContract(r, d) \/ DeleteContract(r, d)
        PROVE  FALSE
    BY <1>1, <2>1 DEF PostContract, DeleteContract, Call, db
  <2>2. CASE RestSteps(r)
    <3>1. ~ResolveParents(r) /\ ~InsertRow(r)
      BY <1>0, PipelineAssumption, Unreached
    <3>2. contract' = contract \/ contract' = [contract EXCEPT ![loc[r].c] = NoContract]
      BY <2>2, <3>1 DEF RestSteps, FindById, Erase, db
    <3>. QED
      BY <1>0, <1>1, <1>2, <3>2
  <2>3. CASE EditSteps(r)
    BY <1>1, <2>3, EditStep
  <2>. QED
    BY <1>0, <1>3, <1>4, <1>8, <2>1, <2>2, <2>3, Unreached DEF RequestStep
<1>9. CASE (\E ev \in Events : Enqueue(ev)) \/ \E id \in DOMAIN jobs : Promote(id) \/ Recover(id)
  BY <1>1, <1>9 DEF Enqueue, Promote, Recover, db
<1>10. CASE Failure
  BY <1>1, <1>4, <1>10 DEF Failure, Crash, db
<1>11. CASE UNCHANGED vars
  BY <1>1, <1>11 DEF vars
<1>. QED
  BY <1>7, <1>8, <1>9, <1>10, <1>11 DEF Next, AllDone

\* An NRO's load grows only by the commit of a claim: a grant of the ledger.
LEMMA OnlyGrants ==
  ASSUME EventsOnReplicaSet, TypeInv, TypeInv', LedgerInv, [Next]_vars,
         NEW n \in Nros, Load'[n] > Load[n]
  PROVE  CommitClaim(Worker)
<1>1. Load[n] \in Nat /\ Load'[n] \in Nat /\ Load \in [Nros -> Nat]
  BY DEF TypeInv, Collections, NroDoc, Load
<1>2. ~(Load' = Load)
  BY <1>1
<1>3. LedgerStep
  BY LedgerInvNext
<1>4. PICK m \in Nros : \/ \E c \in Contracts :
                             Ledger!Grant(c, m) \/ Ledger!Release(c, m) \/ Ledger!Forget(c, m)
                        \/ \E less \in 0..Load[m] : Ledger!WriteOff(m, less)
                        \/ Ledger!Resize(m)
  BY <1>2, <1>3 DEF LedgerStep, Ledger!LedgerNext, Ledger!ledger
<1>5. ASSUME NEW c \in Contracts, Ledger!Grant(c, m)
      PROVE  CommitClaim(Worker)
  <2>1. Held[c] = NoNro /\ Held'[c] = m /\ m # NoNro
    <3>1. Held \in [Contracts -> {Held[d] : d \in Contracts}]
      BY DEF Held
    <3>. QED
      BY <1>5, <3>1, PipelineAssumption DEF Ledger!Grant
  <2>2. Active(c)'
    BY <2>1 DEF Held, Active
  <2>3. ~Active(c)
    BY <2>1 DEF Held, LedgerInv, RowsOK
  <2>. QED
    BY <2>2, <2>3, OnlyClaims
<1>6. ASSUME NEW c \in Contracts, Ledger!Release(c, m)
      PROVE  FALSE
  <2>1. Load' = [Load EXCEPT ![m] = IF Load[m] < Gb[c] THEN 0 ELSE Load[m] - Gb[c]]
    BY <1>1, <1>6 DEF Ledger!Release
  <2>2. m = n /\ Gb[c] \in Nat
    BY <1>1, <2>1, PipelineAssumption
  <2>. QED
    BY <1>1, <2>1, <2>2
<1>7. ASSUME NEW less \in 0..Load[m], Ledger!WriteOff(m, less)
      PROVE  FALSE
  <2>1. Load' = [Load EXCEPT ![m] = less]
    BY <1>1, <1>7 DEF Ledger!WriteOff
  <2>2. m = n
    BY <1>1, <2>1
  <2>. QED
    BY <1>1, <1>7, <2>1, <2>2
<1>8. ~Ledger!Resize(m) /\ \A c \in Contracts : ~Ledger!Forget(c, m)
  BY <1>2 DEF Ledger!Resize, Ledger!Forget
<1>. QED
  BY <1>4, <1>5, <1>6, <1>7, <1>8

\* What has come between the check and the commit has not raised the load: the copy the
\* check was made on is not below it, and left room for the contract.
THEOREM ClaimsFitCheck ==
  ASSUME EventsOnReplicaSet
  PROVE  Spec => ClaimsFit
<1>. DEFINE checked == loc[Worker].doc
<1>1. ASSUME TypeInv, TypeInv', LedgerInv, [Next]_vars, NEW n \in Nros, Load'[n] > Load[n]
      PROVE  checked.max = 0 \/ Load'[n] <= checked.max
  <2>. DEFINE c == loc[Worker].c
              m == loc[Worker].n
  <2>1. CommitClaim(Worker)
    BY <1>1, OnlyGrants
  <2>2. /\ Worker \in Procs /\ loc[Worker] \in Locals /\ nro \in [Nros -> NroDoc]
    BY <1>1 DEF TypeInv, Handlers, Procs, Collections
  <2>3. m \in Nros /\ checked.load >= nro[m].load /\ HasCapacityFor(checked, Gb[c])
    BY <1>1, <2>1 DEF CommitClaim, Go, LedgerInv, ClaimOK
  <2>4. nro' = [nro EXCEPT ![m] = UpdateCapacite(nro[m], Gb[c])]
    BY <2>1 DEF CommitClaim
  <2>5. /\ checked.load \in Nat /\ checked.max \in Nat /\ nro[m] \in NroDoc
        /\ nro[m].load \in Nat /\ nro[n].load \in Nat /\ Gb[c] \in Nat
    BY <2>2, <2>3, PipelineAssumption DEF Locals, NroDoc
  <2>. HIDE DEF m
  <2>6. n = m
    BY <1>1, <2>2, <2>4, <2>5 DEF Load
  <2>7. nro'[m].load = nro[m].load + Gb[c]
    BY <2>2, <2>3, <2>4, <2>5 DEF UpdateCapacite, AtLeastZero, NroDoc
  <2>8. checked.max = 0 \/ checked.load + Gb[c] <= checked.max
    BY <2>3, <2>5 DEF HasCapacityFor
  <2>. QED
    BY <2>3, <2>5, <2>6, <2>7, <2>8 DEF Load
<1>2. TypeInv /\ TypeInv' /\ LedgerInv /\ [Next]_vars =>
        [\A n \in Nros : LET doc == loc[Worker].doc IN
           Load'[n] > Load[n] => doc.max = 0 \/ Load'[n] <= doc.max]_vars
  BY <1>1
<1>. QED
  BY <1>2, TypeInvCorrect, LedgerInvCorrect, PTL DEF Spec, ClaimsFit

-----------------------------------------------------------------------------
(* Ports.                                                                  *)

\* The port a contract's own FDT may count.
PortOf(f) == IF f \in Contracts /\ Active(f) /\ f \notin Leaving THEN 1 ELSE 0

\* An event's contract is on its own FDT, which counts a port for it only while it is
\* ACTIVE and not being deleted, and a release is for the FDT of the document found.
PortsInv ==
  /\ \A c \in Contracts : Active(c) => contract[c].fdt = c
  /\ \A f \in Fdts : /\ fdt[f].ports <= PortOf(f)
                     /\ ~fdt[f].exists => fdt[f].ports = 0
  /\ \A p \in Procs :
       pc[p] = "commitRelease" /\ Same(loc[p]) => contract[loc[p].c].fdt = loc[p].f

PortsSame == \A f \in Fdts : fdt'[f].ports = fdt[f].ports /\ fdt'[f].exists = fdt[f].exists

LEMMA PortsQuiet ==
  ASSUME TypeInv, PortsInv, UNCHANGED contract, PortsSame,
         \A d \in Leaving' : d \in Leaving \/ ~Active(d),
         \A p \in Procs : pc'[p] = "commitRelease" /\ Same(loc'[p]) =>
                            contract[loc'[p].c].fdt = loc'[p].f
  PROVE  PortsInv'
<1>1. \A c \in Contracts : Active(c)' <=> Active(c)
  BY DEF Active
<1>2. \A f \in Fdts : PortOf(f)' = IF f \in Contracts /\ Active(f) /\ f \notin Leaving' THEN 1 ELSE 0
  BY <1>1 DEF PortOf
<1>3. \A f \in Fdts : PortOf(f) \in {0, 1} /\ PortOf(f)' \in {0, 1} /\ (PortOf(f) = 1 => PortOf(f)' = 1)
  BY <1>2 DEF PortOf
<1>4. \A f \in Fdts : fdt'[f].ports <= PortOf(f)' /\ (~fdt'[f].exists => fdt'[f].ports = 0)
  <2>1. \A f \in Fdts : fdt[f].ports \in Nat
    BY DEF TypeInv, Collections, FdtDoc
  <2>. QED
    BY <1>3, <2>1 DEF PortsInv, PortsSame
<1>5. \A p \in Procs : Same(loc[p])' <=> Same(loc'[p])
  BY DEF Same, Exists
<1>. QED
  BY <1>1, <1>4, <1>5 DEF PortsInv

\* The labels that have to do with a release.
Undoing == {"commitRelease", "notifyCancel", "erase"}

\* One handler moves, away from the releases.
LEMMA PortsGo ==
  ASSUME TypeInv, PortsInv, UNCHANGED contract, PortsSame, NEW p \in Procs, NEW lab, NEW l,
         pc' = [pc EXCEPT ![p] = lab], loc' = [loc EXCEPT ![p] = l],
         lab = "commitRelease" => (Same(l) => contract[l.c].fdt = l.f),
         p # Worker /\ lab \in {"notifyCancel", "erase"} /\ l.target = contract[l.c].oid =>
           l.c \in Leaving \/ ~Active(l.c)
  PROVE  PortsInv'
<1>0. /\ pc \in [Procs -> Label] /\ loc \in [Procs -> Locals] /\ Requests \subseteq Procs
      /\ Worker \notin Requests
  BY PipelineAssumption DEF TypeInv, Handlers, Procs
<1>1. ASSUME NEW d \in Leaving'
      PROVE  d \in Leaving \/ ~Active(d)
  <2>1. PICK r \in Requests : /\ pc'[r] \in {"notifyCancel", "erase"} /\ loc'[r].c = d
                              /\ loc'[r].target = contract[d].oid
    BY DEF Leaving
  <2>2. d \in Contracts
    BY DEF Leaving
  <2>3. CASE r = p
    <3>1. pc'[p] = lab /\ loc'[p] = l /\ p # Worker
      BY <1>0, <2>3
    <3>. QED
      BY <2>1, <2>3, <3>1
  <2>4. CASE r # p
    <3>1. pc'[r] = pc[r] /\ loc'[r] = loc[r]
      BY <1>0, <2>4
    <3>. QED
      BY <2>1, <2>2, <3>1 DEF Leaving
  <2>. QED
    BY <2>3, <2>4
<1>2. ASSUME NEW q \in Procs, pc'[q] = "commitRelease", Same(loc'[q])
      PROVE  contract[loc'[q].c].fdt = loc'[q].f
  <2>1. CASE q = p
    <3>1. pc'[p] = lab /\ loc'[p] = l
      BY <1>0
    <3>. QED
      BY <1>2, <2>1, <3>1
  <2>2. CASE q # p
    <3>1. pc'[q] = pc[q] /\ loc'[q] = loc[q]
      BY <1>0, <2>2
    <3>. QED
      BY <1>2, <3>1 DEF PortsInv
  <2>. QED
    BY <2>1, <2>2
<1>. QED
  BY <1>1, <1>2, PortsQuiet

LEMMA PortsElse ==
  ASSUME TypeInv, PortsInv, UNCHANGED contract, PortsSame, NEW p \in Procs,
         \E lab : pc' = [pc EXCEPT ![p] = lab] /\ lab \notin Undoing,
         \E l : loc' = [loc EXCEPT ![p] = l]
  PROVE  PortsInv'
<1>1. PICK lab : pc' = [pc EXCEPT ![p] = lab] /\ lab \notin Undoing
  OBVIOUS
<1>2. PICK l : loc' = [loc EXCEPT ![p] = l]
  OBVIOUS
<1>3. lab \notin {"commitRelease", "notifyCancel", "erase"}
  BY <1>1 DEF Undoing
<1>. QED
  BY <1>1, <1>2, <1>3, PortsGo

\* A handler writes or erases the row of c.
LEMMA PortsWrite ==
  ASSUME TypeInv, LedgerInv, PortsInv, NEW p \in Procs, NEW lab, NEW l,
         pc' = [pc EXCEPT ![p] = lab], loc' = [loc EXCEPT ![p] = l],
         lab \notin {"commitRelease", "erase"},
         NEW c \in Contracts, NEW row \in ContractRow, contract' = [contract EXCEPT ![c] = row],
         Rewritten(c, row),
         row.oid = contract[c].oid /\ row # NoContract => row.fdt = contract[c].fdt,
         row.status = "ACTIVE" => row.fdt = c,
         lab = "notifyCancel" => l.c = c,
         \A f \in Fdts \ {c} : fdt'[f].ports <= fdt[f].ports /\ fdt'[f].ports \in Nat,
         fdt'[c].ports <= IF row.status = "ACTIVE" /\ c \notin Leaving' THEN 1 ELSE 0,
         \A f \in Fdts : ~fdt'[f].exists => fdt'[f].ports = 0
  PROVE  PortsInv'
<1>0. /\ pc \in [Procs -> Label] /\ loc \in [Procs -> Locals] /\ Requests \subseteq Procs
      /\ contract \in [Contracts -> ContractRow] /\ contract'[c] = row
      /\ \A d \in Contracts : d # c => contract'[d] = contract[d]
      /\ \A q \in Procs : loc[q].c \in Contracts
  BY DEF TypeInv, Handlers, Procs, Collections, Locals
<1>1. \A d \in Contracts : contract'[d].status = "ACTIVE" => contract'[d].fdt = d
  BY <1>0 DEF PortsInv, Active
<1>2. ASSUME NEW d \in Contracts, d # c, d \in Leaving'
      PROVE  d \in Leaving
  <2>1. PICK r \in Requests : /\ pc'[r] \in {"notifyCancel", "erase"} /\ loc'[r].c = d
                              /\ loc'[r].target = contract'[d].oid
    BY <1>2 DEF Leaving
  <2>2. r # p
    BY <1>0, <1>2, <2>1
  <2>3. pc'[r] = pc[r] /\ loc'[r] = loc[r] /\ contract'[d] = contract[d]
    BY <1>0, <1>2, <2>2
  <2>. QED
    BY <2>1, <2>3 DEF Leaving
<1>3. ASSUME NEW f \in Fdts
      PROVE  fdt'[f].ports <= PortOf(f)'
  <2>1. PortOf(f)' = IF f \in Contracts /\ contract'[f].status = "ACTIVE" /\ f \notin Leaving'
                     THEN 1 ELSE 0
    BY DEF PortOf, Active
  <2>2. CASE f = c
    BY <1>0, <2>1, <2>2
  <2>3. CASE f # c
    <3>1. fdt'[f].ports <= fdt[f].ports /\ fdt'[f].ports \in Nat /\ fdt[f].ports \in Nat
      BY <2>3 DEF TypeInv, Collections, FdtDoc
    <3>2. fdt[f].ports <= PortOf(f)
      BY DEF PortsInv
    <3>3. PortOf(f) = 1 => PortOf(f)' = 1
      BY <1>0, <1>2, <2>1, <2>3 DEF PortOf, Active
    <3>4. PortOf(f) \in {0, 1} /\ PortOf(f)' \in {0, 1}
      BY <2>1 DEF PortOf
    <3>. QED
      BY <3>1, <3>2, <3>3, <3>4
  <2>. QED
    BY <2>2, <2>3
<1>4. ASSUME NEW q \in Procs, pc'[q] = "commitRelease", Same(loc[q])'
      PROVE  contract'[loc'[q].c].fdt = loc'[q].f
  <2>1. q # p
    BY <1>0, <1>4
  <2>2. pc[q] = "commitRelease" /\ loc'[q] = loc[q]
    BY <1>0, <1>4, <2>1
  <2>3. contract'[loc[q].c].status # "NONE" /\ contract'[loc[q].c].oid = loc[q].row.oid
    BY <1>4, <2>2 DEF Same, Exists
  <2>4. CASE loc[q].c # c
    <3>1. contract'[loc[q].c] = contract[loc[q].c]
      BY <1>0, <2>4
    <3>. QED
      BY <2>2, <2>3, <3>1 DEF PortsInv, Same, Exists
  <2>5. CASE loc[q].c = c
    <3>1. loc[q].row.oid \in 1..born[c]
      BY <2>2, <2>5 DEF LedgerInv, ReleaseOK
    <3>2. row.status # "NONE" /\ row.oid = loc[q].row.oid /\ row # NoContract
      BY <1>0, <2>3, <2>5 DEF NoContract
    <3>3. row.oid = contract[c].oid /\ Exists(c)
      <4>1. ~(row.oid > born[c])
        BY <3>1, <3>2 DEF TypeInv, Tallies
      <4>. QED
        BY <3>2, <4>1 DEF Rewritten
    <3>. QED
      BY <1>0, <2>2, <2>5, <3>2, <3>3 DEF PortsInv, Same
  <2>. QED
    BY <2>4, <2>5
<1>5. \A d \in Contracts : Active(d)' => contract'[d].fdt = d
  BY <1>1 DEF Active
<1>. QED
  BY <1>3, <1>4, <1>5 DEF PortsInv

\* Steps that write no row and touch no port.
LEMMA PortsNew ==
  ASSUME Transactional, TypeInv, LedgerInv, PortsInv,
         \/ FindExisting(Worker) \/ ResolveNro(Worker) \/ ReadLink(Worker) \/ SaveLink(Worker)
         \/ CountLink(Worker) \/ NotifyNew(Worker) \/ NroSteps(Worker)
         \/ TakeJob \/ Broadcast \/ Complete
  PROVE  PortsInv'
<1>0. Worker \in Procs /\ loc = [loc EXCEPT ![Worker] = loc[Worker]] /\ loc[Worker] \in Locals
  BY DEF Procs, TypeInv, Handlers
<1>1. contract' = contract
  BY DEF FindExisting, ResolveNro, ReadLink, SaveLink, CountLink, NotifyNew, NroSteps, TakeJob,
     Broadcast, Complete, UpsertNro, ReadUpdate, SaveUpdate, ReadDelete, SaveDelete, ReadNro,
     SaveNro, ReadFdtDoc, SaveFdt, db
<1>2. PortsSame
  <2>1. CASE fdt' = fdt
    BY <2>1 DEF PortsSame
  <2>2. CASE SaveLink(Worker)
    <3>. DEFINE new == [loc[Worker].fdoc EXCEPT !.active = @ + 1]
    <3>1. fdt' = [fdt EXCEPT ![loc[Worker].f] =
                    SaveModified(fdt[loc[Worker].f], loc[Worker].fdoc, new)]
      BY <2>2 DEF SaveLink, SaveFdt
    <3>2. loc[Worker].fdoc \in FdtDoc
      BY <1>0 DEF Locals
    <3>3. new.ports = loc[Worker].fdoc.ports /\ new.exists = loc[Worker].fdoc.exists
      BY <3>2 DEF FdtDoc
    <3>. HIDE DEF new
    <3>4. ASSUME NEW f \in Fdts
          PROVE  /\ SaveModified(fdt[f], loc[Worker].fdoc, new).ports = fdt[f].ports
                 /\ SaveModified(fdt[f], loc[Worker].fdoc, new).exists = fdt[f].exists
      BY <3>3 DEF SaveModified, TypeInv, Collections, FdtDoc
    <3>. QED
      BY <3>1, <3>4 DEF PortsSame, TypeInv, Collections
  <2>. QED
    BY <2>1, <2>2 DEF FindExisting, ResolveNro, ReadLink, CountLink, NotifyNew, NroSteps, TakeJob,
     Broadcast, Complete, UpsertNro, ReadUpdate, SaveUpdate, ReadDelete, SaveDelete, ReadNro,
     SaveNro, ReadFdtDoc, db
<1>3. \E l : loc' = [loc EXCEPT ![Worker] = l]
  <2>1. CASE loc' = loc
    BY <1>0, <2>1
  <2>2. CASE \E l : Hold(Worker, l)
    BY <2>2 DEF Hold
  <2>3. CASE Complete
    BY <2>3 DEF Complete, Finish
  <2>. QED
    BY <2>1, <2>2, <2>3 DEF FindExisting, ResolveNro, ReadLink, SaveLink, CountLink, NotifyNew,
       NroSteps, TakeJob, Broadcast, UpsertNro, ReadUpdate, SaveUpdate, ReadDelete, SaveDelete,
       ReadNro, SaveNro, ReadFdtDoc, SaveFdt
<1>4. \E lab : pc' = [pc EXCEPT ![Worker] = lab] /\ lab \notin Undoing
  <2>1. CASE FindExisting(Worker) \/ ResolveNro(Worker)
    <3>1. \/ pc' = [pc EXCEPT ![Worker] = "broadcast"]
          \/ pc' = [pc EXCEPT ![Worker] = "resolveNro"]
          \/ pc' = [pc EXCEPT ![Worker] = "refuse"]
          \/ pc' = [pc EXCEPT ![Worker] = "commitClaim"]
      BY <2>1 DEF FindExisting, ResolveNro, Go
    <3>. QED
      BY <3>1 DEF Undoing
  <2>2. CASE ReadLink(Worker) \/ SaveLink(Worker) \/ CountLink(Worker) \/ NotifyNew(Worker)
    BY <2>2 DEF ReadLink, SaveLink, CountLink, NotifyNew, ReadFdtDoc, SaveFdt, Go, Undoing
  <2>3. CASE NroSteps(Worker)
    BY <2>3 DEF NroSteps, UpsertNro, ReadUpdate, SaveUpdate, ReadDelete, SaveDelete, ReadNro,
       SaveNro, Go, Undoing
  <2>4. CASE Broadcast \/ Complete
    BY <2>4 DEF Broadcast, Complete, Finish, Go, Undoing
  <2>5. CASE TakeJob
    <3>1. wait # <<>> /\ pc' = [pc EXCEPT ![Worker] = Entry(jobs[Head(wait)].ev.type)]
      BY <2>5 DEF TakeJob, Go
    <3>2. Head(wait) \in 1..Len(jobs)
      BY <3>1, HeadTailProperties DEF TypeInv, Queue
    <3>3. jobs[Head(wait)] \in Job
      BY <3>2, ElementOfSeq DEF TypeInv, Queue
    <3>4. jobs[Head(wait)].ev.type \in EventType
      BY <3>3 DEF Job, Event
    <3>5. Entry(jobs[Head(wait)].ev.type) \notin Undoing
      BY <3>4 DEF EventType, Entry, Undoing
    <3>. QED
      BY <3>1, <3>5
  <2>. QED
    BY <2>1, <2>2, <2>3, <2>4, <2>5
<1>. QED
  BY <1>0, <1>1, <1>2, <1>3, <1>4, PortsElse

\* A cancellation that has found its row releases the FDT of that row.
LEMMA PortsFind ==
  ASSUME TypeInv, LedgerInv, PortsInv, NEW p \in Procs,
         FindContract(p) \/ NotifyCancel(p) \/ AbortCommit(p)
  PROVE  PortsInv'
<1>. DEFINE c == loc[p].c
<1>0. /\ loc[p] \in Locals /\ c \in Contracts /\ pc \in [Procs -> Label]
      /\ loc = [loc EXCEPT ![p] = loc[p]]
  BY DEF TypeInv, Handlers, Locals
<1>1. contract' = contract /\ PortsSame
  BY DEF FindContract, NotifyCancel, AbortCommit, PortsSame, db
<1>2. CASE FindContract(p)
  <2>. DEFINE row == contract[c]
              l == [loc[p] EXCEPT !.row = row, !.n = row.nro, !.f = row.fdt, !.dirty = TRUE]
              lab == CASE row.status = "NONE" -> "notifyCancel"
                       [] row.status = "CANCELLED" -> AfterCancel(p)
                       [] OTHER -> IF row.nro = NoNro THEN "plainSave"
                                   ELSE IF Transactional THEN "commitRelease" ELSE "readRelease"
  <2>1. pc' = [pc EXCEPT ![p] = lab] /\ loc' = [loc EXCEPT ![p] = l]
    BY <1>2 DEF FindContract, Go, Hold
  <2>2. l.c = c /\ l.f = row.fdt
    BY <1>0 DEF Locals
  <2>3. lab \in {"notifyCancel", "erase"} => ~Active(c)
    BY DEF Active, AfterCancel
  <2>. HIDE DEF l, lab
  <2>. QED
    BY <1>1, <2>1, <2>2, <2>3, PortsGo
<1>3. CASE NotifyCancel(p)
  <2>1. /\ pc' = [pc EXCEPT ![p] = AfterCancel(p)] /\ loc' = [loc EXCEPT ![p] = loc[p]]
        /\ pc[p] = "notifyCancel" /\ AfterCancel(p) \in {"broadcast", "erase"}
    BY <1>0, <1>3 DEF NotifyCancel, Go, AfterCancel
  <2>2. p # Worker /\ loc[p].target = contract[c].oid => c \in Leaving
    BY <1>0, <2>1 DEF Leaving, Procs
  <2>. QED
    BY <1>1, <2>1, <2>2, PortsGo
<1>4. CASE AbortCommit(p)
  <2>. DEFINE l == [loc[p] EXCEPT !.dirty = FALSE]
  <2>1. /\ pc' = [pc EXCEPT ![p] = "commitRelease"] /\ loc' = [loc EXCEPT ![p] = l]
        /\ pc[p] = "commitRelease"
    BY <1>0, <1>4 DEF AbortCommit, Hold
  <2>2. l.c = c /\ l.f = loc[p].f /\ l.row = loc[p].row
    BY <1>0 DEF Locals
  <2>. HIDE DEF l
  <2>3. Same(l) => contract[l.c].fdt = l.f
    BY <2>1, <2>2 DEF PortsInv, Same
  <2>. QED
    BY <1>1, <2>1, <2>3, PortsGo
<1>. QED
  BY <1>2, <1>3, <1>4

LEMMA PortsFinish ==
  ASSUME TypeInv, PortsInv, NEW p \in Procs, Finish(p), UNCHANGED contract, PortsSame
  PROVE  PortsInv'
<1>1. "idle" \notin Undoing
  BY DEF Undoing
<1>. QED
  BY <1>1, PortsElse DEF Finish

LEMMA PortsFails ==
  ASSUME TypeInv, PortsInv, NEW p \in Procs, WriteRefused(p) \/ CallFails(p)
  PROVE  PortsInv'
<1>1. contract' = contract /\ PortsSame
  BY DEF WriteRefused, CallFails, Throw, PortsSame, db
<1>2. CASE Throw(p)
  BY <1>1, <1>2, PortsFinish DEF Throw
<1>3. CASE ~Throw(p)
  <2>1. pc' = [pc EXCEPT ![p] = "notifyNew"] /\ loc' = [loc EXCEPT ![p] = loc[p]]
    BY <1>3, LocalsKept DEF WriteRefused, CallFails
  <2>2. "notifyNew" \notin Undoing
    BY DEF Undoing
  <2>. QED
    BY <1>1, <2>1, <2>2, PortsElse
<1>. QED
  BY <1>2, <1>3

LEMMA PortsRest ==
  ASSUME TypeInv, PortsInv, NEW r \in Requests,
         FindById(r) \/ \E c \in Contracts : DeleteContract(r, c)
  PROVE  PortsInv'
<1>0. r \in Procs
  BY DEF Procs
<1>1. contract' = contract /\ PortsSame
  BY DEF FindById, DeleteContract, Call, PortsSame, db
<1>2. CASE Finish(r)
  BY <1>0, <1>1, <1>2, PortsFinish
<1>3. CASE ~Finish(r)
  <2>1. \/ pc' = [pc EXCEPT ![r] = "findById"]
        \/ pc' = [pc EXCEPT ![r] = "findContract"]
    BY <1>3 DEF FindById, DeleteContract, Call, Go
  <2>2. \E l : loc' = [loc EXCEPT ![r] = l]
    BY <1>3 DEF FindById, DeleteContract, Call, Hold
  <2>3. "findById" \notin Undoing /\ "findContract" \notin Undoing
    BY DEF Undoing
  <2>. QED
    BY <1>0, <1>1, <2>1, <2>2, <2>3, PortsElse
<1>. QED
  BY <1>2, <1>3

\* Steps that write or erase a row.
LEMMA PortsRefuse ==
  ASSUME TypeInv, LedgerInv, PortsInv, Refuse(Worker)
  PROVE  PortsInv'
<1>. DEFINE c == loc[Worker].c
            row == [status |-> "FAILED", nro |-> loc[Worker].n, fdt |-> NoFdt, oid |-> born[c] + 1]
<1>0. /\ Worker \in Procs /\ loc[Worker] \in Locals /\ c \in Contracts /\ c \in Fdts
      /\ born[c] \in Nat /\ loc = [loc EXCEPT ![Worker] = loc[Worker]]
  BY DEF TypeInv, Handlers, Procs, Locals, Tallies, Fdts
<1>1. /\ pc' = [pc EXCEPT ![Worker] = "notifyNew"] /\ UNCHANGED <<loc, fdt>> /\ ~Exists(c)
      /\ contract' = [contract EXCEPT ![c] = row] /\ born' = [born EXCEPT ![c] = born[c] + 1]
  BY <1>0 DEF Refuse, Go, PutRow
<1>2. row \in ContractRow /\ row.status # "ACTIVE"
  BY <1>0 DEF Locals, ContractRow
<1>3. Rewritten(c, row) /\ row.oid # contract[c].oid
  <2>1. contract[c].oid = 0
    BY <1>0, <1>1 DEF LedgerInv, RowsOK
  <2>. QED
    BY <1>0, <1>1, <2>1 DEF Rewritten, TypeInv, Tallies
<1>4. /\ \A f \in Fdts : fdt[f].ports \in Nat /\ (~fdt[f].exists => fdt[f].ports = 0)
      /\ fdt[c].ports <= PortOf(c)
  BY <1>0 DEF PortsInv, TypeInv, Collections, FdtDoc
<1>5. fdt'[c].ports <= 0
  BY <1>1, <1>4 DEF PortOf, Active, Exists
<1>6. \A f \in Fdts : fdt'[f].ports <= fdt[f].ports /\ fdt'[f].ports \in Nat
  BY <1>1, <1>4
<1>. HIDE DEF row
<1>. QED
  BY <1>0, <1>1, <1>2, <1>3, <1>4, <1>5, <1>6, PortsWrite

\* The port is claimed for the row that commits with it, which no deletion is after.
LEMMA PortsClaim ==
  ASSUME TypeInv, LedgerInv, PortsInv, CommitClaim(Worker)
  PROVE  PortsInv'
<1>. DEFINE c == loc[Worker].c
            n == loc[Worker].n
            row == [status |-> "ACTIVE", nro |-> n, fdt |-> c, oid |-> born[c] + 1]
            l == [loc[Worker] EXCEPT !.news = TRUE]
            open == [fdt[c] EXCEPT !.exists = TRUE, !.nro = n]
            fdoc == UpdatePorts(open, 1, PortsTotal[c])
<1>0. /\ Worker \in Procs /\ loc[Worker] \in Locals /\ c \in Contracts /\ c \in Fdts
      /\ born[c] \in Nat /\ pc[Worker] = "commitClaim" /\ fdt[c] \in FdtDoc
  BY DEF TypeInv, Handlers, Procs, Locals, Tallies, Fdts, CommitClaim, Go, Collections
<1>1. ~Exists(c) /\ n \in Nros
  BY <1>0 DEF LedgerInv, ClaimOK
<1>2. /\ pc' = [pc EXCEPT ![Worker] = "readLink"] /\ loc' = [loc EXCEPT ![Worker] = l]
      /\ contract' = [contract EXCEPT ![c] = row] /\ born' = [born EXCEPT ![c] = born[c] + 1]
      /\ fdt' = [fdt EXCEPT ![c] = fdoc]
  BY <1>1 DEF CommitClaim, Go, Hold, PutRow
<1>3. row \in ContractRow /\ row.status = "ACTIVE" /\ row.fdt = c /\ row.oid = born[c] + 1
  BY <1>0, <1>1 DEF ContractRow
<1>4. Rewritten(c, row) /\ row.oid # contract[c].oid
  <2>1. contract[c].oid = 0
    BY <1>0, <1>1 DEF LedgerInv, RowsOK
  <2>. QED
    BY <1>0, <1>2, <2>1 DEF Rewritten, TypeInv, Tallies
<1>5. fdoc.ports <= 1 /\ fdoc.exists
  <2>1. open.ports = fdt[c].ports /\ open.exists /\ open \in FdtDoc
    BY <1>0, <1>1 DEF FdtDoc
  <2>2. fdt[c].ports = 0
    <3>1. fdt[c].ports <= 0 /\ fdt[c].ports \in Nat
      BY <1>0, <1>1 DEF PortsInv, PortOf, Active, Exists, FdtDoc
    <3>. QED
      BY <3>1
  <2>3. PortsTotal[c] \in Nat \ {0}
    BY <1>0, PipelineAssumption
  <2>. HIDE DEF open
  <2>4. fdoc.ports = AtLeastZero(AtMost(open.ports + 1, PortsTotal[c]))
    BY <2>1 DEF UpdatePorts, FdtDoc
  <2>5. fdoc.exists
    BY <2>1 DEF UpdatePorts, FdtDoc
  <2>6. fdoc.ports <= 1
    BY <2>1, <2>2, <2>3, <2>4 DEF AtLeastZero, AtMost
  <2>. QED
    BY <2>5, <2>6
<1>6. c \notin Leaving'
  <2>. SUFFICES ASSUME c \in Leaving' PROVE FALSE
    OBVIOUS
  <2>1. PICK r \in Requests : /\ pc'[r] \in {"notifyCancel", "erase"} /\ loc'[r].c = c
                              /\ loc'[r].target = contract'[c].oid
    BY DEF Leaving
  <2>2. r # Worker /\ r \in Procs
    BY PipelineAssumption DEF Procs
  <2>3. pc'[r] = pc[r] /\ loc'[r] = loc[r] /\ contract'[c].oid = born[c] + 1
    BY <1>0, <1>2, <1>3, <2>2 DEF TypeInv, Handlers, Collections
  <2>4. loc[r].target \in 1..born[c]
    BY <2>1, <2>2, <2>3 DEF LedgerInv, ReleaseOK, CancelLabel
  <2>. QED
    BY <1>0, <2>1, <2>3, <2>4
<1>7. \A f \in Fdts : /\ fdt[f].ports \in Nat
                      /\ ~fdt[f].exists => fdt[f].ports = 0
  BY DEF PortsInv, TypeInv, Collections, FdtDoc
<1>. HIDE DEF fdoc, l, row
<1>8. /\ fdt'[c] = fdoc /\ \A f \in Fdts \ {c} : fdt'[f] = fdt[f]
  BY <1>0, <1>2 DEF TypeInv, Collections
<1>9. /\ \A f \in Fdts \ {c} : fdt'[f].ports <= fdt[f].ports /\ fdt'[f].ports \in Nat
      /\ fdt'[c].ports <= IF row.status = "ACTIVE" /\ c \notin Leaving' THEN 1 ELSE 0
      /\ \A f \in Fdts : ~fdt'[f].exists => fdt'[f].ports = 0
  BY <1>3, <1>5, <1>6, <1>7, <1>8
<1>. QED
  BY <1>0, <1>2, <1>3, <1>4, <1>9, PortsWrite

LEMMA PortsPlain ==
  ASSUME TypeInv, LedgerInv, PortsInv, NEW p \in Procs, PlainSave(p)
  PROVE  PortsInv'
<1>. DEFINE c == loc[p].c
            row == [contract[c] EXCEPT !.status = "CANCELLED"]
<1>0. /\ pc[p] = "plainSave" /\ pc' = [pc EXCEPT ![p] = "notifyCancel"] /\ Same(loc[p])
      /\ UNCHANGED <<fdt, loc, born>> /\ contract' = [contract EXCEPT ![c] = row]
      /\ loc = [loc EXCEPT ![p] = loc[p]] /\ loc[p] \in Locals
  BY DEF PlainSave, Go, Cancelled, history, TypeInv, Handlers
<1>1. c \in Contracts /\ c \in Fdts /\ contract[c] \in ContractRow
  BY <1>0 DEF Locals, Fdts, TypeInv, Collections
<1>2. /\ row \in ContractRow /\ row.status = "CANCELLED" /\ row.oid = contract[c].oid
      /\ row.nro = contract[c].nro /\ row.fdt = contract[c].fdt
  BY <1>1 DEF ContractRow
<1>3. Rewritten(c, row)
  BY <1>0, <1>2 DEF Rewritten, Same
<1>4. ~Active(c)
  <2>1. contract[c].nro = NoNro
    BY <1>0 DEF LedgerInv, ReleaseOK
  <2>. QED
    BY <1>1, <2>1 DEF LedgerInv, RowsOK
<1>5. /\ \A f \in Fdts : fdt[f].ports \in Nat /\ (~fdt[f].exists => fdt[f].ports = 0)
      /\ fdt[c].ports <= PortOf(c)
  BY <1>1 DEF PortsInv, TypeInv, Collections, FdtDoc
<1>6. fdt'[c].ports <= 0
  BY <1>0, <1>4, <1>5 DEF PortOf
<1>7. \A f \in Fdts : fdt'[f].ports <= fdt[f].ports /\ fdt'[f].ports \in Nat
  BY <1>0, <1>5
<1>8. \A f \in Fdts : ~fdt'[f].exists => fdt'[f].ports = 0
  BY <1>0, <1>5
<1>. HIDE DEF row, c
<1>. QED
  <2>1. /\ fdt'[c].ports <= IF row.status = "ACTIVE" /\ c \notin Leaving' THEN 1 ELSE 0
        /\ row.status # "ACTIVE" /\ loc[p].c = c /\ "notifyCancel" \notin {"commitRelease", "erase"}
    BY <1>2, <1>6 DEF c
  <2>. QED
    BY <1>0, <1>1, <1>2, <1>3, <1>7, <1>8, <2>1, PortsWrite

\* The FDTs after a release count no more ports, and none for the contract released.
LEMMA FreedPorts ==
  ASSUME TypeInv, PortsInv, NEW c \in Contracts, NEW f, NEW link,
         f = contract[c].fdt, fdt' = Freed(f, link)
  PROVE  /\ \A g \in Fdts : /\ fdt'[g].ports \in Nat /\ fdt'[g].ports <= fdt[g].ports
                            /\ fdt'[g].exists = fdt[g].exists
         /\ fdt'[c].ports = 0
<1>0. \A g \in Fdts : fdt[g] \in FdtDoc /\ PortsTotal[g] \in Nat \ {0}
  BY PipelineAssumption DEF TypeInv, Collections
<1>1. ASSUME NEW g \in Fdts
      PROVE  /\ fdt'[g].exists = fdt[g].exists
             /\ fdt'[g].ports = IF g = f /\ fdt[g].exists
                                THEN AtLeastZero(AtMost(fdt[g].ports - 1, PortsTotal[g]))
                                ELSE fdt[g].ports
  <2>. DEFINE doc == IF g = f /\ fdt[g].exists THEN UpdatePorts(fdt[g], -1, PortsTotal[g]) ELSE fdt[g]
  <2>1. fdt'[g] = IF g = link THEN [doc EXCEPT !.active = AtLeastZero(doc.active - 1)] ELSE doc
    BY DEF Freed
  <2>2. /\ DOMAIN doc = {"exists", "nro", "ports", "active"} /\ doc.exists = fdt[g].exists
        /\ doc.ports = IF g = f /\ fdt[g].exists
                       THEN AtLeastZero(AtMost(fdt[g].ports - 1, PortsTotal[g]))
                       ELSE fdt[g].ports
    BY <1>0 DEF UpdatePorts, FdtDoc
  <2>. HIDE DEF doc
  <2>3. fdt'[g].ports = doc.ports /\ fdt'[g].exists = doc.exists
    BY <2>1, <2>2
  <2>. QED
    BY <2>2, <2>3
<1>2. \A g \in Fdts : fdt'[g].ports \in Nat /\ fdt'[g].ports <= fdt[g].ports
  BY <1>0, <1>1 DEF FdtDoc, AtLeastZero, AtMost
<1>3. fdt'[c].ports = 0
  <2>0. c \in Fdts /\ fdt[c].ports \in Nat /\ PortsTotal[c] \in Nat \ {0}
    BY <1>0 DEF Fdts, FdtDoc
  <2>1. fdt[c].ports <= PortOf(c) /\ (~fdt[c].exists => fdt[c].ports = 0)
    BY <2>0 DEF PortsInv
  <2>2. CASE ~Active(c) \/ ~fdt[c].exists
    <3>1. fdt[c].ports = 0
      BY <2>0, <2>1, <2>2 DEF PortOf
    <3>. QED
      BY <1>2, <2>0, <3>1
  <2>3. CASE Active(c) /\ fdt[c].exists
    <3>0. f = c
      BY <2>3 DEF PortsInv
    <3>1. fdt[c].ports <= 1
      <4>1. PortOf(c) \in {0, 1}
        BY DEF PortOf
      <4>. QED
        BY <2>0, <2>1, <4>1
    <3>2. fdt'[c].ports = AtLeastZero(AtMost(fdt[c].ports - 1, PortsTotal[c]))
      BY <1>1, <2>0, <2>3, <3>0
    <3>. QED
      BY <2>0, <3>1, <3>2 DEF AtLeastZero, AtMost
  <2>. QED
    BY <2>2, <2>3
<1>. QED
  BY <1>1, <1>2, <1>3

LEMMA PortsRelease ==
  ASSUME TypeInv, LedgerInv, PortsInv, NEW p \in Procs, CommitRelease(p)
  PROVE  PortsInv'
<1>. DEFINE c == loc[p].c
            row == IF loc[p].dirty THEN [contract[c] EXCEPT !.status = "CANCELLED"] ELSE contract[c]
<1>0. /\ pc[p] = "commitRelease" /\ pc' = [pc EXCEPT ![p] = "notifyCancel"] /\ Same(loc[p])
      /\ UNCHANGED <<loc, born>> /\ fdt' = Freed(loc[p].f, contract[c].fdt)
      /\ contract' = IF loc[p].dirty THEN Cancelled(c) ELSE contract
      /\ loc = [loc EXCEPT ![p] = loc[p]] /\ loc[p] \in Locals
  BY DEF CommitRelease, Go, history, TypeInv, Handlers
<1>1. c \in Contracts /\ c \in Fdts /\ contract[c] \in ContractRow
  BY <1>0 DEF Locals, Fdts, TypeInv, Collections
<1>2. contract' = [contract EXCEPT ![c] = row]
  BY <1>0, <1>1 DEF Cancelled, TypeInv, Collections
<1>3. /\ row \in ContractRow /\ row.status \in {"CANCELLED", contract[c].status}
      /\ row.oid = contract[c].oid /\ row.nro = contract[c].nro /\ row.fdt = contract[c].fdt
  BY <1>1 DEF ContractRow
<1>. HIDE DEF row
<1>4. Rewritten(c, row)
  BY <1>0, <1>3 DEF Rewritten, Same, Exists
<1>5. row.status = "ACTIVE" => row.fdt = c
  BY <1>1, <1>3 DEF PortsInv, Active
<1>6. contract[c].fdt = loc[p].f
  BY <1>0 DEF PortsInv
<1>7. /\ \A g \in Fdts : /\ fdt'[g].ports \in Nat /\ fdt'[g].ports <= fdt[g].ports
                         /\ fdt'[g].exists = fdt[g].exists
      /\ fdt'[c].ports = 0
  BY <1>0, <1>1, <1>6, FreedPorts
<1>8. \A f \in Fdts : ~fdt'[f].exists => fdt'[f].ports = 0
  <2>. SUFFICES ASSUME NEW f \in Fdts, ~fdt'[f].exists PROVE fdt'[f].ports = 0
    OBVIOUS
  <2>1. fdt[f].ports = 0 /\ fdt'[f].ports \in Nat /\ fdt'[f].ports <= fdt[f].ports
    BY <1>7 DEF PortsInv
  <2>. QED
    BY <2>1
<1>9. fdt'[c].ports <= IF row.status = "ACTIVE" /\ c \notin Leaving' THEN 1 ELSE 0
  BY <1>7
<1>10. \A f \in Fdts \ {c} : fdt'[f].ports <= fdt[f].ports /\ fdt'[f].ports \in Nat
  BY <1>7
<1>11. loc[p].c = c /\ "notifyCancel" \notin {"commitRelease", "erase"}
  OBVIOUS
<1>12. /\ pc' = [pc EXCEPT ![p] = "notifyCancel"]
       /\ loc' = [loc EXCEPT ![p] = loc[p]]
  BY <1>0
<1>. HIDE DEF c
<1>. QED
  BY <1>1, <1>2, <1>3, <1>4, <1>5, <1>8, <1>9, <1>10, <1>11, <1>12, PortsWrite

\* The row erased is one whose port was given back before.
LEMMA PortsErase ==
  ASSUME TypeInv, LedgerInv, PortsInv, NEW r \in Requests, Erase(r)
  PROVE  PortsInv'
<1>. DEFINE c == loc[r].c
<1>0. /\ r \in Procs /\ r # Worker /\ c \in Contracts /\ c \in Fdts /\ pc[r] = "erase"
      /\ Finish(r) /\ UNCHANGED fdt
      /\ contract' = IF contract[c].oid = loc[r].target
                     THEN [contract EXCEPT ![c] = NoContract] ELSE contract
  BY PipelineAssumption DEF Procs, TypeInv, Handlers, Locals, Fdts, Erase
<1>1. CASE contract[c].oid # loc[r].target
  BY <1>0, <1>1, PortsFinish DEF PortsSame
<1>2. CASE contract[c].oid = loc[r].target
  <2>1. c \in Leaving
    BY <1>0, <1>2 DEF Leaving
  <2>2. /\ NoContract \in ContractRow /\ NoContract.status # "ACTIVE"
        /\ pc' = [pc EXCEPT ![r] = "idle"] /\ loc' = [loc EXCEPT ![r] = Blank]
    BY <1>0 DEF NoContract, ContractRow, Finish
  <2>3. Rewritten(c, NoContract)
    BY DEF Rewritten
  <2>4. /\ \A f \in Fdts : fdt[f].ports \in Nat /\ (~fdt[f].exists => fdt[f].ports = 0)
        /\ fdt[c].ports <= 0
    BY <1>0, <2>1 DEF PortsInv, PortOf, TypeInv, Collections, FdtDoc
  <2>5. \A f \in Fdts : fdt'[f].ports <= fdt[f].ports /\ fdt'[f].ports \in Nat
    BY <1>0, <2>4
  <2>6. contract' = [contract EXCEPT ![c] = NoContract]
    BY <1>0, <1>2
  <2>. QED
    BY <1>0, <2>2, <2>3, <2>4, <2>5, <2>6, PortsWrite
<1>. QED
  BY <1>1, <1>2

LEMMA PortsNext ==
  ASSUME EventsOnReplicaSet, TypeInv, LedgerInv, PortsInv, [Next]_vars
  PROVE  PortsInv'
<1>0. Worker \in Procs /\ Requests \subseteq Procs /\ Worker \notin Requests /\ Transactional
  BY PipelineAssumption DEF Procs, EventsOnReplicaSet
<1>1. ASSUME NEW p \in Procs, CancelSteps(p) \/ WriteRefused(p) \/ CallFails(p) \/ AbortCommit(p)
      PROVE  PortsInv'
  <2>1. CASE CancelSteps(p)
    <3>1. FindContract(p) \/ PlainSave(p) \/ CommitRelease(p) \/ NotifyCancel(p)
      BY <2>1, Unreached DEF CancelSteps
    <3>. QED
      BY <3>1, PortsFind, PortsPlain, PortsRelease
  <2>. QED
    BY <1>1, <2>1, PortsFails, PortsFind
<1>2. CASE WorkerStep
  <2>1. CASE NewSteps(Worker)
    <3>1. \/ FindExisting(Worker) \/ ResolveNro(Worker) \/ ReadLink(Worker) \/ SaveLink(Worker)
          \/ NotifyNew(Worker) \/ CountLink(Worker) \/ Refuse(Worker) \/ CommitClaim(Worker)
      BY <1>0, <2>1, Unreached DEF NewSteps
    <3>. QED
      BY <1>0, <3>1, PortsNew, PortsRefuse, PortsClaim
  <2>2. ~ClaimSteps(Worker)
    BY <1>0, Unreached
  <2>3. CASE TakeJob \/ Broadcast \/ Complete \/ NroSteps(Worker)
    BY <1>0, <2>3, PortsNew
  <2>. QED
    BY <1>0, <1>1, <1>2, <2>1, <2>2, <2>3 DEF WorkerStep
<1>3. ASSUME NEW r \in Requests, RequestStep(r)
      PROVE  PortsInv'
  <2>1. ASSUME NEW c \in Contracts, PostContract(r, c)
        PROVE  FALSE
    BY <2>1 DEF PostContract, Call, EventsOnReplicaSet
  <2>2. CASE RestSteps(r)
    <3>1. FindById(r) \/ Erase(r)
      BY <1>0, <2>2, Unreached DEF RestSteps
    <3>. QED
      BY <3>1, PortsRest, PortsErase
  <2>3. ASSUME NEW c \in Contracts, DeleteContract(r, c)
        PROVE  PortsInv'
    BY <2>3, PortsRest
  <2>4. ~ClaimSteps(r)
    BY <1>0, Unreached
  <2>5. CASE EditSteps(r)
    <3>1. /\ UNCHANGED <<fdt, contract>> /\ r \in Procs /\ pc'[r] \notin Undoing
          /\ pc' = [pc EXCEPT ![r] = pc'[r]] /\ loc' = [loc EXCEPT ![r] = loc'[r]]
      BY <2>5, EditStep DEF Undoing
    <3>. QED
      BY <3>1, PortsElse DEF PortsSame
  <2>. QED
    BY <1>0, <1>1, <1>3, <2>1, <2>2, <2>3, <2>4, <2>5 DEF RequestStep
<1>4. ASSUME UNCHANGED <<contract, fdt, pc, loc>>
      PROVE  PortsInv'
  <2>1. PortsSame /\ \A d \in Leaving' : d \in Leaving
    BY <1>4 DEF PortsSame, Leaving
  <2>. QED
    BY <1>4, <2>1, PortsQuiet DEF PortsInv
<1>5. ASSUME NEW ev \in Events, Enqueue(ev)
      PROVE  PortsInv'
  BY <1>4, <1>5 DEF Enqueue, db
<1>6. ASSUME NEW id \in DOMAIN jobs, Promote(id) \/ Recover(id)
      PROVE  PortsInv'
  BY <1>4, <1>6 DEF Promote, Recover, db
<1>7. CASE Crash
  <2>1. UNCHANGED contract /\ PortsSame /\ \A p \in Procs : pc'[p] = "idle"
    BY <1>7 DEF Crash, db, PortsSame
  <2>2. Leaving' = {}
    BY <1>0, <2>1 DEF Leaving
  <2>. QED
    BY <2>1, <2>2, PortsQuiet
<1>8. CASE Failure
  BY <1>1, <1>7, <1>8 DEF Failure
<1>9. CASE UNCHANGED vars
  BY <1>4, <1>9 DEF vars
<1>. QED
  BY <1>2, <1>3, <1>5, <1>6, <1>8, <1>9 DEF Next, AllDone

LEMMA PortsInit == Init => PortsInv
<1>. SUFFICES ASSUME Init PROVE PortsInv
  OBVIOUS
<1>1. \A c \in Contracts : ~Active(c)
  BY DEF Init, NoContract, Active
<1>2. \A f \in Fdts : fdt[f].ports = 0
  BY DEF Init, NoFdtDoc
<1>3. \A p \in Procs : pc[p] = "idle"
  BY DEF Init
<1>4. \A f \in Fdts : PortOf(f) = 0
  BY <1>1 DEF PortOf
<1>. QED
  BY <1>1, <1>2, <1>3, <1>4 DEF PortsInv

\* What is counted on an FDT for its own contract only, and at most once, is within its
\* ACTIVE contracts.
LEMMA OwnContract ==
  ASSUME NEW f \in Fdts, NEW k \in Nat, \A c \in Contracts : Active(c) => contract[c].fdt = c,
         k <= IF f \in Contracts /\ Active(f) THEN 1 ELSE 0
  PROVE  k <= Cardinality({c \in Contracts : Active(c) /\ contract[c].fdt = f})
<1>. DEFINE S == {c \in Contracts : Active(c) /\ contract[c].fdt = f}
<1>1. IsFiniteSet(S) /\ Cardinality(S) \in Nat
  <2>1. IsFiniteSet(Contracts) /\ S \in SUBSET Contracts
    BY PipelineAssumption
  <2>. QED
    BY <2>1, FS_Subset, FS_CardinalityType
<1>2. CASE f \in Contracts /\ Active(f)
  <2>1. f \in S
    BY <1>2
  <2>2. Cardinality(S) # 0
    BY <1>1, <2>1, FS_EmptySet
  <2>. QED
    BY <1>1, <1>2, <2>2
<1>3. CASE ~(f \in Contracts /\ Active(f))
  BY <1>1, <1>3
<1>. QED
  BY <1>2, <1>3

\* No FDT counts more ports than it has ACTIVE contracts: a retried, crashed, aborted or
\* concurrently deleted contract leaves no port behind.
THEOREM PortsHeld ==
  ASSUME EventsOnReplicaSet
  PROVE  Spec => []PortsAreHeld
<1>1. TypeInv /\ LedgerInv /\ PortsInv /\ [Next]_vars => PortsInv'
  BY PortsNext
<1>2. TypeInv /\ PortsInv => PortsAreHeld
  <2>. SUFFICES ASSUME TypeInv, PortsInv, NEW f \in Fdts
                PROVE  fdt[f].ports <=
                         Cardinality({c \in Contracts : Active(c) /\ contract[c].fdt = f})
    BY DEF PortsAreHeld
  <2>1. fdt[f].ports \in Nat /\ fdt[f].ports <= PortOf(f)
    BY DEF TypeInv, Collections, FdtDoc, PortsInv
  <2>2. fdt[f].ports <= IF f \in Contracts /\ Active(f) THEN 1 ELSE 0
    BY <2>1 DEF PortOf
  <2>. QED
    BY <2>1, <2>2, OwnContract DEF PortsInv
<1>. QED
  BY <1>1, <1>2, PortsInit, TypeInvCorrect, LedgerInvCorrect, PTL DEF Spec

-----------------------------------------------------------------------------
(* Clients.                                                                *)

\* Contracts are created and cancelled by events only, so by one handler.
EventsOnly == Transactional /\ RestOps = {}

\* Between the claim and the registration of its topology link.
Counting == {"commitClaim", "readLink", "saveLink"}

ClientOf(f) == IF f \in Contracts /\ Active(f) THEN 1 ELSE 0

\* An FDT counts a client for its own contract only, while it is ACTIVE; the contract
\* the worker is about to link is ACTIVE and not counted yet, on the document it read
\* as well.
ClientsInv ==
  LET l == loc[Worker] IN
  /\ \A r \in Requests : pc[r] = "idle"
  /\ \A f \in Fdts : fdt[f].active <= ClientOf(f)
  /\ pc[Worker] \in Counting => l.f = l.c
  /\ pc[Worker] \in {"readLink", "saveLink"} => Active(l.c) /\ fdt[l.c].active = 0
  /\ pc[Worker] = "saveLink" => l.fdoc.active = 0

\* The worker moves to lab, and may write the row of c and the client of its FDT.
LEMMA ClientsMove ==
  ASSUME TypeInv, ClientsInv, NEW lab, NEW l, NEW c \in Contracts,
         pc' = [pc EXCEPT ![Worker] = lab], loc' = [loc EXCEPT ![Worker] = l],
         \A d \in Contracts \ {c} : contract'[d] = contract[d],
         \A f \in Fdts \ {c} : fdt'[f].active <= fdt[f].active /\ fdt'[f].active \in Nat,
         fdt'[c].active <= IF contract'[c].status = "ACTIVE" THEN 1 ELSE 0,
         lab \in Counting => l.f = l.c,
         lab \in {"readLink", "saveLink"} =>
           contract'[l.c].status = "ACTIVE" /\ fdt'[l.c].active = 0,
         lab = "saveLink" => l.fdoc.active = 0
  PROVE  ClientsInv'
<1>0. Worker \in Procs /\ Worker \notin Requests /\ Requests \subseteq Procs
  BY PipelineAssumption DEF Procs
<1>1. /\ pc'[Worker] = lab /\ loc'[Worker] = l
      /\ \A r \in Requests : pc'[r] = pc[r]
  BY <1>0 DEF TypeInv, Handlers
<1>2. ASSUME NEW f \in Fdts
      PROVE  fdt'[f].active <= ClientOf(f)'
  <2>1. CASE f = c
    BY <2>1 DEF ClientOf, Active
  <2>2. CASE f # c
    <3>1. ClientOf(f)' = ClientOf(f) /\ ClientOf(f) \in {0, 1}
      BY <2>2 DEF ClientOf, Active
    <3>2. /\ fdt'[f].active <= fdt[f].active /\ fdt'[f].active \in Nat /\ fdt[f].active \in Nat
          /\ fdt[f].active <= ClientOf(f)
      BY <2>2 DEF ClientsInv, TypeInv, Collections, FdtDoc
    <3>. QED
      BY <3>1, <3>2
  <2>. QED
    BY <2>1, <2>2
<1>3. pc'[Worker] \in {"readLink", "saveLink"} =>
        contract'[loc'[Worker].c].status = "ACTIVE" /\ fdt'[loc'[Worker].c].active = 0
  BY <1>1
<1>4. \A r \in Requests : pc'[r] = "idle"
  BY <1>1 DEF ClientsInv
<1>5. /\ pc'[Worker] \in Counting => loc'[Worker].f = loc'[Worker].c
      /\ pc'[Worker] = "saveLink" => loc'[Worker].fdoc.active = 0
  BY <1>1
<1>. QED
  BY <1>2, <1>3, <1>4, <1>5 DEF ClientsInv, Active, Counting

\* No row is written, no client counted, and the worker is not linking.
LEMMA ClientsQuiet ==
  ASSUME TypeInv, ClientsInv, UNCHANGED contract,
         \A f \in Fdts : fdt'[f].active = fdt[f].active,
         \A r \in Requests : pc'[r] = "idle", pc'[Worker] \notin Counting
  PROVE  ClientsInv'
<1>1. \A f \in Fdts : ClientOf(f)' = ClientOf(f)
  BY DEF ClientOf, Active
<1>2. \A f \in Fdts : fdt'[f].active <= ClientOf(f)'
  BY <1>1 DEF ClientsInv
<1>3. pc'[Worker] \notin {"readLink", "saveLink"} /\ pc'[Worker] # "saveLink"
  BY DEF Counting
<1>. QED
  BY <1>2, <1>3 DEF ClientsInv

LEMMA ClientsFinish ==
  ASSUME TypeInv, ClientsInv, Finish(Worker), UNCHANGED <<contract, fdt>>
  PROVE  ClientsInv'
<1>1. pc'[Worker] = "idle" /\ \A r \in Requests : pc'[r] = pc[r]
  BY PipelineAssumption DEF Finish, TypeInv, Handlers, Procs
<1>2. \A r \in Requests : pc'[r] = "idle"
  BY <1>1 DEF ClientsInv
<1>. QED
  BY <1>1, <1>2, ClientsQuiet DEF Counting

\* The worker moves on elsewhere.
LEMMA ClientsElse ==
  ASSUME TypeInv, ClientsInv, UNCHANGED <<contract, fdt>>,
         \E lab : pc' = [pc EXCEPT ![Worker] = lab] /\ lab \notin Counting
  PROVE  ClientsInv'
<1>1. PICK lab : pc' = [pc EXCEPT ![Worker] = lab] /\ lab \notin Counting
  OBVIOUS
<1>2. pc'[Worker] = lab /\ \A r \in Requests : pc'[r] = pc[r]
  BY <1>1, PipelineAssumption DEF TypeInv, Handlers, Procs
<1>3. \A r \in Requests : pc'[r] = "idle"
  BY <1>2 DEF ClientsInv
<1>. QED
  BY <1>1, <1>2, <1>3, ClientsQuiet

\* Steps that touch neither rows nor FDTs.
LEMMA ClientsPlain ==
  ASSUME TypeInv, ClientsInv,
         \/ FindExisting(Worker) \/ CountLink(Worker) \/ NotifyNew(Worker) \/ NroSteps(Worker)
         \/ TakeJob \/ Broadcast \/ Complete
         \/ FindContract(Worker) \/ NotifyCancel(Worker) \/ AbortCommit(Worker)
         \/ WriteRefused(Worker) \/ CallFails(Worker),
         Transactional
  PROVE  ClientsInv'
<1>1. contract' = contract /\ fdt' = fdt
  BY DEF FindExisting, CountLink, NotifyNew, NroSteps, TakeJob, Broadcast, Complete, UpsertNro,
     ReadUpdate, SaveUpdate, ReadDelete, SaveDelete, ReadNro, SaveNro, FindContract, NotifyCancel,
     AbortCommit, WriteRefused, CallFails, Throw, db
<1>2. CASE Complete \/ WriteRefused(Worker) \/ CallFails(Worker)
  <2>1. CASE Finish(Worker)
    BY <1>1, <2>1, ClientsFinish
  <2>2. CASE ~Finish(Worker)
    <3>1. pc' = [pc EXCEPT ![Worker] = "notifyNew"]
      BY <1>2, <2>2 DEF Complete, WriteRefused, CallFails, Throw
    <3>2. "notifyNew" \notin Counting
      BY DEF Counting
    <3>. QED
      BY <1>1, <3>1, <3>2, ClientsElse
  <2>. QED
    BY <2>1, <2>2
<1>3. CASE AbortCommit(Worker)
  <2>1. UNCHANGED pc /\ pc[Worker] \notin Counting
    BY <1>3 DEF AbortCommit, Counting
  <2>2. \A r \in Requests : pc[r] = "idle"
    BY DEF ClientsInv
  <2>. QED
    BY <1>1, <2>1, <2>2, ClientsQuiet
<1>4. CASE FindExisting(Worker) \/ CountLink(Worker) \/ NotifyNew(Worker) \/ NroSteps(Worker)
           \/ Broadcast \/ NotifyCancel(Worker)
  <2>1. \E lab \in {"broadcast", "resolveNro", "notifyNew", "saveUpdate", "saveDelete", "complete"} :
          pc' = [pc EXCEPT ![Worker] = lab]
    <3>1. CASE FindExisting(Worker)
      <4>1. \/ pc' = [pc EXCEPT ![Worker] = "broadcast"]
            \/ pc' = [pc EXCEPT ![Worker] = "resolveNro"]
        BY <3>1 DEF FindExisting, Go
      <4>. QED
        BY <4>1
    <3>2. CASE ~FindExisting(Worker)
      BY <1>4, <3>2 DEF CountLink, NotifyNew, NroSteps, Broadcast, UpsertNro, ReadUpdate, SaveUpdate,
         ReadDelete, SaveDelete, ReadNro, SaveNro, NotifyCancel, AfterCancel, Go
    <3>. QED
      BY <3>1, <3>2
  <2>. QED
    BY <1>1, <2>1, ClientsElse DEF Counting
<1>5. CASE FindContract(Worker)
  <2>. DEFINE row == contract[loc[Worker].c]
              lab == CASE row.status = "NONE" -> "notifyCancel"
                       [] row.status = "CANCELLED" -> AfterCancel(Worker)
                       [] OTHER -> IF row.nro = NoNro THEN "plainSave"
                                   ELSE IF Transactional THEN "commitRelease" ELSE "readRelease"
  <2>1. pc' = [pc EXCEPT ![Worker] = lab]
    BY <1>5 DEF FindContract, Go
  <2>2. lab \notin Counting
    BY DEF Counting, AfterCancel
  <2>. HIDE DEF lab
  <2>. QED
    BY <1>1, <2>1, <2>2, ClientsElse
<1>6. CASE TakeJob
  <2>1. wait # <<>> /\ pc' = [pc EXCEPT ![Worker] = Entry(jobs[Head(wait)].ev.type)]
    BY <1>6 DEF TakeJob, Go
  <2>2. Head(wait) \in 1..Len(jobs)
    BY <2>1, HeadTailProperties DEF TypeInv, Queue
  <2>3. jobs[Head(wait)] \in Job
    BY <2>2, ElementOfSeq DEF TypeInv, Queue
  <2>4. jobs[Head(wait)].ev.type \in EventType
    BY <2>3 DEF Job, Event
  <2>5. Entry(jobs[Head(wait)].ev.type) \notin Counting
    BY <2>4 DEF EventType, Entry, Counting
  <2>. QED
    BY <1>1, <2>1, <2>5, ClientsElse
<1>. QED
  BY <1>2, <1>3, <1>4, <1>5, <1>6

\* The NRO is chosen; the FDT of an event's contract is its own.
LEMMA ClientsResolve ==
  ASSUME TypeInv, ClientsInv, ResolveNro(Worker), Transactional
  PROVE  ClientsInv'
<1>0. loc[Worker] \in Locals /\ loc[Worker].c \in Contracts /\ UNCHANGED <<contract, fdt>>
  BY DEF ResolveNro, db, TypeInv, Handlers, Procs, Locals
<1>1. CASE \E l : pc' = [pc EXCEPT ![Worker] = "refuse"] /\ loc' = [loc EXCEPT ![Worker] = l]
  BY <1>0, <1>1, ClientsElse DEF Counting
<1>2. CASE ~ \E l : /\ pc' = [pc EXCEPT ![Worker] = "refuse"]
                    /\ loc' = [loc EXCEPT ![Worker] = l]
  <2>1. PICK n \in Nros : /\ pc' = [pc EXCEPT ![Worker] = "commitClaim"]
                          /\ loc' = [loc EXCEPT ![Worker] =
                               [loc[Worker] EXCEPT !.n = n, !.f = loc[Worker].c, !.doc = nro[n]]]
    <3>1. PICK n \in Reach[loc[Worker].c] :
            /\ Go(Worker, "resolveNro", IF ~HasCapacityFor(nro[n], Gb[loc[Worker].c]) THEN "refuse"
                                        ELSE IF Transactional THEN "commitClaim" ELSE "readClaim")
            /\ Hold(Worker, [loc[Worker] EXCEPT !.n = n, !.f = loc[Worker].c, !.doc = nro[n]])
      BY <1>2 DEF ResolveNro, Go, Hold
    <3>2. n \in Nros
      BY <1>0, PipelineAssumption
    <3>. QED
      BY <1>2, <3>1, <3>2 DEF Go, Hold
  <2>. DEFINE l == [loc[Worker] EXCEPT !.n = n, !.f = loc[Worker].c, !.doc = nro[n]]
              c == loc[Worker].c
  <2>2. l.f = c /\ l.c = c
    BY <1>0 DEF Locals
  <2>3. /\ \A f \in Fdts : fdt'[f].active <= fdt[f].active /\ fdt'[f].active \in Nat
        /\ fdt'[c].active <= IF contract'[c].status = "ACTIVE" THEN 1 ELSE 0
    BY <1>0 DEF ClientsInv, ClientOf, Active, Fdts, TypeInv, Collections, FdtDoc
  <2>4. loc' = [loc EXCEPT ![Worker] = l] /\ \A d \in Contracts \ {c} : contract'[d] = contract[d]
    BY <1>0, <2>1
  <2>. HIDE DEF l, c
  <2>5. c \in Contracts
    BY <1>0 DEF c
  <2>. QED
    BY <2>1, <2>2, <2>3, <2>4, <2>5, ClientsMove
<1>. QED
  BY <1>1, <1>2

\* The FDT counts the client the worker has just claimed it for.
LEMMA ClientsLink ==
  ASSUME TypeInv, ClientsInv, ReadLink(Worker) \/ SaveLink(Worker)
  PROVE  ClientsInv'
<1>. DEFINE c == loc[Worker].c
<1>0. /\ loc[Worker] \in Locals /\ c \in Contracts /\ c \in Fdts /\ fdt \in [Fdts -> FdtDoc]
      /\ contract' = contract /\ pc[Worker] \in {"readLink", "saveLink"}
  BY DEF ReadLink, SaveLink, ReadFdtDoc, SaveFdt, db, Go, TypeInv, Handlers, Procs, Locals,
     Collections, Fdts
<1>1. /\ loc[Worker].f = c /\ contract[c].status = "ACTIVE" /\ fdt[c].active = 0
      /\ pc[Worker] = "saveLink" => loc[Worker].fdoc.active = 0
  BY <1>0 DEF ClientsInv, Counting, Active
<1>2. \A f \in Fdts : fdt[f].active \in Nat
  BY <1>0 DEF FdtDoc
<1>3. CASE ReadLink(Worker)
  <2>. DEFINE l == [loc[Worker] EXCEPT !.fdoc = fdt[c]]
  <2>1. /\ pc' = [pc EXCEPT ![Worker] = "saveLink"] /\ loc' = [loc EXCEPT ![Worker] = l]
        /\ fdt' = fdt
    BY <1>1, <1>3 DEF ReadLink, ReadFdtDoc, Go, Hold, db
  <2>2. l.f = c /\ l.c = c /\ l.fdoc.active = 0
    BY <1>0, <1>1 DEF Locals
  <2>. HIDE DEF l, c
  <2>3. /\ \A f \in Fdts \ {c} : fdt'[f].active <= fdt[f].active /\ fdt'[f].active \in Nat
        /\ fdt'[c].active <= IF contract'[c].status = "ACTIVE" THEN 1 ELSE 0
    BY <1>0, <1>1, <1>2, <2>1
  <2>4. \A d \in Contracts \ {c} : contract'[d] = contract[d]
    BY <1>0
  <2>5. contract'[l.c].status = "ACTIVE" /\ fdt'[l.c].active = 0
    BY <1>0, <1>1, <2>1, <2>2
  <2>. QED
    BY <1>0, <2>1, <2>2, <2>3, <2>4, <2>5, ClientsMove
<1>4. CASE SaveLink(Worker)
  <2>. DEFINE new == [loc[Worker].fdoc EXCEPT !.active = @ + 1]
              saved == SaveModified(fdt[c], loc[Worker].fdoc, new)
  <2>1. /\ pc' = [pc EXCEPT ![Worker] = "countLink"] /\ loc' = [loc EXCEPT ![Worker] = loc[Worker]]
        /\ fdt' = [fdt EXCEPT ![c] = saved] /\ pc[Worker] = "saveLink"
    BY <1>1, <1>4 DEF SaveLink, SaveFdt, Go, TypeInv, Handlers
  <2>2. loc[Worker].fdoc \in FdtDoc /\ loc[Worker].fdoc.active = 0
    BY <1>0, <1>1, <2>1 DEF Locals
  <2>3. new.active = 1
    BY <2>2 DEF FdtDoc
  <2>. HIDE DEF new
  <2>4. saved.active = 1
    BY <1>0, <2>2, <2>3 DEF SaveModified, FdtDoc
  <2>. HIDE DEF saved, c
  <2>5. /\ \A f \in Fdts \ {c} : fdt'[f].active <= fdt[f].active /\ fdt'[f].active \in Nat
        /\ fdt'[c].active <= IF contract'[c].status = "ACTIVE" THEN 1 ELSE 0
    BY <1>0, <1>1, <1>2, <2>1, <2>4
  <2>6. \A d \in Contracts \ {c} : contract'[d] = contract[d]
    BY <1>0
  <2>7. "countLink" \notin Counting /\ "countLink" \notin {"readLink", "saveLink"}
    BY DEF Counting
  <2>. QED
    BY <1>0, <2>1, <2>5, <2>6, <2>7, ClientsMove
<1>. QED
  BY <1>3, <1>4

\* A row is claimed, or refused, where there was none, so where no client was counted.
LEMMA ClientsInsert ==
  ASSUME TypeInv, LedgerInv, ClientsInv, CommitClaim(Worker) \/ Refuse(Worker)
  PROVE  ClientsInv'
<1>. DEFINE c == loc[Worker].c
<1>0. /\ loc[Worker] \in Locals /\ c \in Contracts /\ c \in Fdts /\ fdt \in [Fdts -> FdtDoc]
      /\ contract \in [Contracts -> ContractRow]
      /\ pc[Worker] \in {"refuse", "commitClaim"}
  BY DEF CommitClaim, Refuse, Go, TypeInv, Handlers, Procs, Locals, Collections, Fdts
<1>1. ~Exists(c) /\ fdt[c].active = 0
  <2>1. ~Exists(c)
    BY <1>0 DEF LedgerInv, ClaimOK
  <2>2. fdt[c].active <= ClientOf(c) /\ ClientOf(c) = 0
    BY <1>0, <2>1 DEF ClientsInv, ClientOf, Active, Exists
  <2>3. fdt[c].active \in Nat
    BY <1>0 DEF FdtDoc
  <2>. QED
    BY <2>1, <2>2, <2>3
<1>2. \A f \in Fdts : fdt[f].active \in Nat
  BY <1>0 DEF FdtDoc
<1>3. \A d \in Contracts \ {c} : contract'[d] = contract[d]
  BY <1>0 DEF CommitClaim, Refuse, PutRow
<1>4. CASE Refuse(Worker)
  <2>1. /\ pc' = [pc EXCEPT ![Worker] = "notifyNew"] /\ loc' = [loc EXCEPT ![Worker] = loc[Worker]]
        /\ fdt' = fdt
    BY <1>4 DEF Refuse, Go, TypeInv, Handlers
  <2>. HIDE DEF c
  <2>2. /\ \A f \in Fdts \ {c} : fdt'[f].active <= fdt[f].active /\ fdt'[f].active \in Nat
        /\ fdt'[c].active <= IF contract'[c].status = "ACTIVE" THEN 1 ELSE 0
    BY <1>0, <1>1, <1>2, <2>1
  <2>3. "notifyNew" \notin Counting /\ "notifyNew" \notin {"readLink", "saveLink"}
    BY DEF Counting
  <2>. QED
    BY <1>0, <1>3, <2>1, <2>2, <2>3, ClientsMove
<1>5. CASE CommitClaim(Worker)
  <2>. DEFINE l == [loc[Worker] EXCEPT !.news = TRUE]
              open == [fdt[c] EXCEPT !.exists = TRUE, !.nro = loc[Worker].n]
              fdoc == UpdatePorts(open, 1, PortsTotal[c])
  <2>1. /\ pc' = [pc EXCEPT ![Worker] = "readLink"] /\ loc' = [loc EXCEPT ![Worker] = l]
        /\ fdt' = [fdt EXCEPT ![c] = fdoc] /\ pc[Worker] = "commitClaim"
    BY <1>5 DEF CommitClaim, Go, Hold
  <2>2. contract'[c].status = "ACTIVE"
    BY <1>0, <1>5 DEF CommitClaim, PutRow
  <2>3. open.active = fdt[c].active /\ DOMAIN open = {"exists", "nro", "ports", "active"}
    BY <1>0 DEF FdtDoc
  <2>. HIDE DEF open
  <2>5. fdoc.active = 0
    BY <1>1, <2>3 DEF UpdatePorts
  <2>. HIDE DEF fdoc
  <2>6. l.c = c /\ l.f = c
    BY <1>0, <2>1 DEF Locals, ClientsInv, Counting
  <2>. HIDE DEF l, c
  <2>7. fdt'[c].active = 0 /\ \A f \in Fdts \ {c} : fdt'[f] = fdt[f]
    BY <1>0, <2>1, <2>5
  <2>8. /\ \A f \in Fdts \ {c} : fdt'[f].active <= fdt[f].active /\ fdt'[f].active \in Nat
        /\ fdt'[c].active <= IF contract'[c].status = "ACTIVE" THEN 1 ELSE 0
    BY <1>2, <2>2, <2>7
  <2>9. contract'[l.c].status = "ACTIVE" /\ fdt'[l.c].active = 0
    BY <2>2, <2>6, <2>7
  <2>. QED
    BY <1>0, <1>3, <2>1, <2>6, <2>8, <2>9, ClientsMove
<1>. QED
  BY <1>4, <1>5

\* The FDTs after a release count no more clients, and none for the contract released.
LEMMA FreedClients ==
  ASSUME TypeInv, PortsInv, ClientsInv, NEW c \in Contracts, NEW f,
         fdt' = Freed(f, contract[c].fdt)
  PROVE  /\ \A g \in Fdts : fdt'[g].active \in Nat /\ fdt'[g].active <= fdt[g].active
         /\ fdt'[c].active = 0
<1>. DEFINE link == contract[c].fdt
<1>0. \A g \in Fdts : fdt[g] \in FdtDoc /\ fdt[g].active \in Nat
  BY DEF TypeInv, Collections, FdtDoc
<1>1. ASSUME NEW g \in Fdts
      PROVE  fdt'[g].active = IF g = link THEN AtLeastZero(fdt[g].active - 1) ELSE fdt[g].active
  <2>. DEFINE doc == IF g = f /\ fdt[g].exists THEN UpdatePorts(fdt[g], -1, PortsTotal[g])
                     ELSE fdt[g]
  <2>1. fdt'[g] = IF g = link THEN [doc EXCEPT !.active = AtLeastZero(doc.active - 1)] ELSE doc
    BY DEF Freed
  <2>2. DOMAIN doc = {"exists", "nro", "ports", "active"} /\ doc.active = fdt[g].active
    BY <1>0 DEF UpdatePorts, FdtDoc
  <2>. HIDE DEF doc
  <2>. QED
    BY <2>1, <2>2
<1>2. \A g \in Fdts : fdt'[g].active \in Nat /\ fdt'[g].active <= fdt[g].active
  BY <1>0, <1>1 DEF AtLeastZero
<1>3. fdt'[c].active = 0
  <2>0. c \in Fdts
    BY DEF Fdts
  <2>1. CASE Active(c)
    <3>1. link = c /\ ClientOf(c) = 1
      BY <2>1 DEF PortsInv, ClientOf
    <3>2. fdt[c].active <= 1
      BY <2>0, <3>1 DEF ClientsInv
    <3>. QED
      BY <1>0, <1>1, <2>0, <3>1, <3>2 DEF AtLeastZero
  <2>2. CASE ~Active(c)
    <3>1. fdt[c].active <= 0
      BY <2>0, <2>2 DEF ClientsInv, ClientOf
    <3>. QED
      BY <1>0, <1>2, <2>0, <3>1
  <2>. QED
    BY <2>1, <2>2
<1>. QED
  BY <1>2, <1>3

LEMMA ClientsRelease ==
  ASSUME TypeInv, LedgerInv, PortsInv, ClientsInv, PlainSave(Worker) \/ CommitRelease(Worker)
  PROVE  ClientsInv'
<1>. DEFINE c == loc[Worker].c
<1>0. /\ loc[Worker] \in Locals /\ c \in Contracts /\ c \in Fdts
      /\ pc' = [pc EXCEPT ![Worker] = "notifyCancel"] /\ loc' = [loc EXCEPT ![Worker] = loc[Worker]]
      /\ contract \in [Contracts -> ContractRow]
  BY DEF PlainSave, CommitRelease, Go, TypeInv, Handlers, Procs, Locals, Collections, Fdts
<1>1. \A d \in Contracts \ {c} : contract'[d] = contract[d]
  BY <1>0 DEF PlainSave, CommitRelease, Cancelled
<1>2. /\ \A g \in Fdts : fdt'[g].active \in Nat /\ fdt'[g].active <= fdt[g].active
      /\ fdt'[c].active = 0
  <2>1. CASE CommitRelease(Worker)
    <3>1. fdt' = Freed(loc[Worker].f, contract[c].fdt)
      BY <2>1 DEF CommitRelease
    <3>. HIDE DEF c
    <3>. QED
      BY <1>0, <3>1, FreedClients
  <2>2. CASE PlainSave(Worker)
    <3>1. fdt' = fdt /\ pc[Worker] = "plainSave" /\ Same(loc[Worker]) /\ Worker \in Procs
      BY <2>2 DEF PlainSave, Go, Procs
    <3>2. contract[c].nro = NoNro
      BY <3>1 DEF LedgerInv, ReleaseOK
    <3>3. ~Active(c)
      BY <1>0, <3>2 DEF LedgerInv, RowsOK
    <3>4. \A g \in Fdts : fdt[g].active \in Nat
      BY DEF TypeInv, Collections, FdtDoc
    <3>5. fdt[c].active <= 0
      BY <1>0, <3>3 DEF ClientsInv, ClientOf
    <3>. QED
      BY <1>0, <3>1, <3>4, <3>5
  <2>. QED
    BY <2>1, <2>2
<1>3. "notifyCancel" \notin Counting /\ "notifyCancel" \notin {"readLink", "saveLink"}
  BY DEF Counting
<1>. HIDE DEF c
<1>4. /\ \A f \in Fdts \ {c} : fdt'[f].active <= fdt[f].active /\ fdt'[f].active \in Nat
      /\ fdt'[c].active <= IF contract'[c].status = "ACTIVE" THEN 1 ELSE 0
  BY <1>2
<1>. QED
  BY <1>0, <1>1, <1>3, <1>4, ClientsMove

LEMMA ClientsNext ==
  ASSUME EventsOnly, TypeInv, LedgerInv, PortsInv, ClientsInv, [Next]_vars
  PROVE  ClientsInv'
<1>0. /\ Worker \in Procs /\ Transactional /\ RestOps = {}
      /\ \A p \in Procs : p # Worker => p \in Requests
  BY DEF Procs, EventsOnly
<1>1. ASSUME NEW r \in Requests, RequestStep(r) \/ CallFails(r) \/ AbortCommit(r)
      PROVE  FALSE
  <2>1. pc[r] = "idle" /\ r \in Procs /\ r # Worker
    BY PipelineAssumption DEF ClientsInv, Procs
  <2>2. ~CallFails(r) /\ ~AbortCommit(r) /\ ~WriteRefused(r)
    BY <2>1 DEF CallFails, AbortCommit, WriteRefused, Refused
  <2>3. \A c \in Contracts : ~PostContract(r, c) /\ ~DeleteContract(r, c)
    BY <1>0 DEF PostContract, DeleteContract, Call
  <2>4. ~RestSteps(r)
    BY <2>1, Unreached DEF RestSteps, FindById, Erase
  <2>5. ~EditSteps(r)
    BY <1>0, <2>1 DEF EditSteps, EditNro, SaveEdit
  <2>6. ~CancelSteps(r)
    BY <2>1 DEF CancelSteps, FindContract, PlainSave, CommitRelease, ReadRelease, SaveRelease,
       ReadPortsBack, SavePortsBack, ReadLinkBack, SaveLinkBack, SaveRow, NotifyCancel, ReadNro,
       SaveNro, ReadFdtDoc, SaveFdt, Go
  <2>. QED
    BY <1>1, <2>1, <2>2, <2>3, <2>4, <2>5, <2>6, Unreached DEF RequestStep
<1>2. CASE WorkerStep
  <2>1. CASE NewSteps(Worker)
    <3>1. \/ FindExisting(Worker) \/ ResolveNro(Worker) \/ ReadLink(Worker) \/ SaveLink(Worker)
          \/ NotifyNew(Worker) \/ CountLink(Worker) \/ Refuse(Worker) \/ CommitClaim(Worker)
      BY <1>0, <2>1, Unreached DEF NewSteps
    <3>. QED
      BY <1>0, <3>1, ClientsPlain, ClientsResolve, ClientsLink, ClientsInsert
  <2>2. CASE CancelSteps(Worker)
    <3>1. \/ FindContract(Worker) \/ PlainSave(Worker) \/ CommitRelease(Worker)
          \/ NotifyCancel(Worker)
      BY <1>0, <2>2, Unreached DEF CancelSteps
    <3>. QED
      BY <1>0, <3>1, ClientsPlain, ClientsRelease
  <2>3. CASE TakeJob \/ Broadcast \/ Complete \/ NroSteps(Worker) \/ WriteRefused(Worker)
    BY <1>0, <2>3, ClientsPlain
  <2>4. ~ClaimSteps(Worker)
    BY <1>0, Unreached
  <2>. QED
    BY <1>2, <2>1, <2>2, <2>3, <2>4 DEF WorkerStep
<1>3. ASSUME UNCHANGED <<contract, fdt, pc, loc>>
      PROVE  ClientsInv'
  <2>1. \A f \in Fdts : ClientOf(f)' = ClientOf(f)
    BY <1>3 DEF ClientOf, Active
  <2>. QED
    BY <1>3, <2>1 DEF ClientsInv, Active
<1>4. ASSUME NEW ev \in Events, Enqueue(ev)
      PROVE  ClientsInv'
  BY <1>3, <1>4 DEF Enqueue, db
<1>5. ASSUME NEW id \in DOMAIN jobs, Promote(id) \/ Recover(id)
      PROVE  ClientsInv'
  BY <1>3, <1>5 DEF Promote, Recover, db
<1>6. CASE Failure
  <2>1. CASE Crash
    <3>1. UNCHANGED <<contract, fdt>> /\ \A p \in Procs : pc'[p] = "idle"
      BY <2>1 DEF Crash, db
    <3>2. "idle" \notin Counting
      BY DEF Counting
    <3>. QED
      BY <1>0, <3>1, <3>2, ClientsQuiet DEF Procs
  <2>2. ASSUME NEW p \in Procs, CallFails(p) \/ AbortCommit(p)
        PROVE  ClientsInv'
    <3>1. p = Worker
      BY <1>0, <1>1, <2>2
    <3>. QED
      BY <1>0, <2>2, <3>1, ClientsPlain
  <2>. QED
    BY <1>6, <2>1, <2>2 DEF Failure
<1>7. CASE UNCHANGED vars
  BY <1>3, <1>7 DEF vars
<1>. QED
  BY <1>1, <1>2, <1>4, <1>5, <1>6, <1>7 DEF Next, AllDone

LEMMA ClientsInit == Init => ClientsInv
<1>. SUFFICES ASSUME Init PROVE ClientsInv
  OBVIOUS
<1>1. \A f \in Fdts : fdt[f].active = 0
  BY DEF Init, NoFdtDoc
<1>2. \A f \in Fdts : ClientOf(f) \in {0, 1}
  BY DEF ClientOf
<1>3. \A p \in Procs : pc[p] = "idle"
  BY DEF Init
<1>4. \A f \in Fdts : fdt[f].active <= ClientOf(f)
  BY <1>1, <1>2
<1>. QED
  BY <1>3, <1>4 DEF ClientsInv, Counting, Procs

\* No FDT counts more clients than it has ACTIVE contracts when contracts come and go by
\* events only, although a client is registered after the commit: whatever is retried,
\* redelivered or refused, the worker handles one event at a time.
THEOREM ClientsHeld ==
  ASSUME EventsOnly
  PROVE  Spec => []ClientsAreHeld
<1>0. EventsOnReplicaSet
  BY DEF EventsOnly, EventsOnReplicaSet
<1>1. TypeInv /\ LedgerInv /\ PortsInv /\ ClientsInv /\ [Next]_vars => PortsInv' /\ ClientsInv'
  BY <1>0, PortsNext, ClientsNext
<1>2. TypeInv /\ PortsInv /\ ClientsInv => ClientsAreHeld
  <2>. SUFFICES ASSUME TypeInv, PortsInv, ClientsInv, NEW f \in Fdts
                PROVE  fdt[f].active <=
                         Cardinality({c \in Contracts : Active(c) /\ contract[c].fdt = f})
    BY DEF ClientsAreHeld
  <2>1. fdt[f].active \in Nat /\ fdt[f].active <= ClientOf(f)
    BY DEF TypeInv, Collections, FdtDoc, ClientsInv
  <2>. QED
    BY <2>1, OwnContract DEF PortsInv, ClientOf
<1>3. Spec => []LedgerInv
  BY <1>0, LedgerInvCorrect
<1>. QED
  BY <1>1, <1>2, <1>3, PortsInit, ClientsInit, TypeInvCorrect, PTL DEF Spec

-----------------------------------------------------------------------------
(* Nothing goes unaccounted.                                                  *)

\* Contracts come and go by one REST call at a time, events are about NROs, and no failure
\* cuts a release short: none happens, or one at most where the release is a transaction,
\* or nothing is deleted.
OneCaller ==
  /\ \E r \in Requests : Requests = {r}
  /\ \A ev \in Events : ev.type \in {"nro.new", "nro.update", "nro.delete"}
  /\ MaxFaults = 0 \/ (Transactional /\ MaxFaults = 1) \/ "delete" \notin RestOps

Caller == CHOOSE r \in Requests : TRUE

\* Where the worker is then; and the caller, before its claim is written, after it, and in
\* a deletion before the release, after it, and when the row is as the code wants it.
AdminLabel == {"idle", "broadcast", "complete", "upsertNro", "readUpdate", "saveUpdate",
               "readDelete", "saveDelete"}
Asking == {"readFdt", "readClaim", "saveClaim"}
Claimed == {"readPorts", "savePorts", "insertRow"}
Releasing == {"plainSave", "commitRelease", "readRelease", "saveRelease"}
Released == {"readPortsBack", "savePortsBack", "readLinkBack", "saveLinkBack", "saveRow"}
Cancelling == {"notifyCancel", "erase"}
Deleting == {"findById", "findContract"} \cup Releasing \cup Released \cup Cancelling

\* A call at lab whose load is given back and whose row is ACTIVE still.
GaveBack(lab, l) == lab \in Released \/ (lab \in Cancelling /\ ~l.dirty)

\* What a call at lab holds agrees with the collections: the load it has read is the load
\* there is, the row it has found is there; and what it gave back it will erase.
CallFits(lab, l, rows, docs, spent) ==
  /\ lab \in {"idle", "saveEdit"} \cup Asking \cup Claimed \cup Deleting
  /\ lab \in Deleting => "delete" \in RestOps
  /\ lab = "commitRelease" => Transactional
  /\ lab \in {"readRelease", "saveRelease"} \cup Released => ~Transactional
  /\ lab \in {"saveClaim", "saveRelease"} => l.doc.load = docs[l.n].load
  /\ lab \in {"findContract"} \cup Releasing \cup Released \/ GaveBack(lab, l) =>
       rows[l.c].status # "NONE" /\ rows[l.c].oid = l.target
  /\ lab \in Releasing \cup Released => rows[l.c] = l.row /\ l.row.status = "ACTIVE"
  /\ lab \in Releasing => l.n = l.row.nro
  /\ lab = "plainSave" => l.dirty
  /\ GaveBack(lab, l) \/ (lab = "commitRelease" /\ ~l.dirty) => spent = MaxFaults

\* The contracts that n must have load for: the ACTIVE ones on it, but one whose load is
\* given back, and one whose load is claimed.
Accounted(lab, l, rows, n) ==
  {c \in Contracts : \/ rows[c].status = "ACTIVE" /\ rows[c].nro = n /\ ~(GaveBack(lab, l) /\ l.c = c)
                     \/ lab \in Claimed /\ l.n = n /\ l.c = c}

CoverInv ==
  /\ pc[Worker] \in AdminLabel
  /\ \A id \in DOMAIN jobs : jobs[id].ev \in Events
  /\ \A c \in Contracts : contract[c].status # "FAILED"
  /\ CallFits(pc[Caller], loc[Caller], contract, nro, faults)
  /\ \A n \in Nros : Units(Gb, Accounted(pc[Caller], loc[Caller], contract, n)) <= nro[n].load

LEMMA TheCaller ==
  ASSUME OneCaller
  PROVE  /\ Requests = {Caller} /\ Caller \in Procs /\ Worker \in Procs /\ Caller # Worker
         /\ Procs = {Worker, Caller}
<1>1. PICK r : Requests = {r}
  BY DEF OneCaller
<1>2. Caller = r
  BY <1>1 DEF Caller
<1>. QED
  BY <1>1, <1>2, PipelineAssumption DEF Procs

LEMMA AccountedFinite ==
  ASSUME NEW lab, NEW l, NEW rows, NEW n
  PROVE  /\ Accounted(lab, l, rows, n) \in SUBSET Contracts
         /\ Units(Gb, Accounted(lab, l, rows, n)) \in Nat
<1>1. Accounted(lab, l, rows, n) \in SUBSET Contracts
  BY DEF Accounted
<1>. QED
  BY <1>1, HoldingFinite

\* The caller moves on, and what it writes leaves the accounts in order.
LEMMA CoverMoves ==
  ASSUME OneCaller, TypeInv, CoverInv, NEW lab, NEW l,
         pc' = [pc EXCEPT ![Caller] = lab], loc' = [loc EXCEPT ![Caller] = l], UNCHANGED jobs,
         \A c \in Contracts : contract'[c].status # "FAILED",
         CallFits(lab, l, contract', nro', faults'),
         \A n \in Nros : Units(Gb, Accounted(lab, l, contract', n)) <= nro'[n].load
  PROVE  CoverInv'
<1>1. pc'[Caller] = lab /\ loc'[Caller] = l /\ pc'[Worker] = pc[Worker]
  BY TheCaller DEF TypeInv, Handlers
<1>2. CallFits(pc[Caller], loc[Caller], contract, nro, faults)'
  BY <1>1 DEF CallFits, GaveBack
<1>3. \A n \in Nros : (Units(Gb, Accounted(pc[Caller], loc[Caller], contract, n)))' <= nro'[n].load
  <2>1. \A n : Accounted(pc[Caller], loc[Caller], contract, n)' = Accounted(lab, l, contract', n)
    BY <1>1 DEF Accounted, GaveBack
  <2>. QED
    BY <2>1 DEF Units, UnitsOf
<1>. QED
  BY <1>1, <1>2, <1>3 DEF CoverInv

\* It writes no load and no row, and answers for no less than before.
LEMMA CoverQuiet ==
  ASSUME OneCaller, TypeInv, CoverInv, NEW lab, NEW l,
         pc' = [pc EXCEPT ![Caller] = lab], loc' = [loc EXCEPT ![Caller] = l],
         UNCHANGED <<jobs, contract>>,
         \A n \in Nros : nro'[n].load = nro[n].load,
         CallFits(lab, l, contract, nro', faults'),
         lab \in Claimed => pc[Caller] \in Claimed /\ l.c = loc[Caller].c /\ l.n = loc[Caller].n,
         GaveBack(pc[Caller], loc[Caller]) => GaveBack(lab, l) /\ l.c = loc[Caller].c
  PROVE  CoverInv'
<1>1. ASSUME NEW n \in Nros
      PROVE  Units(Gb, Accounted(lab, l, contract', n)) <= nro'[n].load
  <2>. DEFINE A == Accounted(pc[Caller], loc[Caller], contract, n)
              B == Accounted(lab, l, contract, n)
  <2>1. B \in SUBSET A /\ A \in SUBSET Contracts
    BY DEF Accounted
  <2>2. Units(Gb, B) \in Nat /\ Units(Gb, A) \in Nat /\ Units(Gb, B) <= Units(Gb, A)
    BY <2>1, UnitsGrow
  <2>3. Units(Gb, A) <= nro[n].load /\ nro[n].load \in Nat
    BY DEF CoverInv, TypeInv, Collections, NroDoc
  <2>. QED
    BY <2>2, <2>3
<1>2. \A c \in Contracts : contract'[c].status # "FAILED"
  BY DEF CoverInv
<1>. QED
  BY <1>1, <1>2, CoverMoves

\* A step of the worker, or of the queue.
LEMMA CoverAside ==
  ASSUME OneCaller, TypeInv, CoverInv, pc'[Worker] \in AdminLabel,
         pc'[Caller] = pc[Caller], loc'[Caller] = loc[Caller],
         UNCHANGED contract, faults' = faults \/ faults < MaxFaults,
         \A n \in Nros : nro'[n].load = nro[n].load,
         \A id \in DOMAIN jobs' : jobs'[id].ev \in Events
  PROVE  CoverInv'
<1>0. faults < MaxFaults => faults # MaxFaults
  BY PipelineAssumption DEF TypeInv, Tallies
<1>1. pc[Caller] \in {"saveClaim", "saveRelease"} => loc[Caller].n \in Nros
  BY TheCaller DEF TypeInv, Handlers, NroLabel
<1>2. CallFits(pc[Caller], loc[Caller], contract, nro, faults)'
  BY <1>0, <1>1 DEF CallFits, GaveBack, CoverInv
<1>3. \A n \in Nros : (Units(Gb, Accounted(pc[Caller], loc[Caller], contract, n)))' <= nro'[n].load
  <2>1. \A n : Accounted(pc[Caller], loc[Caller], contract, n)'
                 = Accounted(pc[Caller], loc[Caller], contract, n)
    BY DEF Accounted, GaveBack
  <2>. QED
    BY <2>1 DEF Units, UnitsOf, CoverInv
<1>. QED
  BY <1>2, <1>3 DEF CoverInv

\* The call returns, with its answer or an error.
LEMMA CoverEnds ==
  ASSUME OneCaller, TypeInv, CoverInv, Finish(Caller), UNCHANGED <<jobs, contract>>,
         \A n \in Nros : nro'[n].load = nro[n].load,
         ~GaveBack(pc[Caller], loc[Caller])
  PROVE  CoverInv'
<1>1. CallFits("idle", Blank, contract, nro', faults')
  BY DEF CallFits, GaveBack, Asking, Claimed, Deleting, Releasing, Released, Cancelling
<1>. QED
  BY <1>1, CoverQuiet DEF Finish, Claimed

LEMMA CoverClaim ==
  ASSUME OneCaller, TypeInv, CoverInv, ClaimSteps(Caller)
  PROVE  CoverInv'
<1>. DEFINE lc == pc[Caller]
            l == loc[Caller]
<1>0. /\ CallFits(lc, l, contract, nro, faults) /\ l \in Locals /\ l.c \in Contracts
      /\ lc \in NroLabel => l.n \in Nros
  BY TheCaller DEF CoverInv, TypeInv, Handlers, Locals
<1>1. CASE ReadClaim(Caller)
  <2>. DEFINE m == [l EXCEPT !.doc = nro[l.n]]
  <2>1. lc = "readClaim" /\ pc' = [pc EXCEPT ![Caller] = "saveClaim"]
        /\ loc' = [loc EXCEPT ![Caller] = m] /\ UNCHANGED <<nro, contract, jobs, faults>>
    BY <1>1 DEF ReadClaim, ReadNro, Go, Hold, db, redis
  <2>2. m.n = l.n /\ m.c = l.c /\ m.doc = nro[l.n]
    BY <1>0 DEF Locals
  <2>3. CallFits("saveClaim", m, contract, nro', faults')
    BY <2>1, <2>2 DEF CallFits, GaveBack, Asking, Claimed, Deleting, Releasing, Released, Cancelling
  <2>4. ~GaveBack(lc, l) /\ "saveClaim" \notin Claimed
    BY <2>1 DEF GaveBack, Released, Cancelling, Claimed
  <2>. QED
    BY <2>1, <2>3, <2>4, CoverQuiet
<1>2. CASE SaveClaim(Caller)
  <2>. DEFINE c == l.c
              n == l.n
              new == UpdateCapacite(l.doc, Gb[c])
  <2>1. lc = "saveClaim" /\ pc' = [pc EXCEPT ![Caller] = "readPorts"]
        /\ nro' = [nro EXCEPT ![n] = SaveModified(@, l.doc, new)]
        /\ UNCHANGED <<loc, contract, jobs, faults>>
    BY <1>2, TheCaller DEF SaveClaim, SaveNro, Go, redis
  <2>2. n \in Nros /\ nro[n] \in NroDoc /\ l.doc \in NroDoc /\ Gb[c] \in Nat
    BY <1>0, <2>1, PipelineAssumption DEF NroLabel, TypeInv, Collections, Locals
  <2>3. l.doc.load = nro[n].load
    BY <1>0, <2>1 DEF CallFits
  <2>4. new.load = l.doc.load + Gb[c]
    BY <2>2 DEF UpdateCapacite, AtLeastZero, NroDoc
  <2>5. nro'[n].load = nro[n].load + Gb[c] /\ \A m \in Nros \ {n} : nro'[m] = nro[m]
    <3>1. DOMAIN nro[n] = {"load", "max", "status", "fdts"} /\ nro \in [Nros -> NroDoc]
      BY <2>2 DEF NroDoc, TypeInv, Collections
    <3>2. SaveModified(nro[n], l.doc, new).load = new.load
      BY <2>3, <3>1 DEF SaveModified
    <3>. QED
      BY <2>1, <2>2, <2>3, <2>4, <3>1, <3>2
  <2>6. CallFits("readPorts", l, contract, nro', faults')
    BY <2>1 DEF CallFits, GaveBack, Asking, Claimed, Deleting, Releasing, Released, Cancelling
  <2>7. ASSUME NEW m \in Nros
        PROVE  Units(Gb, Accounted("readPorts", l, contract', m)) <= nro'[m].load
    <3>. DEFINE A == Accounted(lc, l, contract, m)
                B == Accounted("readPorts", l, contract', m)
    <3>1. A \in SUBSET Contracts /\ Units(Gb, A) \in Nat /\ Units(Gb, A) <= nro[m].load
          /\ nro[m].load \in Nat
      BY AccountedFinite DEF CoverInv, TypeInv, Collections, NroDoc
    <3>2. B = IF m = n THEN A \cup {c} ELSE A
      BY <1>0, <2>1 DEF Accounted, GaveBack, Claimed, Released, Cancelling
    <3>3. CASE m # n \/ c \in A
      <4>1. B = A
        BY <3>2, <3>3
      <4>. QED
        BY <2>2, <2>5, <3>1, <4>1
    <3>4. CASE m = n /\ c \notin A
      <4>1. Units(Gb, A \cup {c}) = Units(Gb, A) + Gb[c]
        BY <2>2, <3>1, <3>4, HoldingFinite, UnitsAdd
      <4>2. B = A \cup {c}
        BY <3>2, <3>4
      <4>3. nro'[m].load = nro[m].load + Gb[c]
        BY <2>5, <3>4
      <4>4. Units(Gb, B) <= nro'[m].load
        <5>. HIDE DEF A, B
        <5>. QED
          BY <2>2, <3>1, <4>1, <4>2, <4>3
      <4>. QED
        BY <4>4
    <3>. QED
      BY <3>3, <3>4
  <2>8. \A d \in Contracts : contract'[d].status # "FAILED"
    BY <2>1 DEF CoverInv
  <2>9. loc' = [loc EXCEPT ![Caller] = l]
    BY <2>1 DEF TypeInv, Handlers
  <2>. QED
    BY <2>1, <2>6, <2>7, <2>8, <2>9, CoverMoves
<1>3. CASE ReadPorts(Caller) \/ SavePorts(Caller)
  <2>. DEFINE to == IF lc = "readPorts" THEN "savePorts" ELSE "insertRow"
              m == IF lc = "readPorts" THEN [l EXCEPT !.fdoc = fdt[l.f]] ELSE l
  <2>1. lc \in {"readPorts", "savePorts"} /\ pc' = [pc EXCEPT ![Caller] = to]
        /\ loc' = [loc EXCEPT ![Caller] = m] /\ UNCHANGED <<nro, contract, jobs, faults>>
    BY <1>3, TheCaller DEF ReadPorts, SavePorts, ReadFdtDoc, SaveFdt, Go, Hold, db, redis, TypeInv,
       Handlers
  <2>2. m.n = l.n /\ m.c = l.c
    BY <1>0 DEF Locals
  <2>3. CallFits(to, m, contract, nro', faults')
    BY <2>1 DEF CallFits, GaveBack, Asking, Claimed, Deleting, Releasing, Released, Cancelling
  <2>4. ~GaveBack(lc, l) /\ lc \in Claimed
    BY <2>1 DEF GaveBack, Released, Cancelling, Claimed
  <2>. QED
    BY <2>1, <2>2, <2>3, <2>4, CoverQuiet
<1>. QED
  BY <1>1, <1>2, <1>3 DEF ClaimSteps

\* The steps of a cancellation that write no load and no row.
LEMMA CoverReads ==
  ASSUME OneCaller, TypeInv, CoverInv,
         \/ FindContract(Caller) \/ ReadRelease(Caller) \/ ReadPortsBack(Caller)
         \/ SavePortsBack(Caller) \/ ReadLinkBack(Caller) \/ SaveLinkBack(Caller)
         \/ NotifyCancel(Caller)
  PROVE  CoverInv'
<1>. DEFINE lc == pc[Caller]
            l == loc[Caller]
<1>0. /\ CallFits(lc, l, contract, nro, faults) /\ l \in Locals /\ l.c \in Contracts
      /\ contract[l.c] \in ContractRow /\ contract[l.c].status # "FAILED"
  BY TheCaller DEF CoverInv, TypeInv, Handlers, Locals, Collections
<1>1. CASE FindContract(Caller)
  <2>. DEFINE row == contract[l.c]
              m == [l EXCEPT !.row = row, !.n = row.nro, !.f = row.fdt, !.dirty = TRUE]
  <2>1. PICK to : /\ lc = "findContract" /\ pc' = [pc EXCEPT ![Caller] = to]
                  /\ to = CASE row.status = "NONE" -> "notifyCancel"
                            [] row.status = "CANCELLED" -> "erase"
                            [] OTHER -> IF row.nro = NoNro THEN "plainSave"
                                        ELSE IF Transactional THEN "commitRelease"
                                        ELSE "readRelease"
    BY <1>1, TheCaller DEF FindContract, Go, AfterCancel
  <2>2. loc' = [loc EXCEPT ![Caller] = m] /\ UNCHANGED <<nro, contract, jobs, faults>>
    BY <1>1 DEF FindContract, Hold, db, redis
  <2>3. /\ to \in {"notifyCancel", "erase", "plainSave", "commitRelease", "readRelease"}
        /\ to \in Releasing => row.status = "ACTIVE"
        /\ to = "commitRelease" => Transactional
        /\ to = "readRelease" => ~Transactional
    BY <1>0, <2>1 DEF ContractRow, Releasing
  <2>4. m.c = l.c /\ m.row = row /\ m.n = row.nro /\ m.dirty /\ m.target = l.target
    BY <1>0 DEF Locals
  <2>5. "delete" \in RestOps /\ row.status # "NONE" /\ row.oid = l.target
    BY <1>0, <2>1 DEF CallFits, Deleting
  <2>6. ~GaveBack(to, m) /\ ~GaveBack(lc, l) /\ to \notin Claimed
    BY <2>1, <2>3, <2>4 DEF GaveBack, Released, Cancelling, Claimed
  <2>7. CallFits(to, m, contract, nro', faults')
    BY <2>3, <2>4, <2>5, <2>6 DEF CallFits, Deleting, Releasing, Released, Cancelling, Asking
  <2>. QED
    BY <2>1, <2>2, <2>6, <2>7, CoverQuiet
<1>2. CASE ReadRelease(Caller)
  <2>. DEFINE m == [l EXCEPT !.doc = nro[l.n]]
  <2>1. lc = "readRelease" /\ pc' = [pc EXCEPT ![Caller] = "saveRelease"]
        /\ loc' = [loc EXCEPT ![Caller] = m] /\ UNCHANGED <<nro, contract, jobs, faults>>
    BY <1>2 DEF ReadRelease, ReadNro, Go, Hold, db, redis
  <2>2. m.n = l.n /\ m.c = l.c /\ m.doc = nro[l.n] /\ m.row = l.row /\ m.target = l.target
    BY <1>0 DEF Locals
  <2>3. CallFits("saveRelease", m, contract, nro', faults')
    BY <1>0, <2>1, <2>2 DEF CallFits, GaveBack, Asking, Claimed, Deleting, Releasing, Released,
       Cancelling
  <2>4. ~GaveBack(lc, l) /\ "saveRelease" \notin Claimed
    BY <2>1 DEF GaveBack, Released, Cancelling, Claimed
  <2>. QED
    BY <2>1, <2>3, <2>4, CoverQuiet
<1>3. ASSUME ReadPortsBack(Caller) \/ SavePortsBack(Caller) \/ ReadLinkBack(Caller)
             \/ SaveLinkBack(Caller)
      PROVE  CoverInv'
  <2>1. PICK to, m :
          /\ lc \in Released /\ to \in Released /\ pc' = [pc EXCEPT ![Caller] = to]
          /\ loc' = [loc EXCEPT ![Caller] = m] /\ UNCHANGED <<nro, contract, jobs, faults>>
          /\ m.c = l.c /\ m.row = l.row /\ m.target = l.target /\ m.n = l.n
    <3>1. CASE ReadPortsBack(Caller)
      <4>. DEFINE m == [l EXCEPT !.fdoc = fdt[l.f]]
      <4>1. lc \in Released /\ pc' = [pc EXCEPT ![Caller] = "savePortsBack"]
            /\ loc' = [loc EXCEPT ![Caller] = m] /\ UNCHANGED <<nro, contract, jobs, faults>>
        BY <3>1 DEF ReadPortsBack, ReadFdtDoc, Go, Hold, db, redis, Released
      <4>2. m.c = l.c /\ m.row = l.row /\ m.target = l.target /\ m.n = l.n
        BY <1>0 DEF Locals
      <4>3. "savePortsBack" \in Released
        BY DEF Released
      <4>. QED
        BY <4>1, <4>2, <4>3
    <3>2. CASE SavePortsBack(Caller) \/ SaveLinkBack(Caller)
      <4>1. loc' = [loc EXCEPT ![Caller] = l]
        BY <3>2 DEF SavePortsBack, SaveLinkBack, SaveFdt, TypeInv, Handlers
      <4>2. lc \in Released /\ UNCHANGED <<nro, contract, jobs, faults>>
            /\ \E to \in Released : pc' = [pc EXCEPT ![Caller] = to]
        BY <3>2 DEF SavePortsBack, SaveLinkBack, SaveFdt, Go, redis, Released
      <4>. QED
        BY <4>1, <4>2
    <3>3. CASE ReadLinkBack(Caller)
      <4>. DEFINE row == contract[l.c]
                  linked == Same(l) /\ row.fdt # NoFdt
                  m == IF linked THEN [l EXCEPT !.f = row.fdt, !.fdoc = fdt[row.fdt]] ELSE l
      <4>1. loc' = [loc EXCEPT ![Caller] = m] /\ UNCHANGED <<nro, contract, jobs, faults>>
        BY <3>3 DEF ReadLinkBack, Hold, db, redis
      <4>2. lc \in Released /\ \E to \in Released : pc' = [pc EXCEPT ![Caller] = to]
        BY <3>3 DEF ReadLinkBack, Go, Released
      <4>3. m.c = l.c /\ m.row = l.row /\ m.target = l.target /\ m.n = l.n
        BY <1>0 DEF Locals
      <4>. QED
        BY <4>1, <4>2, <4>3
    <3>. QED
      BY <1>3, <3>1, <3>2, <3>3
  <2>2. CallFits(to, m, contract, nro', faults')
    BY <1>0, <2>1 DEF CallFits, GaveBack, Asking, Claimed, Deleting, Releasing, Released, Cancelling
  <2>3. GaveBack(to, m) /\ to \notin Claimed
    BY <2>1 DEF GaveBack, Released, Cancelling, Claimed
  <2>. QED
    BY <2>1, <2>2, <2>3, CoverQuiet
<1>4. CASE NotifyCancel(Caller)
  <2>1. lc = "notifyCancel" /\ pc' = [pc EXCEPT ![Caller] = "erase"]
        /\ loc' = [loc EXCEPT ![Caller] = l] /\ UNCHANGED <<nro, contract, jobs, faults>>
    BY <1>4, TheCaller DEF NotifyCancel, AfterCancel, Go, db, redis, TypeInv, Handlers
  <2>2. CallFits("erase", l, contract, nro', faults')
    BY <1>0, <2>1 DEF CallFits, GaveBack, Asking, Claimed, Deleting, Releasing, Released, Cancelling
  <2>3. (GaveBack(lc, l) => GaveBack("erase", l)) /\ "erase" \notin Claimed
    BY <2>1 DEF GaveBack, Released, Cancelling, Claimed
  <2>. QED
    BY <2>1, <2>2, <2>3, CoverQuiet
<1>. QED
  BY <1>1, <1>2, <1>3, <1>4

\* What the call has given back is no longer asked of its NRO.
LEMMA CoverFreed ==
  ASSUME OneCaller, TypeInv, CoverInv, NEW to, NEW c \in Contracts, NEW n \in Nros,
         \A m : Accounted(to, loc[Caller], contract', m)
                  = Accounted(pc[Caller], loc[Caller], contract, m) \ {c},
         c \in Accounted(pc[Caller], loc[Caller], contract, n),
         nro'[n].load = AtLeastZero(nro[n].load - Gb[c]),
         \A m \in Nros \ {n} : /\ nro'[m].load = nro[m].load
                               /\ c \notin Accounted(pc[Caller], loc[Caller], contract, m),
         NEW m \in Nros
  PROVE  Units(Gb, Accounted(to, loc[Caller], contract', m)) <= nro'[m].load
<1>. DEFINE A == Accounted(pc[Caller], loc[Caller], contract, m)
            B == Accounted(to, loc[Caller], contract', m)
<1>1. A \in SUBSET Contracts /\ Units(Gb, A) \in Nat /\ Units(Gb, A) <= nro[m].load
      /\ nro[m].load \in Nat
  BY AccountedFinite DEF CoverInv, TypeInv, Collections, NroDoc
<1>2. B = A \ {c} /\ Units(Gb, B) \in Nat
  BY AccountedFinite
<1>3. CASE m # n
  <2>1. B = A /\ nro'[m].load = nro[m].load
    BY <1>2, <1>3
  <2>. QED
    BY <1>1, <2>1
<1>4. CASE m = n
  <2>1. c \in A /\ nro'[m].load = AtLeastZero(nro[m].load - Gb[c])
    BY <1>4
  <2>2. Gb[c] \in Nat
    BY PipelineAssumption
  <2>3. Units(Gb, B) <= nro'[m].load
    <3>. HIDE DEF A, B
    <3>1. Units(Gb, A) = Units(Gb, A \ {c}) + Gb[c]
      BY <1>1, <2>1, HoldingFinite, UnitsRemove
    <3>2. Units(Gb, B) <= nro[m].load - Gb[c]
      BY <1>1, <1>2, <2>2, <3>1
    <3>. QED
      BY <1>1, <1>2, <2>1, <2>2, <3>2 DEF AtLeastZero
  <2>. QED
    BY <2>3
<1>. QED
  BY <1>3, <1>4

\* The steps of a cancellation that write a load or a row.
LEMMA CoverRelease ==
  ASSUME OneCaller, TypeInv, CoverInv,
         \/ SaveRelease(Caller) \/ CommitRelease(Caller) \/ PlainSave(Caller) \/ SaveRow(Caller)
  PROVE  CoverInv'
<1>. DEFINE lc == pc[Caller]
            l == loc[Caller]
            c == l.c
            n == l.n
<1>0. /\ CallFits(lc, l, contract, nro, faults) /\ l \in Locals /\ c \in Contracts
      /\ lc \in NroLabel => n \in Nros
      /\ contract \in [Contracts -> ContractRow] /\ nro \in [Nros -> NroDoc] /\ Gb[c] \in Nat
      /\ \A d \in Contracts : contract[d].status # "FAILED"
      /\ loc = [loc EXCEPT ![Caller] = l]
  BY TheCaller, PipelineAssumption DEF CoverInv, TypeInv, Handlers, Locals, Collections
<1>1. CASE SaveRelease(Caller)
  <2>. DEFINE new == UpdateCapacite(l.doc, -Gb[c])
              to == IF l.f = NoFdt THEN "readLinkBack" ELSE "readPortsBack"
  <2>1. lc = "saveRelease" /\ pc' = [pc EXCEPT ![Caller] = to]
        /\ nro' = [nro EXCEPT ![n] = SaveModified(@, l.doc, new)]
        /\ UNCHANGED <<loc, contract, jobs, faults>>
    BY <1>1 DEF SaveRelease, SaveNro, Go, redis
  <2>2. n \in Nros /\ nro[n] \in NroDoc /\ l.doc \in NroDoc
    BY <1>0, <2>1 DEF NroLabel, Locals
  <2>3. /\ l.doc.load = nro[n].load /\ contract[c] = l.row /\ l.row.status = "ACTIVE"
        /\ n = l.row.nro /\ ~Transactional /\ "delete" \in RestOps
    BY <1>0, <2>1 DEF CallFits, Releasing, Deleting
  <2>4. new.load = AtLeastZero(l.doc.load - Gb[c])
    <3>1. l.doc.load + (-Gb[c]) = l.doc.load - Gb[c]
      BY <1>0, <2>2 DEF NroDoc
    <3>. QED
      BY <2>2, <3>1 DEF UpdateCapacite, NroDoc
  <2>5. nro'[n].load = AtLeastZero(nro[n].load - Gb[c]) /\ \A m \in Nros \ {n} : nro'[m] = nro[m]
    <3>1. DOMAIN nro[n] = {"load", "max", "status", "fdts"}
      BY <2>2 DEF NroDoc
    <3>2. SaveModified(nro[n], l.doc, new).load = new.load
      BY <2>3, <3>1 DEF SaveModified
    <3>. QED
      BY <1>0, <2>1, <2>2, <2>3, <2>4, <3>2
  <2>6. faults = MaxFaults
    <3>1. MaxFaults = 0 /\ faults \in 0..MaxFaults
      BY <2>3 DEF OneCaller, TypeInv, Tallies
    <3>. QED
      BY <3>1
  <2>7. to \in Released /\ GaveBack(to, l) /\ to \notin Claimed
    BY DEF Released, GaveBack, Claimed
  <2>8. CallFits(to, l, contract', nro', faults')
    BY <1>0, <2>1, <2>3, <2>6, <2>7 DEF CallFits, GaveBack, Asking, Claimed, Deleting, Releasing,
       Released, Cancelling
  <2>9. ~GaveBack(lc, l) /\ lc \notin Claimed
    BY <2>1 DEF GaveBack, Released, Cancelling, Claimed
  <2>10. /\ \A m : Accounted(to, l, contract', m) = Accounted(lc, l, contract, m) \ {c}
         /\ \A m : c \in Accounted(lc, l, contract, m) <=> m = n
    BY <1>0, <2>1, <2>3, <2>7, <2>9 DEF Accounted
  <2>11. \A m \in Nros : Units(Gb, Accounted(to, l, contract', m)) <= nro'[m].load
    BY <1>0, <2>2, <2>5, <2>10, CoverFreed
  <2>. QED
    BY <1>0, <2>1, <2>8, <2>11, CoverMoves
<1>2. CASE CommitRelease(Caller)
  <2>1. lc = "commitRelease" /\ pc' = [pc EXCEPT ![Caller] = "notifyCancel"]
        /\ nro' = [nro EXCEPT ![n] = UpdateCapacite(@, -Gb[c])]
        /\ contract' = (IF l.dirty THEN Cancelled(c) ELSE contract)
        /\ UNCHANGED <<loc, jobs, faults>>
    BY <1>2 DEF CommitRelease, Go, redis
  <2>2. n \in Nros /\ nro[n] \in NroDoc
    BY <1>0, <2>1 DEF NroLabel
  <2>3. /\ contract[c] = l.row /\ l.row.status = "ACTIVE" /\ n = l.row.nro
        /\ contract[c].status # "NONE" /\ contract[c].oid = l.target /\ "delete" \in RestOps
        /\ ~l.dirty => faults = MaxFaults
    BY <1>0, <2>1 DEF CallFits, Releasing, Deleting
  <2>4. nro'[n].load = AtLeastZero(nro[n].load - Gb[c]) /\ \A m \in Nros \ {n} : nro'[m] = nro[m]
    <3>1. nro[n].load + (-Gb[c]) = nro[n].load - Gb[c]
      BY <1>0, <2>2 DEF NroDoc
    <3>2. UpdateCapacite(nro[n], -Gb[c]).load = AtLeastZero(nro[n].load - Gb[c])
      BY <2>2, <3>1 DEF UpdateCapacite, NroDoc
    <3>. QED
      BY <1>0, <2>1, <2>2, <3>2
  <2>5. /\ \A d \in Contracts \ {c} : contract'[d] = contract[d]
        /\ contract'[c].status = IF l.dirty THEN "CANCELLED" ELSE "ACTIVE"
        /\ ~l.dirty => contract'[c] = contract[c]
    BY <1>0, <2>1, <2>3 DEF Cancelled, ContractRow
  <2>6. GaveBack("notifyCancel", l) <=> ~l.dirty
    BY DEF GaveBack, Released, Cancelling
  <2>7. CallFits("notifyCancel", l, contract', nro', faults')
    BY <2>1, <2>3, <2>5, <2>6 DEF CallFits, Asking, Claimed, Deleting, Releasing, Released, Cancelling
  <2>8. ~GaveBack(lc, l) /\ lc \notin Claimed /\ "notifyCancel" \notin Claimed
    BY <2>1 DEF GaveBack, Released, Cancelling, Claimed
  <2>9. /\ \A m : Accounted("notifyCancel", l, contract', m) = Accounted(lc, l, contract, m) \ {c}
        /\ \A m : c \in Accounted(lc, l, contract, m) <=> m = n
    BY <1>0, <2>3, <2>5, <2>6, <2>8 DEF Accounted
  <2>10. \A m \in Nros : Units(Gb, Accounted("notifyCancel", l, contract', m)) <= nro'[m].load
    <3>1. /\ c \in Contracts /\ n \in Nros /\ c \in Accounted(lc, l, contract, n)
          /\ \A m \in Nros \ {n} : /\ nro'[m].load = nro[m].load
                                 /\ c \notin Accounted(lc, l, contract, m)
      BY <1>0, <2>2, <2>4, <2>9
    <3>. QED
      BY <2>4, <2>9, <3>1, CoverFreed, Zenon
  <2>11. \A d \in Contracts : contract'[d].status # "FAILED"
    BY <1>0, <2>5
  <2>. QED
    BY <1>0, <2>1, <2>7, <2>10, <2>11, CoverMoves
<1>3. CASE PlainSave(Caller) \/ SaveRow(Caller)
  <2>1. lc \in {"plainSave", "saveRow"} /\ pc' = [pc EXCEPT ![Caller] = "notifyCancel"]
        /\ contract' = Cancelled(c) /\ UNCHANGED <<nro, loc, jobs, faults>>
    BY <1>3 DEF PlainSave, SaveRow, Go, redis
  <2>2. /\ contract[c].status # "NONE" /\ contract[c].oid = l.target /\ "delete" \in RestOps
        /\ lc = "plainSave" => l.dirty
        /\ lc = "saveRow" => faults = MaxFaults
    BY <1>0, <2>1 DEF CallFits, GaveBack, Releasing, Deleting, Released
  <2>3. /\ \A d \in Contracts \ {c} : contract'[d] = contract[d]
        /\ contract'[c].status = "CANCELLED" /\ contract'[c].oid = l.target
    BY <1>0, <2>1, <2>2 DEF Cancelled, ContractRow
  <2>4. GaveBack("notifyCancel", l) <=> ~l.dirty
    BY DEF GaveBack, Released, Cancelling
  <2>5. CallFits("notifyCancel", l, contract', nro', faults')
    BY <2>1, <2>2, <2>3, <2>4 DEF CallFits, Asking, Claimed, Deleting, Releasing, Released, Cancelling
  <2>6. ASSUME NEW m \in Nros
        PROVE  Units(Gb, Accounted("notifyCancel", l, contract', m)) <= nro'[m].load
    <3>. DEFINE A == Accounted(lc, l, contract, m)
                B == Accounted("notifyCancel", l, contract', m)
    <3>1. A \in SUBSET Contracts /\ Units(Gb, A) <= nro[m].load /\ nro[m].load \in Nat
      BY <1>0, AccountedFinite DEF CoverInv, NroDoc
    <3>2. B \in SUBSET A
      <4>1. "notifyCancel" \notin Claimed
        BY DEF Claimed
      <4>. QED
        BY <2>3, <4>1 DEF Accounted
    <3>3. Units(Gb, B) \in Nat /\ Units(Gb, A) \in Nat /\ Units(Gb, B) <= Units(Gb, A)
      BY <3>1, <3>2, UnitsGrow
    <3>. QED
      BY <2>1, <3>1, <3>3
  <2>7. \A d \in Contracts : contract'[d].status # "FAILED"
    BY <1>0, <2>3
  <2>. QED
    BY <1>0, <2>1, <2>5, <2>6, <2>7, CoverMoves
<1>. QED
  BY <1>1, <1>2, <1>3

\* The other steps of the caller.
LEMMA CoverRest ==
  ASSUME OneCaller, TypeInv, CoverInv,
         \/ \E c \in Contracts : PostContract(Caller, c) \/ DeleteContract(Caller, c)
         \/ RestSteps(Caller) \/ WriteRefused(Caller)
  PROVE  CoverInv'
<1>. DEFINE lc == pc[Caller]
            l == loc[Caller]
<1>0. /\ CallFits(lc, l, contract, nro, faults) /\ l \in Locals /\ l.c \in Contracts
      /\ contract \in [Contracts -> ContractRow] /\ nro \in [Nros -> NroDoc]
      /\ \A d \in Contracts : contract[d].status # "FAILED"
  BY TheCaller DEF CoverInv, TypeInv, Handlers, Locals, Collections
<1>1. ASSUME NEW c \in Contracts, PostContract(Caller, c) \/ DeleteContract(Caller, c)
      PROVE  CoverInv'
  <2>. DEFINE m == [Blank EXCEPT !.c = c]
  <2>1. PICK to \in {"readFdt", "findById"} :
          /\ lc = "idle" /\ pc' = [pc EXCEPT ![Caller] = to]
          /\ to = "findById" => "delete" \in RestOps
          /\ loc' = [loc EXCEPT ![Caller] = m] /\ UNCHANGED <<nro, contract, jobs, faults>>
    BY <1>1 DEF PostContract, DeleteContract, Call, Go, Hold, db, redis
  <2>2. ~GaveBack(lc, l) /\ to \notin Claimed /\ ~GaveBack(to, m)
    BY <2>1 DEF GaveBack, Released, Cancelling, Claimed
  <2>3. CallFits(to, m, contract, nro', faults')
    BY <2>1, <2>2 DEF CallFits, Asking, Claimed, Deleting, Releasing, Released, Cancelling
  <2>. QED
    BY <2>1, <2>2, <2>3, CoverQuiet
<1>2. CASE ResolveParents(Caller)
  <2>1. CASE lc = "readFdt" /\ Finish(Caller) /\ UNCHANGED <<db, redis, history, calls, faults>>
    BY <2>1, CoverEnds DEF GaveBack, Released, Cancelling, db, redis
  <2>2. ASSUME NEW f \in Fdts, Go(Caller, "readFdt", "readClaim"),
               Hold(Caller, [l EXCEPT !.f = f, !.n = fdt[f].nro]),
               UNCHANGED <<db, redis, history, calls, faults>>
        PROVE  CoverInv'
    <3>. DEFINE m == [l EXCEPT !.f = f, !.n = fdt[f].nro]
    <3>1. lc = "readFdt" /\ pc' = [pc EXCEPT ![Caller] = "readClaim"]
          /\ loc' = [loc EXCEPT ![Caller] = m] /\ UNCHANGED <<nro, contract, jobs, faults>>
      BY <2>2 DEF Go, Hold, db, redis
    <3>2. ~GaveBack(lc, l) /\ "readClaim" \notin Claimed /\ ~GaveBack("readClaim", m)
      BY <3>1 DEF GaveBack, Released, Cancelling, Claimed
    <3>3. CallFits("readClaim", m, contract, nro', faults')
      BY <3>2 DEF CallFits, Asking, Claimed, Deleting, Releasing, Released, Cancelling
    <3>. QED
      BY <3>1, <3>2, <3>3, CoverQuiet
  <2>. QED
    BY <1>2, <2>1, <2>2 DEF ResolveParents
<1>3. CASE InsertRow(Caller)
  <2>. DEFINE c == l.c
              row == contract'[c]
  <2>1. /\ lc = "insertRow" /\ pc' = [pc EXCEPT ![Caller] = "idle"]
        /\ loc' = [loc EXCEPT ![Caller] = Blank] /\ UNCHANGED <<nro, jobs, faults>>
        /\ ~Exists(c) /\ PutRow(c, "ACTIVE", l.n, l.f)
    BY <1>3 DEF InsertRow, Finish, redis
  <2>2. /\ \A d \in Contracts \ {c} : contract'[d] = contract[d]
        /\ contract'[c].status = "ACTIVE" /\ contract'[c].nro = l.n
    BY <1>0, <2>1 DEF PutRow
  <2>3. CallFits("idle", Blank, contract', nro', faults')
    BY DEF CallFits, GaveBack, Asking, Claimed, Deleting, Releasing, Released, Cancelling
  <2>4. ~GaveBack(lc, l) /\ lc \in Claimed /\ "idle" \notin Claimed
    BY <2>1 DEF GaveBack, Released, Cancelling, Claimed
  <2>5. ASSUME NEW m \in Nros
        PROVE  Units(Gb, Accounted("idle", Blank, contract', m)) <= nro'[m].load
    <3>. DEFINE A == Accounted(lc, l, contract, m)
                B == Accounted("idle", Blank, contract', m)
    <3>1. A \in SUBSET Contracts /\ Units(Gb, A) <= nro[m].load /\ nro[m].load \in Nat
      BY <1>0, AccountedFinite DEF CoverInv, NroDoc
    <3>2. B \in SUBSET A
      BY <2>2, <2>4 DEF Accounted
    <3>3. Units(Gb, B) \in Nat /\ Units(Gb, A) \in Nat /\ Units(Gb, B) <= Units(Gb, A)
      BY <3>1, <3>2, UnitsGrow
    <3>. QED
      BY <2>1, <3>1, <3>3
  <2>6. \A d \in Contracts : contract'[d].status # "FAILED"
    BY <1>0, <2>2
  <2>. QED
    BY <2>1, <2>3, <2>5, <2>6, CoverMoves
<1>4. CASE FindById(Caller)
  <2>1. CASE Exists(l.c)
    <3>. DEFINE m == [l EXCEPT !.target = contract[l.c].oid]
    <3>1. lc = "findById" /\ pc' = [pc EXCEPT ![Caller] = "findContract"]
          /\ loc' = [loc EXCEPT ![Caller] = m] /\ UNCHANGED <<nro, contract, jobs, faults>>
      BY <1>4, <2>1 DEF FindById, Go, Hold, db, redis
    <3>2. m.c = l.c /\ m.target = contract[l.c].oid /\ contract[l.c].status # "NONE"
      BY <1>0, <2>1 DEF Locals, Exists
    <3>3. ~GaveBack(lc, l) /\ "findContract" \notin Claimed /\ ~GaveBack("findContract", m)
      BY <3>1 DEF GaveBack, Released, Cancelling, Claimed
    <3>4. CallFits("findContract", m, contract, nro', faults')
      BY <1>0, <3>1, <3>2, <3>3 DEF CallFits, Asking, Claimed, Deleting, Releasing, Released,
         Cancelling
    <3>. QED
      BY <3>1, <3>3, <3>4, CoverQuiet
  <2>2. CASE ~Exists(l.c)
    <3>1. lc = "findById" /\ Finish(Caller) /\ UNCHANGED <<nro, contract, jobs>>
      BY <1>4, <2>2 DEF FindById, db, redis
    <3>2. ~GaveBack(lc, l)
      BY <3>1 DEF GaveBack, Released, Cancelling
    <3>. QED
      BY <3>1, <3>2, CoverEnds
  <2>. QED
    BY <2>1, <2>2
<1>5. CASE Erase(Caller)
  <2>. DEFINE c == l.c
  <2>1. /\ lc = "erase" /\ pc' = [pc EXCEPT ![Caller] = "idle"]
        /\ loc' = [loc EXCEPT ![Caller] = Blank] /\ UNCHANGED <<nro, jobs, faults>>
        /\ contract' = IF contract[c].oid = l.target THEN [contract EXCEPT ![c] = NoContract]
                       ELSE contract
    BY <1>5 DEF Erase, Finish, redis
  <2>2. /\ \A d \in Contracts \ {c} : contract'[d] = contract[d]
        /\ contract'[c] = contract[c] \/ contract'[c].status = "NONE"
        /\ GaveBack(lc, l) => contract'[c].status = "NONE"
    BY <1>0, <2>1 DEF CallFits, NoContract
  <2>3. CallFits("idle", Blank, contract', nro', faults')
    BY DEF CallFits, GaveBack, Asking, Claimed, Deleting, Releasing, Released, Cancelling
  <2>4. ASSUME NEW m \in Nros
        PROVE  Units(Gb, Accounted("idle", Blank, contract', m)) <= nro'[m].load
    <3>. DEFINE A == Accounted(lc, l, contract, m)
                B == Accounted("idle", Blank, contract', m)
    <3>1. A \in SUBSET Contracts /\ Units(Gb, A) <= nro[m].load /\ nro[m].load \in Nat
      BY <1>0, AccountedFinite DEF CoverInv, NroDoc
    <3>2. B \in SUBSET A
      <4>1. "idle" \notin Claimed
        BY DEF Claimed
      <4>. QED
        BY <2>2, <4>1 DEF Accounted
    <3>3. Units(Gb, B) \in Nat /\ Units(Gb, A) \in Nat /\ Units(Gb, B) <= Units(Gb, A)
      BY <3>1, <3>2, UnitsGrow
    <3>. QED
      BY <2>1, <3>1, <3>3
  <2>5. \A d \in Contracts : contract'[d].status # "FAILED"
    BY <1>0, <2>2
  <2>. QED
    BY <2>1, <2>3, <2>4, <2>5, CoverMoves
<1>6. CASE WriteRefused(Caller)
  <2>1. Finish(Caller) /\ UNCHANGED <<nro, contract, jobs, faults>> /\ Refused(Caller)
    BY <1>6, TheCaller DEF WriteRefused, Throw, db
  <2>2. lc \in Releasing \cup Released => Same(l)
    BY <1>0 DEF CallFits, Same, Exists
  <2>3. lc \notin {"plainSave", "commitRelease", "saveRow"} \/ Same(l)
    BY <2>2 DEF Releasing, Released
  <2>4. lc \in {"refuse", "insertRow", "commitClaim", "upsertRow"}
    BY <2>1, <2>3 DEF Refused
  <2>5. ~GaveBack(lc, l)
    BY <2>4 DEF GaveBack, Released, Cancelling
  <2>. QED
    BY <2>1, <2>5, CoverEnds
<1>. QED
  BY <1>1, <1>2, <1>3, <1>4, <1>5, <1>6 DEF RestSteps

\* An edit of an NRO moves no load.
LEMMA CoverEdit ==
  ASSUME OneCaller, TypeInv, CoverInv, EditSteps(Caller)
  PROVE  CoverInv'
<1>1. /\ UNCHANGED <<contract, jobs, faults>> /\ \A n \in Nros : nro'[n].load = nro[n].load
      /\ pc[Caller] \in {"idle", "saveEdit"} /\ pc'[Caller] \in {"idle", "saveEdit"}
      /\ pc' = [pc EXCEPT ![Caller] = pc'[Caller]]
      /\ loc' = [loc EXCEPT ![Caller] = loc'[Caller]]
  BY TheCaller, EditStep DEF redis
<1>2. ~GaveBack(pc[Caller], loc[Caller]) /\ pc'[Caller] \notin Claimed
  BY <1>1 DEF GaveBack, Released, Cancelling, Claimed
<1>3. CallFits(pc'[Caller], loc'[Caller], contract, nro', faults')
  BY <1>1 DEF CallFits, GaveBack, Asking, Claimed, Deleting, Releasing, Released, Cancelling
<1>. DEFINE lab == pc'[Caller]
            l == loc'[Caller]
<1>4. /\ pc' = [pc EXCEPT ![Caller] = lab] /\ loc' = [loc EXCEPT ![Caller] = l]
      /\ CallFits(lab, l, contract, nro', faults') /\ lab \notin Claimed
  BY <1>1, <1>2, <1>3
<1>. HIDE DEF lab, l
<1>. QED
  BY <1>1, <1>2, <1>4, CoverQuiet

\* The worker handles events about NROs, which move no load.
LEMMA CoverWorker ==
  ASSUME OneCaller, TypeInv, CoverInv, WorkerStep
  PROVE  CoverInv'
<1>. DEFINE lw == pc[Worker]
            l == loc[Worker]
<1>0. /\ Worker \in Procs /\ Caller \in Procs /\ Caller # Worker
      /\ lw \in AdminLabel /\ l \in Locals /\ pc \in [Procs -> Label] /\ loc \in [Procs -> Locals]
      /\ lw \in NroLabel => l.n \in Nros
      /\ nro \in [Nros -> NroDoc] /\ jobs \in Seq(Job) /\ wait \in Seq(1..Len(jobs))
      /\ \A id \in DOMAIN jobs : jobs[id].ev \in Events /\ jobs[id] \in Job
  BY TheCaller DEF CoverInv, TypeInv, Handlers, Collections, Queue
<1>1. /\ ~NewSteps(Worker) /\ ~ClaimSteps(Worker) /\ ~CancelSteps(Worker)
      /\ ~WriteRefused(Worker) /\ ~AbortCommit(Worker)
  <2>1. lw \notin {"findExisting", "resolveNro", "refuse", "commitClaim", "upsertFdt", "upsertRow",
                   "readLink", "saveLink", "countLink", "notifyNew", "readClaim", "saveClaim",
                   "readPorts", "savePorts", "findContract", "plainSave", "commitRelease",
                   "readRelease", "saveRelease", "readPortsBack", "savePortsBack", "readLinkBack",
                   "saveLinkBack", "saveRow", "notifyCancel", "insertRow"}
    BY <1>0 DEF AdminLabel
  <2>2. ~NewSteps(Worker)
    BY <2>1 DEF NewSteps, FindExisting, ResolveNro, Refuse, CommitClaim, UpsertFdt, UpsertRow,
       ReadLink, SaveLink, CountLink, NotifyNew, ReadFdtDoc, SaveFdt, Go
  <2>3. ~ClaimSteps(Worker)
    BY <2>1 DEF ClaimSteps, ReadClaim, SaveClaim, ReadPorts, SavePorts, ReadNro, SaveNro,
       ReadFdtDoc, SaveFdt, Go
  <2>4. ~CancelSteps(Worker)
    BY <2>1 DEF CancelSteps, FindContract, PlainSave, CommitRelease, ReadRelease, SaveRelease,
       ReadPortsBack, SavePortsBack, ReadLinkBack, SaveLinkBack, SaveRow, NotifyCancel, ReadNro,
       SaveNro, ReadFdtDoc, SaveFdt, Go
  <2>5. ~WriteRefused(Worker) /\ ~AbortCommit(Worker)
    BY <2>1 DEF WriteRefused, Refused, AbortCommit
  <2>. QED
    BY <2>2, <2>3, <2>4, <2>5
<1>2. CASE TakeJob
  <2>. DEFINE id == Head(wait)
              ev == jobs[id].ev
  <2>1. id \in DOMAIN jobs
    BY <1>0, <1>2 DEF TakeJob
  <2>2. /\ pc' = [pc EXCEPT ![Worker] = Entry(ev.type)]
        /\ loc' = [loc EXCEPT ![Worker] =
                     [Blank EXCEPT !.job = id, !.c = ev.c, !.n = ev.n, !.max = ev.max]]
        /\ jobs' = [jobs EXCEPT ![id] = [jobs[id] EXCEPT !.state = "active"]]
        /\ UNCHANGED <<nro, contract, faults>>
    BY <1>2 DEF TakeJob, Go, Hold, db
  <2>3. ev.type \in {"nro.new", "nro.update", "nro.delete"}
    BY <1>0, <2>1 DEF OneCaller
  <2>4. Entry(ev.type) \in AdminLabel
    BY <2>3 DEF Entry, AdminLabel
  <2>5. pc'[Worker] \in AdminLabel /\ pc'[Caller] = pc[Caller] /\ loc'[Caller] = loc[Caller]
    BY <1>0, <2>2, <2>4
  <2>6. \A i \in DOMAIN jobs' : jobs'[i].ev \in Events
    BY <1>0, <2>1, <2>2 DEF Job
  <2>. QED
    BY <2>2, <2>5, <2>6, CoverAside
<1>3. CASE Broadcast
  BY <1>0, <1>3, CoverAside DEF Broadcast, Go, AdminLabel, db, redis
<1>4. CASE Complete
  <2>1. /\ pc' = [pc EXCEPT ![Worker] = "idle"] /\ loc' = [loc EXCEPT ![Worker] = Blank]
        /\ jobs' = [jobs EXCEPT ![l.job] = [@ EXCEPT !.state = "completed"]]
        /\ UNCHANGED <<nro, contract, faults>>
    BY <1>4 DEF Complete, Finish, db
  <2>2. \A i \in DOMAIN jobs' : jobs'[i].ev \in Events
    BY <1>0, <2>1 DEF Job
  <2>3. pc'[Worker] \in AdminLabel /\ pc'[Caller] = pc[Caller] /\ loc'[Caller] = loc[Caller]
    BY <1>0, <2>1 DEF AdminLabel
  <2>. QED
    BY <2>1, <2>2, <2>3, CoverAside
<1>5. CASE NroSteps(Worker)
  <2>1. PICK to \in {"broadcast", "saveUpdate", "saveDelete"} :
          pc' = [pc EXCEPT ![Worker] = to] /\ UNCHANGED <<contract, jobs, faults>>
    BY <1>5 DEF NroSteps, UpsertNro, ReadUpdate, SaveUpdate, ReadDelete, SaveDelete, ReadNro, SaveNro,
       Go, db, redis
  <2>2. loc'[Caller] = loc[Caller]
    BY <1>0, <1>5 DEF NroSteps, UpsertNro, ReadUpdate, SaveUpdate, ReadDelete, SaveDelete, ReadNro,
       SaveNro, Hold
  <2>3. \A n \in Nros : nro'[n].load = nro[n].load
    <3>1. lw \in NroLabel /\ l.n \in Nros /\ nro[l.n] \in NroDoc /\ l.doc \in NroDoc
      <4>1. lw \in {"upsertNro", "readUpdate", "saveUpdate", "readDelete", "saveDelete"}
        BY <1>5 DEF NroSteps, UpsertNro, ReadUpdate, SaveUpdate, ReadDelete, SaveDelete, ReadNro,
           SaveNro, Go
      <4>2. lw \in NroLabel
        BY <4>1 DEF NroLabel
      <4>. QED
        BY <1>0, <4>2 DEF Locals
    <3>2. CASE nro' = nro
      BY <3>2
    <3>3. CASE UpsertNro(Worker)
      <4>1. nro' = [nro EXCEPT ![l.n] = NewNro(nro[l.n], l.max)]
        BY <3>3 DEF UpsertNro
      <4>2. NewNro(nro[l.n], l.max).load = nro[l.n].load
        BY <3>1 DEF NewNro, NroDoc
      <4>. QED
        BY <1>0, <3>1, <4>1, <4>2
    <3>4. ASSUME NEW new, new.load = l.doc.load,
                 nro' = [nro EXCEPT ![l.n] = SaveModified(@, l.doc, new)]
          PROVE  \A n \in Nros : nro'[n].load = nro[n].load
      <4>1. DOMAIN nro[l.n] = {"load", "max", "status", "fdts"}
        BY <3>1 DEF NroDoc
      <4>2. SaveModified(nro[l.n], l.doc, new).load = nro[l.n].load
        BY <3>4, <4>1 DEF SaveModified
      <4>. QED
        BY <1>0, <3>1, <3>4, <4>2
    <3>5. CASE SaveUpdate(Worker)
      <4>1. UpdateNro(l.doc, l.max).load = l.doc.load
        BY <3>1 DEF UpdateNro, NroDoc
      <4>. QED
        BY <3>4, <3>5, <4>1 DEF SaveUpdate, SaveNro
    <3>6. CASE SaveDelete(Worker)
      <4>1. [l.doc EXCEPT !.status = "DELETED"].load = l.doc.load
        BY <3>1 DEF NroDoc
      <4>. QED
        BY <3>4, <3>6, <4>1 DEF SaveDelete, SaveNro
    <3>7. ReadUpdate(Worker) \/ ReadDelete(Worker) => nro' = nro
      BY DEF ReadUpdate, ReadDelete, ReadNro, db
    <3>. QED
      BY <1>5, <3>2, <3>3, <3>5, <3>6, <3>7 DEF NroSteps
  <2>4. pc'[Worker] \in AdminLabel /\ pc'[Caller] = pc[Caller]
    BY <1>0, <2>1 DEF AdminLabel
  <2>5. \A i \in DOMAIN jobs' : jobs'[i].ev \in Events
    BY <1>0, <2>1
  <2>. QED
    BY <2>1, <2>2, <2>3, <2>4, <2>5, CoverAside
<1>. QED
  BY <1>1, <1>2, <1>3, <1>4, <1>5 DEF WorkerStep

\* A failure comes before the release is begun, or after everything the bound allows.
LEMMA CoverFailure ==
  ASSUME OneCaller, TypeInv, CoverInv, Failure
  PROVE  CoverInv'
<1>. DEFINE lc == pc[Caller]
            l == loc[Caller]
<1>0. /\ Procs = {Worker, Caller} /\ Worker \in Procs /\ Caller \in Procs /\ Caller # Worker
      /\ CallFits(lc, l, contract, nro, faults) /\ l \in Locals
      /\ pc \in [Procs -> Label] /\ loc \in [Procs -> Locals]
      /\ nro \in [Nros -> NroDoc] /\ pc[Worker] \in AdminLabel
      /\ \A id \in DOMAIN jobs : jobs[id].ev \in Events /\ jobs[id] \in Job
      /\ faults \in 0..MaxFaults /\ MaxFaults \in Nat
  BY TheCaller, PipelineAssumption DEF CoverInv, TypeInv, Handlers, Tallies, Queue, Collections
<1>1. faults < MaxFaults => ~GaveBack(lc, l) /\ (lc = "commitRelease" => l.dirty)
  BY <1>0 DEF CallFits
<1>2. CASE Crash
  <2>1. /\ faults < MaxFaults /\ pc' = [p \in Procs |-> "idle"] /\ loc' = [p \in Procs |-> Blank]
        /\ UNCHANGED <<nro, contract, jobs>>
    BY <1>2 DEF Crash, db, redis
  <2>2. pc'[Worker] = "idle" /\ pc'[Caller] = "idle" /\ loc'[Caller] = Blank
    BY <1>0, <2>1
  <2>3. CallFits(pc[Caller], loc[Caller], contract, nro, faults)'
    BY <2>2 DEF CallFits, GaveBack, Asking, Claimed, Deleting, Releasing, Released, Cancelling
  <2>4. ASSUME NEW n \in Nros
        PROVE  (Units(Gb, Accounted(pc[Caller], loc[Caller], contract, n)))' <= nro'[n].load
    <3>. DEFINE A == Accounted(lc, l, contract, n)
                B == Accounted(pc[Caller], loc[Caller], contract, n)'
    <3>1. A \in SUBSET Contracts /\ Units(Gb, A) <= nro[n].load /\ nro[n].load \in Nat
      BY <1>0, AccountedFinite DEF CoverInv, NroDoc
    <3>2. B \in SUBSET A
      BY <1>1, <2>1, <2>2 DEF Accounted, Claimed
    <3>3. Units(Gb, B) \in Nat /\ Units(Gb, A) \in Nat /\ Units(Gb, B) <= Units(Gb, A)
      BY <3>1, <3>2, UnitsGrow
    <3>4. (Units(Gb, Accounted(pc[Caller], loc[Caller], contract, n)))' = Units(Gb, B)
      BY DEF Units, UnitsOf
    <3>. QED
      BY <2>1, <3>1, <3>3, <3>4
  <2>. QED
    BY <1>0, <2>1, <2>2, <2>3, <2>4 DEF CoverInv, AdminLabel
<1>3. CASE CallFails(Caller)
  <2>1. lc \notin {"readLink", "saveLink", "countLink"}
    BY <1>0 DEF CallFits, Asking, Claimed, Deleting, Releasing, Released, Cancelling
  <2>2. faults < MaxFaults /\ Finish(Caller) /\ UNCHANGED <<nro, contract, jobs>>
    BY <1>0, <1>3, <2>1 DEF CallFails, Throw, db
  <2>. QED
    BY <1>1, <2>2, CoverEnds
<1>4. CASE CallFails(Worker)
  <2>1. pc[Worker] \notin {"readLink", "saveLink", "countLink"}
    BY <1>0 DEF AdminLabel
  <2>2. /\ faults < MaxFaults /\ UNCHANGED <<nro, contract>>
        /\ pc' = [pc EXCEPT ![Worker] = "idle"] /\ loc' = [loc EXCEPT ![Worker] = Blank]
    BY <1>4, <2>1 DEF CallFails, Throw, Finish, db
  <2>3. PICK made, state :
          jobs' = [jobs EXCEPT ![loc[Worker].job] = [@ EXCEPT !.made = made, !.state = state]]
    BY <1>4, <2>1 DEF CallFails, Throw
  <2>4. \A i \in DOMAIN jobs' : jobs'[i].ev \in Events
    BY <1>0, <2>3 DEF Job
  <2>5. pc'[Worker] \in AdminLabel /\ pc'[Caller] = pc[Caller] /\ loc'[Caller] = loc[Caller]
    BY <1>0, <2>2 DEF AdminLabel
  <2>. QED
    BY <2>2, <2>4, <2>5, CoverAside
<1>5. CASE AbortCommit(Caller)
  <2>. DEFINE m == [l EXCEPT !.dirty = FALSE]
  <2>1. /\ lc = "commitRelease" /\ faults < MaxFaults /\ faults' = faults + 1
        /\ loc' = [loc EXCEPT ![Caller] = m] /\ UNCHANGED <<pc, nro, contract, jobs>>
    BY <1>5 DEF AbortCommit, Hold, db, redis
  <2>2. /\ m.c = l.c /\ m.row = l.row /\ m.n = l.n /\ m.target = l.target
    BY <1>0 DEF Locals
  <2>3. faults' = MaxFaults
    <3>1. "delete" \in RestOps
      BY <1>0, <2>1 DEF CallFits, Deleting, Releasing
    <3>2. MaxFaults = 0 \/ MaxFaults = 1
      BY <3>1 DEF OneCaller
    <3>. QED
      BY <1>0, <2>1, <3>2
  <2>4. ~GaveBack(lc, l) /\ lc \notin Claimed /\ ~GaveBack(lc, m)
    BY <2>1 DEF GaveBack, Released, Cancelling, Claimed
  <2>5. CallFits(lc, m, contract, nro', faults')
    BY <1>0, <2>1, <2>2, <2>3, <2>4 DEF CallFits, Asking, Claimed, Deleting, Releasing, Released,
       Cancelling
  <2>6. pc' = [pc EXCEPT ![Caller] = lc]
    BY <1>0, <2>1
  <2>. QED
    BY <2>1, <2>4, <2>5, <2>6, CoverQuiet
<1>6. ~AbortCommit(Worker)
  BY <1>0 DEF AbortCommit, AdminLabel
<1>. QED
  BY <1>0, <1>2, <1>3, <1>4, <1>5, <1>6 DEF Failure

LEMMA CoverNext ==
  ASSUME OneCaller, TypeInv, CoverInv, [Next]_vars
  PROVE  CoverInv'
<1>0. /\ Requests = {Caller} /\ pc[Worker] \in AdminLabel /\ jobs \in Seq(Job)
      /\ \A id \in DOMAIN jobs : jobs[id].ev \in Events /\ jobs[id] \in Job
  BY TheCaller DEF CoverInv, TypeInv, Queue
<1>1. CASE WorkerStep
  BY <1>1, CoverWorker
<1>2. CASE RequestStep(Caller)
  <2>1. CASE CancelSteps(Caller)
    BY <2>1, CoverReads, CoverRelease DEF CancelSteps
  <2>. QED
    BY <1>2, <2>1, CoverRest, CoverClaim, CoverEdit DEF RequestStep
<1>3. ASSUME UNCHANGED <<nro, contract, pc, loc, faults>>,
             \A id \in DOMAIN jobs' : jobs'[id].ev \in Events
      PROVE  CoverInv'
  BY <1>0, <1>3, CoverAside
<1>4. ASSUME NEW ev \in Events, Enqueue(ev)
      PROVE  CoverInv'
  <2>. DEFINE job == [ev |-> ev, state |-> "wait", made |-> 0, stalls |-> 0]
  <2>1. jobs' = Append(jobs, job) /\ UNCHANGED <<nro, contract, pc, loc, faults>>
    BY <1>4 DEF Enqueue, db
  <2>2. \A id \in DOMAIN jobs' : (id \in DOMAIN jobs /\ jobs'[id] = jobs[id]) \/ jobs'[id] = job
    BY <1>0, <2>1
  <2>. QED
    BY <1>0, <1>3, <2>1, <2>2
<1>5. ASSUME NEW id \in DOMAIN jobs, Promote(id) \/ Recover(id)
      PROVE  CoverInv'
  <2>1. UNCHANGED <<nro, contract, pc, loc, faults>>
    BY <1>5 DEF Promote, Recover, db
  <2>2. PICK job : jobs' = [jobs EXCEPT ![id] = job] /\ job.ev = jobs[id].ev
    BY <1>0, <1>5 DEF Promote, Recover, Job
  <2>. QED
    BY <1>0, <1>3, <2>1, <2>2
<1>6. CASE Failure
  BY <1>6, CoverFailure
<1>7. CASE UNCHANGED vars
  BY <1>0, <1>3, <1>7 DEF vars
<1>. QED
  BY <1>0, <1>1, <1>2, <1>4, <1>5, <1>6, <1>7 DEF Next, AllDone

LEMMA CoverInit ==
  ASSUME OneCaller, Init
  PROVE  CoverInv
<1>1. /\ pc[Worker] = "idle" /\ pc[Caller] = "idle" /\ loc[Caller] = Blank
      /\ jobs = <<>> /\ contract = [c \in Contracts |-> NoContract]
      /\ \A n \in Nros : nro[n].load = 0
  BY TheCaller DEF Init
<1>2. CallFits(pc[Caller], loc[Caller], contract, nro, faults)
  BY <1>1 DEF CallFits, GaveBack, Asking, Claimed, Deleting, Releasing, Released, Cancelling
<1>3. ASSUME NEW n \in Nros
      PROVE  Units(Gb, Accounted(pc[Caller], loc[Caller], contract, n)) <= nro[n].load
  <2>1. Accounted(pc[Caller], loc[Caller], contract, n) = {}
    BY <1>1 DEF Accounted, NoContract, Claimed
  <2>2. Units(Gb, Accounted(pc[Caller], loc[Caller], contract, n)) = 0
    BY <2>1, UnitsEmpty, Zenon
  <2>3. nro[n].load = 0
    BY <1>1
  <2>. QED
    BY <2>2, <2>3
<1>4. \A c \in Contracts : contract[c].status # "FAILED"
  BY <1>1 DEF NoContract
<1>. QED
  BY <1>1, <1>2, <1>3, <1>4 DEF CoverInv, AdminLabel

\* Once every handler has returned, the load of an NRO covers the ACTIVE contracts on it,
\* with or without transactions, as long as one call at a time writes contracts and none
\* of its releases is cut short: the load is claimed before the row is inserted, and what
\* is given back is either not ACTIVE any more or erased by the same call.
THEOREM NothingUncovered ==
  ASSUME OneCaller
  PROVE  Spec => []CoveredAtRest
<1>1. TypeInv /\ CoverInv /\ [Next]_vars => CoverInv'
  BY CoverNext
<1>2. CoverInv => CoveredAtRest
  <2>. SUFFICES ASSUME CoverInv, AllIdle, NEW n \in Nros
                PROVE  Load[n] >= Units(Gb, Holding(n))
    BY LedgerHolders, LedgerUnits DEF CoveredAtRest
  <2>1. pc[Caller] = "idle"
    BY TheCaller DEF AllIdle
  <2>2. Accounted(pc[Caller], loc[Caller], contract, n) = Holding(n)
    BY <2>1 DEF Accounted, GaveBack, Released, Cancelling, Claimed, Holding, Active
  <2>3. Units(Gb, Holding(n)) <= nro[n].load
    BY <2>2 DEF CoverInv
  <2>. QED
    BY <2>3 DEF Load
<1>3. Init => CoverInv
  BY CoverInit
<1>. QED
  BY <1>1, <1>2, <1>3, TypeInvCorrect, PTL DEF Spec

-----------------------------------------------------------------------------
(* The worker alone, without transactions.                                    *)

\* A standalone server with contracts from events only, of different phones, and no failure.
AloneOnStandalone ==
  /\ ~Transactional /\ RestOps = {} /\ MaxFaults = 0
  /\ \A c, d \in Contracts : Phone[c] = Phone[d] => c = d

\* Where the worker has claimed load for a row that is not written yet, where it has given
\* back the port of a row that is ACTIVE still, and where it is not then.
Granted == {"upsertFdt", "readPorts", "savePorts", "upsertRow"}
Unplugged == {"readLinkBack", "saveLinkBack", "saveRow"}
Elsewhere == {"commitClaim", "commitRelease", "findById", "erase", "readFdt", "insertRow"}

\* What the worker holds at lab agrees with the collections: the numbers it has read are
\* those there are, the row it has found is there, and the one it prepares is not.
WorkFits(lab, l, rows, docs, fdocs) ==
  /\ lab \in Label \ Elsewhere
  /\ lab \in Preparing => rows[l.c].status = "NONE"
  /\ lab \in {"readClaim", "saveClaim"} \cup Granted => l.f = l.c
  /\ lab \in {"saveClaim", "saveRelease"} => l.doc.load = docs[l.n].load
  /\ lab \in {"savePorts", "savePortsBack"} => l.fdoc.ports = fdocs[l.f].ports
  /\ lab \in Releasing \cup Released => rows[l.c] = l.row /\ l.row.status # "NONE"
  /\ lab \in Releasing => l.n = l.row.nro
  /\ lab \in Releasing \cup {"readPortsBack", "savePortsBack"} => l.f = l.row.fdt
  /\ lab = "plainSave" => l.row.nro = NoNro

\* The contracts that n may have load for: the ACTIVE ones on it, but one whose load is
\* given back, and one whose load is claimed.
Charged(lab, l, rows, n) ==
  {c \in Contracts : \/ rows[c].status = "ACTIVE" /\ rows[c].nro = n /\ ~(lab \in Released /\ l.c = c)
                     \/ lab \in Granted /\ l.n = n /\ l.c = c}

\* The FDTs that may have a port in use.
Plugged(lab, l, rows, f) ==
  \/ f \in Contracts /\ rows[f].status = "ACTIVE" /\ ~(lab \in Unplugged /\ l.c = f)
  \/ lab = "upsertRow" /\ l.c = f

RowsLinked(rows) ==
  \A c \in Contracts : rows[c].status = "ACTIVE" => rows[c].nro \in Nros /\ rows[c].fdt = c

SoloInv ==
  /\ \A r \in Requests : pc[r] = "idle"
  /\ WorkFits(pc[Worker], loc[Worker], contract, nro, fdt)
  /\ RowsLinked(contract)
  /\ \A n \in Nros : nro[n].load <= Units(Gb, Charged(pc[Worker], loc[Worker], contract, n))
  /\ \A f \in Fdts :
       fdt[f].ports <= IF Plugged(pc[Worker], loc[Worker], contract, f) THEN 1 ELSE 0

LEMMA ChargedFinite ==
  ASSUME NEW lab, NEW l, NEW rows, NEW n
  PROVE  /\ Charged(lab, l, rows, n) \in SUBSET Contracts
         /\ Units(Gb, Charged(lab, l, rows, n)) \in Nat
<1>1. Charged(lab, l, rows, n) \in SUBSET Contracts
  BY DEF Charged
<1>. QED
  BY <1>1, HoldingFinite

LEMMA TheWorker ==
  ASSUME TypeInv, SoloInv
  PROVE  /\ Worker \in Procs /\ Worker \notin Requests
         /\ pc \in [Procs -> Label] /\ loc \in [Procs -> Locals]
         /\ loc[Worker] \in Locals /\ loc[Worker].c \in Contracts /\ loc[Worker].c \in Fdts
         /\ pc[Worker] \in NroLabel => loc[Worker].n \in Nros
         /\ pc[Worker] \notin Elsewhere
         /\ loc = [loc EXCEPT ![Worker] = loc[Worker]]
         /\ nro \in [Nros -> NroDoc] /\ fdt \in [Fdts -> FdtDoc]
         /\ contract \in [Contracts -> ContractRow]
         /\ Gb[loc[Worker].c] \in Nat
<1>1. Worker \in Procs /\ Worker \notin Requests
  BY PipelineAssumption DEF Procs
<1>. QED
  BY <1>1, PipelineAssumption DEF SoloInv, WorkFits, TypeInv, Handlers, Locals, Collections, Fdts

\* The worker moves on, and what it writes leaves the numbers within bounds.
LEMMA SoloMoves ==
  ASSUME TypeInv, SoloInv, NEW lab, NEW l,
         pc' = [pc EXCEPT ![Worker] = lab], loc' = [loc EXCEPT ![Worker] = l],
         WorkFits(lab, l, contract', nro', fdt'), RowsLinked(contract'),
         \A n \in Nros : nro'[n].load <= Units(Gb, Charged(lab, l, contract', n)),
         \A f \in Fdts : fdt'[f].ports <= IF Plugged(lab, l, contract', f) THEN 1 ELSE 0
  PROVE  SoloInv'
<1>1. pc'[Worker] = lab /\ loc'[Worker] = l /\ \A r \in Requests : pc'[r] = pc[r]
  BY TheWorker DEF Procs
<1>2. WorkFits(pc[Worker], loc[Worker], contract, nro, fdt)'
  BY <1>1 DEF WorkFits
<1>3. \A n \in Nros : nro'[n].load <= (Units(Gb, Charged(pc[Worker], loc[Worker], contract, n)))'
  <2>1. \A n : Charged(pc[Worker], loc[Worker], contract, n)' = Charged(lab, l, contract', n)
    BY <1>1 DEF Charged
  <2>. QED
    BY <2>1 DEF Units, UnitsOf
<1>4. \A f \in Fdts : fdt'[f].ports <= IF Plugged(pc[Worker], loc[Worker], contract, f)' THEN 1 ELSE 0
  BY <1>1 DEF Plugged
<1>5. RowsLinked(contract)'
  BY DEF RowsLinked
<1>. QED
  BY <1>1, <1>2, <1>3, <1>4, <1>5 DEF SoloInv

\* What is accounted for stays so, from the worker's label and documents to lab and l.
Keeps(lab, l) ==
  /\ lab \in Released => pc[Worker] \in Released /\ l.c = loc[Worker].c
  /\ lab \in Unplugged => pc[Worker] \in Unplugged /\ l.c = loc[Worker].c
  /\ pc[Worker] \in Granted =>
       lab \in Granted /\ l.c = loc[Worker].c /\ l.n = loc[Worker].n
  /\ pc[Worker] # "upsertRow"

\* It writes no row, load or port.
LEMMA SoloQuiet ==
  ASSUME TypeInv, SoloInv, NEW lab, NEW l,
         pc' = [pc EXCEPT ![Worker] = lab], loc' = [loc EXCEPT ![Worker] = l],
         UNCHANGED contract,
         \A n \in Nros : nro'[n].load = nro[n].load,
         \A f \in Fdts : fdt'[f].ports = fdt[f].ports,
         WorkFits(lab, l, contract, nro', fdt'), Keeps(lab, l)
  PROVE  SoloInv'
<1>1. ASSUME NEW n \in Nros
      PROVE  nro'[n].load <= Units(Gb, Charged(lab, l, contract', n))
  <2>. DEFINE A == Charged(pc[Worker], loc[Worker], contract, n)
              B == Charged(lab, l, contract, n)
  <2>1. A \in SUBSET B /\ B \in SUBSET Contracts
    BY DEF Charged, Keeps
  <2>2. Units(Gb, B) \in Nat /\ Units(Gb, A) \in Nat /\ Units(Gb, A) <= Units(Gb, B)
    BY <2>1, UnitsGrow
  <2>3. nro[n].load <= Units(Gb, A) /\ nro[n].load \in Nat
    BY DEF SoloInv, TypeInv, Collections, NroDoc
  <2>. QED
    BY <2>2, <2>3
<1>2. ASSUME NEW f \in Fdts
      PROVE  fdt'[f].ports <= IF Plugged(lab, l, contract', f) THEN 1 ELSE 0
  <2>1. Plugged(pc[Worker], loc[Worker], contract, f) => Plugged(lab, l, contract, f)
    BY DEF Plugged, Keeps
  <2>2. fdt[f].ports <= (IF Plugged(pc[Worker], loc[Worker], contract, f) THEN 1 ELSE 0)
        /\ fdt[f].ports \in Nat
    BY DEF SoloInv, TypeInv, Collections, FdtDoc
  <2>. QED
    BY <2>1, <2>2
<1>3. RowsLinked(contract')
  BY DEF SoloInv
<1>. QED
  BY <1>1, <1>2, <1>3, SoloMoves

\* The numbers a save() leaves.
LEMMA NroSaved ==
  ASSUME TypeInv, NEW p, NEW from, NEW new, NEW to, SaveNro(p, from, new, to), NEW n \in Nros
  PROVE  nro'[n].load = IF n = loc[p].n /\ new.load # loc[p].doc.load THEN new.load ELSE nro[n].load
<1>1. nro' = [nro EXCEPT ![loc[p].n] = SaveModified(@, loc[p].doc, new)] /\ nro \in [Nros -> NroDoc]
  BY DEF SaveNro, TypeInv, Collections
<1>2. DOMAIN nro[n] = {"load", "max", "status", "fdts"}
  BY <1>1 DEF NroDoc
<1>3. SaveModified(nro[n], loc[p].doc, new).load
        = IF new.load # loc[p].doc.load THEN new.load ELSE nro[n].load
  BY <1>2 DEF SaveModified
<1>. QED
  BY <1>1, <1>3

LEMMA FdtSaved ==
  ASSUME TypeInv, NEW p, NEW from, NEW new, NEW to, SaveFdt(p, from, new, to), NEW f \in Fdts
  PROVE  fdt'[f].ports = IF f = loc[p].f /\ new.ports # loc[p].fdoc.ports THEN new.ports
                         ELSE fdt[f].ports
<1>1. fdt' = [fdt EXCEPT ![loc[p].f] = SaveModified(@, loc[p].fdoc, new)] /\ fdt \in [Fdts -> FdtDoc]
  BY DEF SaveFdt, TypeInv, Collections
<1>2. DOMAIN fdt[f] = {"exists", "nro", "ports", "active"}
  BY <1>1 DEF FdtDoc
<1>3. SaveModified(fdt[f], loc[p].fdoc, new).ports
        = IF new.ports # loc[p].fdoc.ports THEN new.ports ELSE fdt[f].ports
  BY <1>2 DEF SaveModified
<1>. QED
  BY <1>1, <1>3

\* The steps of contracts.new that write no row, load or port.
LEMMA SoloNew ==
  ASSUME AloneOnStandalone, TypeInv, SoloInv,
         \/ FindExisting(Worker) \/ ResolveNro(Worker) \/ UpsertFdt(Worker) \/ ReadLink(Worker)
         \/ SaveLink(Worker) \/ CountLink(Worker) \/ NotifyNew(Worker)
         \/ ReadClaim(Worker) \/ ReadPorts(Worker)
  PROVE  SoloInv'
<1>. DEFINE lw == pc[Worker]
            l == loc[Worker]
<1>0. WorkFits(lw, l, contract, nro, fdt) /\ contract[l.c] \in ContractRow
  BY TheWorker DEF SoloInv
<1>1. CASE FindExisting(Worker)
  <2>. DEFINE to == IF Exists(l.c) THEN "broadcast" ELSE "resolveNro"
  <2>1. lw = "findExisting" /\ pc' = [pc EXCEPT ![Worker] = to]
        /\ loc' = [loc EXCEPT ![Worker] = l] /\ UNCHANGED <<nro, fdt, contract>>
    BY <1>1, TheWorker DEF FindExisting, Go, db
  <2>2. WorkFits(to, l, contract, nro', fdt') /\ Keeps(to, l)
    BY <2>1 DEF WorkFits, Keeps, Exists, Label, Elsewhere, Preparing, Granted, Releasing, Released,
       Unplugged
  <2>. QED
    BY <2>1, <2>2, SoloQuiet
<1>2. CASE ResolveNro(Worker)
  <2>1. PICK to \in {"refuse", "readClaim"} : \E m :
          /\ lw = "resolveNro" /\ pc' = [pc EXCEPT ![Worker] = to]
          /\ loc' = [loc EXCEPT ![Worker] = m] /\ UNCHANGED <<nro, fdt, contract>>
          /\ m.c = l.c /\ (to = "readClaim" => m.f = l.c)
    <3>. DEFINE active == {n \in Reach[l.c] : nro[n].status = "ACTIVE"}
    <3>1. lw = "resolveNro" /\ UNCHANGED <<nro, fdt, contract>>
      BY <1>2 DEF ResolveNro, Go, db
    <3>2. CASE Go(Worker, "resolveNro", "refuse") /\ Hold(Worker, [l EXCEPT !.n = NoNro])
      <4>1. [l EXCEPT !.n = NoNro].c = l.c
        BY TheWorker DEF Locals
      <4>. QED
        BY <3>1, <3>2, <4>1 DEF Go, Hold
    <3>3. ASSUME NEW n \in active,
                 Go(Worker, "resolveNro", IF ~HasCapacityFor(nro[n], Gb[l.c]) THEN "refuse"
                                          ELSE IF Transactional THEN "commitClaim" ELSE "readClaim"),
                 Hold(Worker, [l EXCEPT !.n = n, !.f = l.c, !.doc = nro[n]])
          PROVE  \E to \in {"refuse", "readClaim"} : \E m :
                   /\ lw = "resolveNro" /\ pc' = [pc EXCEPT ![Worker] = to]
                   /\ loc' = [loc EXCEPT ![Worker] = m] /\ UNCHANGED <<nro, fdt, contract>>
                   /\ m.c = l.c /\ (to = "readClaim" => m.f = l.c)
      <4>. DEFINE m == [l EXCEPT !.n = n, !.f = l.c, !.doc = nro[n]]
      <4>1. m.c = l.c /\ m.f = l.c
        BY TheWorker DEF Locals
      <4>2. \E to \in {"refuse", "readClaim"} : pc' = [pc EXCEPT ![Worker] = to]
        BY <3>3 DEF Go, AloneOnStandalone
      <4>3. loc' = [loc EXCEPT ![Worker] = m]
        BY <3>3 DEF Hold
      <4>. HIDE DEF m
      <4>. QED
        BY <3>1, <4>1, <4>2, <4>3
    <3>. QED
      BY <1>2, <3>2, <3>3 DEF ResolveNro
  <2>2. PICK m :
          /\ pc' = [pc EXCEPT ![Worker] = to] /\ loc' = [loc EXCEPT ![Worker] = m]
          /\ m.c = l.c /\ (to = "readClaim" => m.f = l.c)
    BY <2>1
  <2>3. WorkFits(to, m, contract, nro', fdt') /\ Keeps(to, m)
    BY <1>0, <2>1, <2>2 DEF WorkFits, Keeps, Label, Elsewhere, Preparing, Granted, Releasing,
       Released, Unplugged
  <2>. QED
    BY <2>1, <2>2, <2>3, SoloQuiet
<1>3. CASE UpsertFdt(Worker)
  <2>1. lw = "upsertFdt" /\ pc' = [pc EXCEPT ![Worker] = "readPorts"]
        /\ loc' = [loc EXCEPT ![Worker] = l] /\ UNCHANGED <<nro, contract>>
        /\ fdt' = [fdt EXCEPT ![l.f] = [@ EXCEPT !.exists = TRUE, !.nro = l.n]]
    BY <1>3, TheWorker DEF UpsertFdt, Go
  <2>2. \A f \in Fdts : fdt'[f].ports = fdt[f].ports
    BY <2>1, TheWorker DEF FdtDoc
  <2>3. WorkFits("readPorts", l, contract, nro', fdt') /\ Keeps("readPorts", l)
    BY <1>0, <2>1 DEF WorkFits, Keeps, Label, Elsewhere, Preparing, Granted, Releasing, Released,
       Unplugged
  <2>. QED
    BY <2>1, <2>2, <2>3, SoloQuiet
<1>4. CASE ReadClaim(Worker)
  <2>. DEFINE m == [l EXCEPT !.doc = nro[l.n]]
  <2>1. lw = "readClaim" /\ pc' = [pc EXCEPT ![Worker] = "saveClaim"]
        /\ loc' = [loc EXCEPT ![Worker] = m] /\ UNCHANGED <<nro, fdt, contract>>
    BY <1>4 DEF ReadClaim, ReadNro, Go, Hold, db
  <2>2. m.c = l.c /\ m.f = l.f /\ m.n = l.n /\ m.doc = nro[l.n]
    BY TheWorker DEF Locals
  <2>3. WorkFits("saveClaim", m, contract, nro', fdt') /\ Keeps("saveClaim", m)
    <3>. HIDE DEF m
    <3>. QED
      BY <1>0, <2>1, <2>2 DEF WorkFits, Keeps, Label, Elsewhere, Preparing, Granted, Releasing,
         Released, Unplugged
  <2>. QED
    BY <2>1, <2>3, SoloQuiet
<1>5. CASE ReadPorts(Worker)
  <2>. DEFINE m == [l EXCEPT !.fdoc = fdt[l.f]]
  <2>1. lw = "readPorts" /\ pc' = [pc EXCEPT ![Worker] = "savePorts"]
        /\ loc' = [loc EXCEPT ![Worker] = m] /\ UNCHANGED <<nro, fdt, contract>>
    BY <1>5 DEF ReadPorts, ReadFdtDoc, Go, Hold, db
  <2>2. m.c = l.c /\ m.f = l.f /\ m.n = l.n /\ m.fdoc = fdt[l.f]
    BY TheWorker DEF Locals
  <2>3. WorkFits("savePorts", m, contract, nro', fdt') /\ Keeps("savePorts", m)
    <3>. HIDE DEF m
    <3>. QED
      BY <1>0, <2>1, <2>2 DEF WorkFits, Keeps, Label, Elsewhere, Preparing, Granted, Releasing,
         Released, Unplugged
  <2>. QED
    BY <2>1, <2>3, SoloQuiet
<1>6. ASSUME ReadLink(Worker) \/ SaveLink(Worker) \/ CountLink(Worker) \/ NotifyNew(Worker)
      PROVE  SoloInv'
  <2>1. /\ lw \in Linking /\ UNCHANGED contract
        /\ \E to, m : /\ to \in Linking \cup {"broadcast"}
                     /\ pc' = [pc EXCEPT ![Worker] = to] /\ loc' = [loc EXCEPT ![Worker] = m]
    BY <1>6, TheWorker DEF ReadLink, SaveLink, CountLink, NotifyNew, ReadFdtDoc, SaveFdt, Go, Hold,
       Linking, db
  <2>2. \A n \in Nros : nro'[n].load = nro[n].load
    BY <1>6, TheWorker DEF ReadLink, SaveLink, CountLink, NotifyNew, ReadFdtDoc, SaveFdt, db, NroDoc
  <2>3. \A f \in Fdts : fdt'[f].ports = fdt[f].ports
    <3>1. CASE SaveLink(Worker)
      <4>. DEFINE new == [l.fdoc EXCEPT !.active = l.fdoc.active + 1]
      <4>1. new.ports = l.fdoc.ports
        BY TheWorker DEF Locals, FdtDoc
      <4>2. SaveFdt(Worker, "saveLink", new, "countLink")
        BY <3>1 DEF SaveLink
      <4>. HIDE DEF new
      <4>3. \A f \in Fdts : fdt'[f].ports = IF f = l.f /\ new.ports # l.fdoc.ports THEN new.ports
                                            ELSE fdt[f].ports
        BY <4>2, FdtSaved
      <4>. QED
        BY <4>1, <4>3
    <3>2. CASE ~SaveLink(Worker)
      BY <1>6, <3>2 DEF ReadLink, CountLink, NotifyNew, ReadFdtDoc, db
    <3>. QED
      BY <3>1, <3>2
  <2>4. PICK to, m : /\ to \in Linking \cup {"broadcast"}
                     /\ pc' = [pc EXCEPT ![Worker] = to] /\ loc' = [loc EXCEPT ![Worker] = m]
    BY <2>1
  <2>5. WorkFits(to, m, contract, nro', fdt') /\ Keeps(to, m)
    BY <2>1, <2>4 DEF WorkFits, Keeps, Linking, Label, Elsewhere, Preparing, Granted, Releasing,
       Released, Unplugged
  <2>. QED
    BY <2>1, <2>2, <2>3, <2>4, <2>5, SoloQuiet
<1>. QED
  BY <1>1, <1>2, <1>3, <1>4, <1>5, <1>6

\* The steps of contracts.cancel that write no row, load or port.
LEMMA SoloCancel ==
  ASSUME AloneOnStandalone, TypeInv, SoloInv,
         \/ FindContract(Worker) \/ ReadRelease(Worker) \/ ReadPortsBack(Worker)
         \/ ReadLinkBack(Worker) \/ SaveLinkBack(Worker) \/ NotifyCancel(Worker)
  PROVE  SoloInv'
<1>. DEFINE lw == pc[Worker]
            l == loc[Worker]
<1>0. WorkFits(lw, l, contract, nro, fdt)
  BY DEF SoloInv
<1>1. CASE FindContract(Worker)
  <2>. DEFINE row == contract[l.c]
              m == [l EXCEPT !.row = row, !.n = row.nro, !.f = row.fdt, !.dirty = TRUE]
  <2>1. PICK to : /\ lw = "findContract" /\ pc' = [pc EXCEPT ![Worker] = to]
                  /\ to = CASE row.status = "NONE" -> "notifyCancel"
                            [] row.status = "CANCELLED" -> "broadcast"
                            [] OTHER -> IF row.nro = NoNro THEN "plainSave" ELSE "readRelease"
    BY <1>1 DEF FindContract, Go, AfterCancel, AloneOnStandalone
  <2>2. loc' = [loc EXCEPT ![Worker] = m] /\ UNCHANGED <<nro, fdt, contract>>
    BY <1>1 DEF FindContract, Hold, db
  <2>3. m.c = l.c /\ m.row = row /\ m.n = row.nro /\ m.f = row.fdt
    BY TheWorker DEF Locals
  <2>4. /\ to \in {"notifyCancel", "broadcast", "plainSave", "readRelease"}
        /\ to \in Releasing => row.status # "NONE"
        /\ to = "plainSave" => row.nro = NoNro
    BY <2>1 DEF Releasing
  <2>5. WorkFits(to, m, contract, nro', fdt') /\ Keeps(to, m)
    <3>. HIDE DEF m
    <3>. QED
      BY <2>1, <2>3, <2>4 DEF WorkFits, Keeps, Label, Elsewhere, Preparing, Granted, Releasing,
         Released, Unplugged
  <2>. QED
    BY <2>1, <2>2, <2>5, SoloQuiet
<1>2. CASE ReadRelease(Worker)
  <2>. DEFINE m == [l EXCEPT !.doc = nro[l.n]]
  <2>1. lw = "readRelease" /\ pc' = [pc EXCEPT ![Worker] = "saveRelease"]
        /\ loc' = [loc EXCEPT ![Worker] = m] /\ UNCHANGED <<nro, fdt, contract>>
    BY <1>2 DEF ReadRelease, ReadNro, Go, Hold, db
  <2>2. m.c = l.c /\ m.f = l.f /\ m.n = l.n /\ m.row = l.row /\ m.doc = nro[l.n]
    BY TheWorker DEF Locals
  <2>3. WorkFits("saveRelease", m, contract, nro', fdt') /\ Keeps("saveRelease", m)
    <3>. HIDE DEF m
    <3>. QED
      BY <1>0, <2>1, <2>2 DEF WorkFits, Keeps, Label, Elsewhere, Preparing, Granted, Releasing,
         Released, Unplugged
  <2>. QED
    BY <2>1, <2>3, SoloQuiet
<1>3. CASE ReadPortsBack(Worker)
  <2>. DEFINE m == [l EXCEPT !.fdoc = fdt[l.f]]
  <2>1. lw = "readPortsBack" /\ pc' = [pc EXCEPT ![Worker] = "savePortsBack"]
        /\ loc' = [loc EXCEPT ![Worker] = m] /\ UNCHANGED <<nro, fdt, contract>>
    BY <1>3 DEF ReadPortsBack, ReadFdtDoc, Go, Hold, db
  <2>2. m.c = l.c /\ m.f = l.f /\ m.n = l.n /\ m.row = l.row /\ m.fdoc = fdt[l.f]
    BY TheWorker DEF Locals
  <2>3. WorkFits("savePortsBack", m, contract, nro', fdt') /\ Keeps("savePortsBack", m)
    <3>. HIDE DEF m
    <3>. QED
      BY <1>0, <2>1, <2>2 DEF WorkFits, Keeps, Label, Elsewhere, Preparing, Granted, Releasing,
         Released, Unplugged
  <2>. QED
    BY <2>1, <2>3, SoloQuiet
<1>4. CASE ReadLinkBack(Worker)
  <2>. DEFINE row == contract[l.c]
              linked == Same(l) /\ row.fdt # NoFdt
              to == IF linked THEN "saveLinkBack" ELSE "saveRow"
              m == IF linked THEN [l EXCEPT !.f = row.fdt, !.fdoc = fdt[row.fdt]] ELSE l
  <2>1. lw = "readLinkBack" /\ pc' = [pc EXCEPT ![Worker] = to]
        /\ loc' = [loc EXCEPT ![Worker] = m] /\ UNCHANGED <<nro, fdt, contract>>
    BY <1>4 DEF ReadLinkBack, Go, Hold, db
  <2>2. m.c = l.c /\ m.row = l.row
    BY TheWorker DEF Locals
  <2>3. WorkFits(to, m, contract, nro', fdt') /\ Keeps(to, m)
    <3>. HIDE DEF m, linked
    <3>. QED
      BY <1>0, <2>1, <2>2 DEF WorkFits, Keeps, Label, Elsewhere, Preparing, Granted, Releasing,
         Released, Unplugged
  <2>. QED
    BY <2>1, <2>3, SoloQuiet
<1>5. CASE SaveLinkBack(Worker)
  <2>. DEFINE new == [l.fdoc EXCEPT !.active = AtLeastZero(l.fdoc.active - 1)]
  <2>1. SaveFdt(Worker, "saveLinkBack", new, "saveRow")
    BY <1>5 DEF SaveLinkBack
  <2>2. lw = "saveLinkBack" /\ pc' = [pc EXCEPT ![Worker] = "saveRow"]
        /\ loc' = [loc EXCEPT ![Worker] = l] /\ UNCHANGED <<nro, contract>>
    BY <2>1, TheWorker DEF SaveFdt, Go
  <2>3. new.ports = l.fdoc.ports
    BY TheWorker DEF Locals, FdtDoc
  <2>4. \A f \in Fdts : fdt'[f].ports = fdt[f].ports
    <3>. HIDE DEF new
    <3>. QED
      BY <2>1, <2>3, FdtSaved
  <2>5. WorkFits("saveRow", l, contract, nro', fdt') /\ Keeps("saveRow", l)
    BY <1>0, <2>2 DEF WorkFits, Keeps, Label, Elsewhere, Preparing, Granted, Releasing, Released,
       Unplugged
  <2>. QED
    BY <2>2, <2>4, <2>5, SoloQuiet
<1>6. CASE NotifyCancel(Worker)
  <2>1. lw = "notifyCancel" /\ pc' = [pc EXCEPT ![Worker] = "broadcast"]
        /\ loc' = [loc EXCEPT ![Worker] = l] /\ UNCHANGED <<nro, fdt, contract>>
    BY <1>6, TheWorker DEF NotifyCancel, AfterCancel, Go, db
  <2>2. WorkFits("broadcast", l, contract, nro', fdt') /\ Keeps("broadcast", l)
    BY <2>1 DEF WorkFits, Keeps, Label, Elsewhere, Preparing, Granted, Releasing, Released, Unplugged
  <2>. QED
    BY <2>1, <2>2, SoloQuiet
<1>. QED
  BY <1>1, <1>2, <1>3, <1>4, <1>5, <1>6

\* The worker's other steps: the events about NROs, which move no load, and the queue.
LEMMA SoloAdmin ==
  ASSUME AloneOnStandalone, TypeInv, SoloInv,
         TakeJob \/ Broadcast \/ Complete \/ NroSteps(Worker)
  PROVE  SoloInv'
<1>. DEFINE lw == pc[Worker]
            l == loc[Worker]
<1>1. ASSUME NEW to \in AdminLabel \cup {"findExisting", "findContract"}, NEW m,
             pc' = [pc EXCEPT ![Worker] = to], loc' = [loc EXCEPT ![Worker] = m],
             lw \in AdminLabel, UNCHANGED <<fdt, contract>>,
             \A n \in Nros : nro'[n].load = nro[n].load
      PROVE  SoloInv'
  <2>1. WorkFits(to, m, contract, nro', fdt') /\ Keeps(to, m)
    BY <1>1 DEF WorkFits, Keeps, AdminLabel, Label, Elsewhere, Preparing, Granted, Releasing,
       Released, Unplugged
  <2>. QED
    BY <1>1, <2>1, SoloQuiet
<1>2. CASE TakeJob
  <2>1. PICK to, m : /\ pc' = [pc EXCEPT ![Worker] = to] /\ loc' = [loc EXCEPT ![Worker] = m]
                     /\ to = Entry(jobs[Head(wait)].ev.type)
                     /\ lw = "idle" /\ UNCHANGED <<nro, fdt, contract>>
    BY <1>2 DEF TakeJob, Go, Hold, db
  <2>2. jobs[Head(wait)].ev.type \in EventType
    <3>1. wait \in Seq(1..Len(jobs)) /\ wait # <<>> /\ jobs \in Seq(Job)
      BY <1>2 DEF TakeJob, TypeInv, Queue
    <3>2. Head(wait) \in DOMAIN jobs
      BY <3>1
    <3>3. jobs[Head(wait)] \in Job
      BY <3>1, <3>2
    <3>. QED
      BY <3>3 DEF Job, Event
  <2>3. to \in AdminLabel \cup {"findExisting", "findContract"}
    BY <2>1, <2>2 DEF EventType, Entry, AdminLabel
  <2>. QED
    BY <1>1, <2>1, <2>3 DEF AdminLabel
<1>3. CASE Broadcast
  BY <1>1, <1>3, TheWorker DEF Broadcast, Go, AdminLabel, db
<1>4. CASE Complete
  BY <1>1, <1>4 DEF Complete, Finish, AdminLabel, db
<1>5. CASE NroSteps(Worker)
  <2>1. PICK to, m :
          /\ to \in {"broadcast", "saveUpdate", "saveDelete"}
          /\ lw \in {"upsertNro", "readUpdate", "saveUpdate", "readDelete", "saveDelete"}
          /\ pc' = [pc EXCEPT ![Worker] = to] /\ loc' = [loc EXCEPT ![Worker] = m]
          /\ UNCHANGED <<fdt, contract>>
    BY <1>5, TheWorker DEF NroSteps, UpsertNro, ReadUpdate, SaveUpdate, ReadDelete, SaveDelete,
       ReadNro, SaveNro, Go, Hold, db
  <2>2. l.n \in Nros /\ l.doc \in NroDoc
    BY <2>1, TheWorker DEF NroLabel, Locals
  <2>3. \A n \in Nros : nro'[n].load = nro[n].load
    <3>1. CASE UpsertNro(Worker)
      <4>1. nro' = [nro EXCEPT ![l.n] = NewNro(nro[l.n], l.max)]
        BY <3>1 DEF UpsertNro
      <4>2. NewNro(nro[l.n], l.max).load = nro[l.n].load
        BY <2>2, TheWorker DEF NewNro, NroDoc
      <4>. QED
        BY <2>2, <4>1, <4>2, TheWorker
    <3>2. ASSUME NEW from, NEW new, NEW next, SaveNro(Worker, from, new, next),
                 new.load = l.doc.load
          PROVE  \A n \in Nros : nro'[n].load = nro[n].load
      BY <3>2, NroSaved
    <3>3. UpdateNro(l.doc, l.max).load = l.doc.load
      BY <2>2 DEF UpdateNro, NroDoc
    <3>4. [l.doc EXCEPT !.status = "DELETED"].load = l.doc.load
      BY <2>2 DEF NroDoc
    <3>5. CASE SaveUpdate(Worker)
      BY <3>2, <3>3, <3>5 DEF SaveUpdate
    <3>6. CASE SaveDelete(Worker)
      BY <3>2, <3>4, <3>6 DEF SaveDelete
    <3>7. ReadUpdate(Worker) \/ ReadDelete(Worker) => nro' = nro
      BY DEF ReadUpdate, ReadDelete, ReadNro, db
    <3>. QED
      BY <1>5, <3>1, <3>5, <3>6, <3>7 DEF NroSteps
  <2>. QED
    BY <1>1, <2>1, <2>3 DEF AdminLabel
<1>. QED
  BY <1>2, <1>3, <1>4, <1>5

\* The steps that write a load.
LEMMA SoloLoads ==
  ASSUME TypeInv, SoloInv, SaveClaim(Worker) \/ SaveRelease(Worker)
  PROVE  SoloInv'
<1>. DEFINE lw == pc[Worker]
            l == loc[Worker]
            c == l.c
            n == l.n
            A(m) == Charged(lw, l, contract, m)
<1>0. /\ WorkFits(lw, l, contract, nro, fdt) /\ RowsLinked(contract)
      /\ lw \in {"saveClaim", "saveRelease"} /\ n \in Nros /\ l.doc.load = nro[n].load
      /\ \A m \in Nros : /\ A(m) \in SUBSET Contracts /\ Units(Gb, A(m)) \in Nat
                         /\ nro[m].load \in Nat /\ nro[m].load <= Units(Gb, A(m))
      /\ \A f \in Fdts : fdt[f].ports <= IF Plugged(lw, l, contract, f) THEN 1 ELSE 0
  <2>1. lw \in {"saveClaim", "saveRelease"}
    BY DEF SaveClaim, SaveRelease, SaveNro, Go
  <2>2. WorkFits(lw, l, contract, nro, fdt)
    BY DEF SoloInv
  <2>. QED
    BY <2>1, <2>2, TheWorker, ChargedFinite DEF SoloInv, WorkFits, NroLabel, NroDoc
<1>1. CASE SaveClaim(Worker)
  <2>. DEFINE new == UpdateCapacite(l.doc, Gb[c])
              B(m) == Charged("upsertFdt", l, contract', m)
  <2>1. SaveNro(Worker, "saveClaim", new, "upsertFdt")
    BY <1>1 DEF SaveClaim
  <2>2. lw = "saveClaim" /\ pc' = [pc EXCEPT ![Worker] = "upsertFdt"]
        /\ loc' = [loc EXCEPT ![Worker] = l] /\ UNCHANGED <<fdt, contract>>
    BY <2>1, TheWorker DEF SaveNro, Go
  <2>3. new.load = nro[n].load + Gb[c]
    BY <1>0, TheWorker DEF UpdateCapacite, AtLeastZero, NroDoc, Locals
  <2>4. \A m \in Nros : nro'[m].load = IF m = n THEN nro[m].load + Gb[c] ELSE nro[m].load
    <3>. HIDE DEF new
    <3>. QED
      BY <1>0, <2>1, <2>3, NroSaved
  <2>5. contract[c].status = "NONE"
    BY <1>0, <2>2 DEF WorkFits, Preparing
  <2>6. \A m \in Nros : c \notin A(m) /\ B(m) = IF m = n THEN A(m) \cup {c} ELSE A(m)
    BY <2>2, <2>5, TheWorker DEF Charged, Granted, Released
  <2>7. ASSUME NEW m \in Nros
        PROVE  nro'[m].load <= Units(Gb, B(m))
    <3>. HIDE DEF A, B
    <3>1. CASE m # n
      BY <1>0, <2>4, <2>6, <3>1
    <3>2. CASE m = n
      <4>1. Units(Gb, A(m) \cup {c}) = Units(Gb, A(m)) + Gb[c]
        BY <1>0, <2>6, TheWorker, HoldingFinite, UnitsAdd
      <4>2. Units(Gb, B(m)) = Units(Gb, A(m)) + Gb[c]
        BY <2>6, <3>2, <4>1
      <4>3. nro'[m].load = nro[m].load + Gb[c]
        BY <2>4, <3>2
      <4>. QED
        BY <1>0, <4>2, <4>3, TheWorker
    <3>. QED
      BY <3>1, <3>2
  <2>8. \A f \in Fdts : fdt'[f].ports <= IF Plugged("upsertFdt", l, contract', f) THEN 1 ELSE 0
    BY <1>0, <2>2 DEF Plugged, Unplugged
  <2>9. WorkFits("upsertFdt", l, contract', nro', fdt')
    BY <1>0, <2>2 DEF WorkFits, Label, Elsewhere, Preparing, Granted, Releasing, Released
  <2>. QED
    BY <1>0, <2>2, <2>7, <2>8, <2>9, SoloMoves
<1>2. CASE SaveRelease(Worker)
  <2>. DEFINE new == UpdateCapacite(l.doc, -Gb[c])
              to == IF l.f = NoFdt THEN "readLinkBack" ELSE "readPortsBack"
              B(m) == Charged(to, l, contract', m)
  <2>1. SaveNro(Worker, "saveRelease", new, to)
    BY <1>2 DEF SaveRelease
  <2>2. lw = "saveRelease" /\ pc' = [pc EXCEPT ![Worker] = to]
        /\ loc' = [loc EXCEPT ![Worker] = l] /\ UNCHANGED <<fdt, contract>>
    BY <2>1, TheWorker DEF SaveNro, Go
  <2>3. contract[c] = l.row /\ l.row.status # "NONE" /\ n = l.row.nro /\ l.f = l.row.fdt
    BY <1>0, <2>2 DEF WorkFits, Releasing
  <2>4. new.load = AtLeastZero(nro[n].load - Gb[c])
    <3>1. l.doc.load + (-Gb[c]) = nro[n].load - Gb[c]
      BY <1>0, TheWorker
    <3>. QED
      BY <3>1, TheWorker DEF UpdateCapacite, NroDoc, Locals
  <2>5. \A m \in Nros : nro'[m].load = IF m = n THEN AtLeastZero(nro[m].load - Gb[c])
                                       ELSE nro[m].load
    <3>. HIDE DEF new
    <3>. QED
      BY <1>0, <2>1, <2>4, NroSaved
  <2>6. \A m \in Nros : B(m) = A(m) \ {c} /\ (c \in A(m) => m = n)
    BY <2>2, <2>3, TheWorker DEF Charged, Granted, Released
  <2>7. ASSUME NEW m \in Nros
        PROVE  nro'[m].load <= Units(Gb, B(m))
    <3>0. Units(Gb, B(m)) \in Nat
      BY ChargedFinite
    <3>. HIDE DEF A, B
    <3>1. CASE c \notin A(m)
      <4>1. B(m) = A(m)
        BY <2>6, <3>1
      <4>2. nro'[m].load <= nro[m].load
        BY <1>0, <2>5, TheWorker DEF AtLeastZero
      <4>. QED
        BY <1>0, <2>5, <4>1, <4>2, TheWorker DEF AtLeastZero
    <3>2. CASE c \in A(m)
      <4>1. Units(Gb, A(m)) = Units(Gb, A(m) \ {c}) + Gb[c]
        BY <1>0, <3>2, HoldingFinite, UnitsRemove
      <4>2. Units(Gb, A(m)) = Units(Gb, B(m)) + Gb[c]
        BY <2>6, <4>1
      <4>3. nro'[m].load = AtLeastZero(nro[m].load - Gb[c])
        BY <2>5, <2>6, <3>2
      <4>. QED
        BY <1>0, <3>0, <4>2, <4>3, TheWorker DEF AtLeastZero
    <3>. QED
      BY <3>1, <3>2
  <2>8. \A f \in Fdts : Plugged(to, l, contract', f) <=> Plugged(lw, l, contract, f)
    <3>1. CASE l.f # NoFdt
      BY <2>2, <3>1 DEF Plugged, Unplugged
    <3>2. CASE l.f = NoFdt
      <4>1. c # NoFdt
        BY TheWorker, PipelineAssumption
      <4>2. contract[c].status # "ACTIVE"
        BY <1>0, <2>3, <3>2, <4>1, TheWorker DEF RowsLinked
      <4>. QED
        BY <2>2, <3>2, <4>2 DEF Plugged, Unplugged
    <3>. QED
      BY <3>1, <3>2
  <2>9. WorkFits(to, l, contract', nro', fdt')
    BY <1>0, <2>2, <2>3 DEF WorkFits, Label, Elsewhere, Preparing, Granted, Releasing, Released
  <2>10. \A f \in Fdts : fdt'[f].ports <= IF Plugged(to, l, contract', f) THEN 1 ELSE 0
    BY <1>0, <2>2, <2>8
  <2>. QED
    BY <1>0, <2>2, <2>7, <2>9, <2>10, SoloMoves
<1>. QED
  BY <1>1, <1>2

\* The steps that write a port.
LEMMA SoloPorts ==
  ASSUME TypeInv, SoloInv, SavePorts(Worker) \/ SavePortsBack(Worker)
  PROVE  SoloInv'
<1>. DEFINE lw == pc[Worker]
            l == loc[Worker]
            c == l.c
            total == PortsTotal[l.f]
<1>0. /\ WorkFits(lw, l, contract, nro, fdt) /\ RowsLinked(contract)
      /\ lw \in {"savePorts", "savePortsBack"} /\ l.fdoc \in FdtDoc
      /\ l.fdoc.ports = fdt[l.f].ports
      /\ \A m \in Nros : nro[m].load <= Units(Gb, Charged(lw, l, contract, m))
      /\ \A f \in Fdts : /\ fdt[f].ports \in Nat
                         /\ fdt[f].ports <= IF Plugged(lw, l, contract, f) THEN 1 ELSE 0
  <2>1. lw \in {"savePorts", "savePortsBack"}
    BY DEF SavePorts, SavePortsBack, SaveFdt, Go
  <2>2. WorkFits(lw, l, contract, nro, fdt)
    BY DEF SoloInv
  <2>. QED
    BY <2>1, <2>2, TheWorker DEF SoloInv, WorkFits, FdtDoc, Locals
<1>1. CASE SavePorts(Worker)
  <2>. DEFINE new == UpdatePorts(l.fdoc, 1, total)
  <2>1. SaveFdt(Worker, "savePorts", new, "upsertRow")
    BY <1>1 DEF SavePorts
  <2>2. lw = "savePorts" /\ pc' = [pc EXCEPT ![Worker] = "upsertRow"]
        /\ loc' = [loc EXCEPT ![Worker] = l] /\ UNCHANGED <<nro, contract>>
    BY <2>1, TheWorker DEF SaveFdt, Go
  <2>3. contract[c].status = "NONE" /\ l.f = c /\ c \in Fdts /\ total \in Nat \ {0}
    BY <1>0, <2>2, TheWorker, PipelineAssumption DEF WorkFits, Preparing, Granted
  <2>4. fdt[c].ports = 0
    <3>1. ~Plugged(lw, l, contract, c)
      BY <2>2, <2>3 DEF Plugged
    <3>. QED
      BY <1>0, <2>3, <3>1
  <2>5. new.ports = 1
    BY <1>0, <2>3, <2>4 DEF UpdatePorts, AtLeastZero, AtMost, FdtDoc
  <2>6. \A f \in Fdts : fdt'[f].ports = IF f = c THEN 1 ELSE fdt[f].ports
    <3>. HIDE DEF new
    <3>. QED
      BY <1>0, <2>1, <2>3, <2>4, <2>5, FdtSaved
  <2>7. \A f \in Fdts : fdt'[f].ports <= IF Plugged("upsertRow", l, contract', f) THEN 1 ELSE 0
    <3>1. Plugged("upsertRow", l, contract', c)
      BY DEF Plugged
    <3>2. \A f \in Fdts : Plugged(lw, l, contract, f) => Plugged("upsertRow", l, contract', f)
      BY <2>2 DEF Plugged, Unplugged
    <3>. QED
      BY <1>0, <2>6, <3>1, <3>2
  <2>8. \A m \in Nros : nro'[m].load <= Units(Gb, Charged("upsertRow", l, contract', m))
    <3>1. \A m : Charged("upsertRow", l, contract', m) = Charged(lw, l, contract, m)
      BY <2>2 DEF Charged, Granted, Released
    <3>. QED
      BY <1>0, <2>2, <3>1
  <2>9. WorkFits("upsertRow", l, contract', nro', fdt')
    BY <1>0, <2>2, <2>3 DEF WorkFits, Label, Elsewhere, Preparing, Granted, Releasing, Released
  <2>. QED
    BY <1>0, <2>2, <2>7, <2>8, <2>9, SoloMoves
<1>2. CASE SavePortsBack(Worker)
  <2>. DEFINE new == UpdatePorts(l.fdoc, -1, total)
  <2>1. SaveFdt(Worker, "savePortsBack", new, "readLinkBack")
    BY <1>2 DEF SavePortsBack
  <2>2. lw = "savePortsBack" /\ pc' = [pc EXCEPT ![Worker] = "readLinkBack"]
        /\ loc' = [loc EXCEPT ![Worker] = l] /\ UNCHANGED <<nro, contract>>
    BY <2>1, TheWorker DEF SaveFdt, Go
  <2>3. contract[c] = l.row /\ l.row.status # "NONE" /\ l.f = contract[c].fdt
    BY <1>0, <2>2 DEF WorkFits, Released
  <2>4. l.f \in Fdts =>
          /\ new.ports \in Nat /\ new.ports <= fdt[l.f].ports
          /\ fdt[l.f].ports <= 1 => new.ports = 0
    <3>1. ASSUME l.f \in Fdts
          PROVE  total \in Nat \ {0} /\ l.fdoc.ports \in Nat
      BY <1>0, <3>1, PipelineAssumption DEF FdtDoc
    <3>2. new.ports = AtLeastZero(AtMost(l.fdoc.ports - 1, total))
      <4>1. l.fdoc.ports + (-1) = l.fdoc.ports - 1
        BY <1>0 DEF FdtDoc
      <4>. QED
        BY <1>0, <4>1 DEF UpdatePorts, FdtDoc
    <3>. QED
      BY <1>0, <3>1, <3>2 DEF AtLeastZero, AtMost
  <2>5. \A f \in Fdts : /\ fdt'[f].ports \in Nat /\ fdt'[f].ports <= fdt[f].ports
                        /\ f = l.f /\ fdt[f].ports <= 1 => fdt'[f].ports = 0
    <3>. HIDE DEF new
    <3>. QED
      BY <1>0, <2>1, <2>4, FdtSaved
  <2>6. ASSUME NEW f \in Fdts
        PROVE  fdt'[f].ports <= IF Plugged("readLinkBack", l, contract', f) THEN 1 ELSE 0
    <3>1. CASE f # c
      <4>1. Plugged("readLinkBack", l, contract', f) <=> Plugged(lw, l, contract, f)
        BY <2>2, <3>1 DEF Plugged
      <4>. QED
        BY <1>0, <2>5, <4>1
    <3>2. CASE f = c /\ contract[c].status = "ACTIVE"
      <4>1. l.f = c
        BY <1>0, <2>3, <3>2, TheWorker DEF RowsLinked
      <4>2. fdt[f].ports <= 1
        BY <1>0
      <4>. QED
        BY <2>5, <3>2, <4>1, <4>2
    <3>3. CASE f = c /\ contract[c].status # "ACTIVE"
      <4>1. ~Plugged(lw, l, contract, f) /\ ~Plugged("readLinkBack", l, contract', f)
        BY <2>2, <3>3 DEF Plugged
      <4>. QED
        BY <1>0, <2>5, <4>1
    <3>. QED
      BY <3>1, <3>2, <3>3
  <2>7. \A m \in Nros : nro'[m].load <= Units(Gb, Charged("readLinkBack", l, contract', m))
    <3>1. \A m : Charged("readLinkBack", l, contract', m) = Charged(lw, l, contract, m)
      BY <2>2 DEF Charged, Granted, Released
    <3>. QED
      BY <1>0, <2>2, <3>1
  <2>8. WorkFits("readLinkBack", l, contract', nro', fdt')
    BY <1>0, <2>2, <2>3 DEF WorkFits, Label, Elsewhere, Preparing, Granted, Releasing, Released
  <2>. QED
    BY <1>0, <2>2, <2>6, <2>7, <2>8, SoloMoves
<1>. QED
  BY <1>1, <1>2

\* The steps that write a row: what the row accounts for is what was charged already.
LEMMA SoloRows ==
  ASSUME TypeInv, SoloInv,
         Refuse(Worker) \/ UpsertRow(Worker) \/ PlainSave(Worker) \/ SaveRow(Worker)
  PROVE  SoloInv'
<1>. DEFINE lw == pc[Worker]
            l == loc[Worker]
            c == l.c
            n == l.n
<1>0. /\ WorkFits(lw, l, contract, nro, fdt) /\ RowsLinked(contract)
      /\ \A m \in Nros : nro[m].load <= Units(Gb, Charged(lw, l, contract, m))
      /\ \A f \in Fdts : fdt[f].ports <= IF Plugged(lw, l, contract, f) THEN 1 ELSE 0
  BY DEF SoloInv
<1>1. ASSUME NEW to \in {"readLink", "notifyNew", "notifyCancel"}, NEW m,
             pc' = [pc EXCEPT ![Worker] = to], loc' = [loc EXCEPT ![Worker] = m],
             UNCHANGED <<nro, fdt>>,
             \A d \in Contracts \ {c} : contract'[d] = contract[d],
             contract'[c].status = "ACTIVE" =>
               contract'[c].nro = n /\ contract'[c].fdt = c /\ lw = "upsertRow" /\ n \in Nros,
             lw = "upsertRow" => contract'[c].status = "ACTIVE",
             lw \in {"refuse", "upsertRow", "plainSave", "saveRow"},
             lw # "saveRow" => contract[c].status # "ACTIVE"
      PROVE  SoloInv'
  <2>1. RowsLinked(contract')
    BY <1>0, <1>1 DEF RowsLinked
  <2>2. WorkFits(to, m, contract', nro', fdt')
    BY <1>1 DEF WorkFits, Label, Elsewhere, Preparing, Granted, Releasing, Released
  <2>3. \A k : Charged(to, m, contract', k) = Charged(lw, l, contract, k)
    BY <1>1, TheWorker DEF Charged, Granted, Released
  <2>4. \A f \in Fdts : Plugged(to, m, contract', f) <=> Plugged(lw, l, contract, f)
    BY <1>1, TheWorker DEF Plugged, Unplugged
  <2>5. \A k \in Nros : nro'[k].load <= Units(Gb, Charged(to, m, contract', k))
    BY <1>0, <1>1, <2>3
  <2>6. \A f \in Fdts : fdt'[f].ports <= IF Plugged(to, m, contract', f) THEN 1 ELSE 0
    BY <1>0, <1>1, <2>4
  <2>. QED
    BY <1>1, <2>1, <2>2, <2>5, <2>6, SoloMoves
<1>2. CASE Refuse(Worker)
  <2>1. /\ lw = "refuse" /\ pc' = [pc EXCEPT ![Worker] = "notifyNew"]
        /\ loc' = [loc EXCEPT ![Worker] = l] /\ UNCHANGED <<nro, fdt>>
        /\ PutRow(c, "FAILED", n, NoFdt) /\ ~Exists(c)
    BY <1>2, TheWorker DEF Refuse, Go
  <2>2. contract'[c].status = "FAILED" /\ \A d \in Contracts \ {c} : contract'[d] = contract[d]
    BY <2>1, TheWorker DEF PutRow
  <2>. QED
    BY <1>1, <2>1, <2>2 DEF Exists
<1>3. CASE UpsertRow(Worker)
  <2>1. /\ lw = "upsertRow" /\ pc' = [pc EXCEPT ![Worker] = "readLink"]
        /\ loc' = [loc EXCEPT ![Worker] = [l EXCEPT !.news = TRUE]] /\ UNCHANGED <<nro, fdt>>
        /\ PutRow(c, "ACTIVE", n, c)
    BY <1>3 DEF UpsertRow, Go, Hold
  <2>2. /\ contract'[c].status = "ACTIVE" /\ contract'[c].nro = n /\ contract'[c].fdt = c
        /\ \A d \in Contracts \ {c} : contract'[d] = contract[d]
    BY <2>1, TheWorker DEF PutRow
  <2>3. n \in Nros /\ contract[c].status = "NONE"
    BY <1>0, <2>1, TheWorker DEF NroLabel, WorkFits, Preparing
  <2>. QED
    BY <1>1, <2>1, <2>2, <2>3
<1>4. CASE PlainSave(Worker) \/ SaveRow(Worker)
  <2>1. /\ lw \in {"plainSave", "saveRow"} /\ pc' = [pc EXCEPT ![Worker] = "notifyCancel"]
        /\ loc' = [loc EXCEPT ![Worker] = l] /\ UNCHANGED <<nro, fdt>>
        /\ contract' = Cancelled(c)
    BY <1>4, TheWorker DEF PlainSave, SaveRow, Go
  <2>2. contract'[c].status = "CANCELLED" /\ \A d \in Contracts \ {c} : contract'[d] = contract[d]
    BY <2>1, TheWorker DEF Cancelled, ContractRow
  <2>3. lw = "plainSave" => contract[c].status # "ACTIVE"
    <3>1. lw = "plainSave" => contract[c].nro = NoNro
      BY <1>0 DEF WorkFits, Releasing
    <3>. QED
      BY <1>0, <3>1, TheWorker, PipelineAssumption DEF RowsLinked
  <2>. QED
    BY <1>1, <2>1, <2>2, <2>3
<1>. QED
  BY <1>2, <1>3, <1>4

\* No write of the worker's is refused, no failure happens, and nobody calls.
LEMMA SoloRefuses ==
  ASSUME AloneOnStandalone, TypeInv, SoloInv
  PROVE  /\ ~WriteRefused(Worker) /\ ~CommitClaim(Worker) /\ ~CommitRelease(Worker)
         /\ ~Failure
         /\ \A r \in Requests : ~RequestStep(r)
<1>. DEFINE lw == pc[Worker]
            l == loc[Worker]
<1>0. WorkFits(lw, l, contract, nro, fdt) /\ lw \notin Elsewhere /\ l.c \in Contracts
  BY TheWorker DEF SoloInv
<1>1. ~WriteRefused(Worker)
  <2>1. ~PhoneTaken(l.c)
    BY <1>0 DEF PhoneTaken, AloneOnStandalone
  <2>2. lw = "refuse" => ~Exists(l.c)
    BY <1>0 DEF WorkFits, Preparing, Exists
  <2>3. lw \in {"plainSave", "saveRow"} => Same(l)
    BY <1>0 DEF WorkFits, Releasing, Released, Same, Exists
  <2>. QED
    BY <1>0, <2>1, <2>2, <2>3 DEF WriteRefused, Refused, Elsewhere
<1>2. ~CommitClaim(Worker) /\ ~CommitRelease(Worker)
  BY <1>0 DEF CommitClaim, CommitRelease, Go, Elsewhere
<1>3. ~Failure
  <2>1. ~(faults < MaxFaults)
    BY DEF AloneOnStandalone, TypeInv, Tallies
  <2>. QED
    BY <2>1 DEF Failure, Crash, CallFails, AbortCommit
<1>4. ASSUME NEW r \in Requests
      PROVE  ~RequestStep(r)
  <2>1. pc[r] = "idle"
    BY DEF SoloInv
  <2>2. \A c \in Contracts : ~PostContract(r, c) /\ ~DeleteContract(r, c)
    BY DEF PostContract, DeleteContract, Call, AloneOnStandalone
  <2>3. ~RestSteps(r) /\ ~WriteRefused(r)
    BY <2>1 DEF RestSteps, ResolveParents, InsertRow, FindById, Erase, WriteRefused, Refused, Go
  <2>4. ~ClaimSteps(r)
    BY <2>1 DEF ClaimSteps, ReadClaim, SaveClaim, ReadPorts, SavePorts, ReadNro, SaveNro, ReadFdtDoc,
       SaveFdt, Go
  <2>5. ~CancelSteps(r)
    BY <2>1 DEF CancelSteps, FindContract, PlainSave, CommitRelease, ReadRelease, SaveRelease,
       ReadPortsBack, SavePortsBack, ReadLinkBack, SaveLinkBack, SaveRow, NotifyCancel, ReadNro,
       SaveNro, ReadFdtDoc, SaveFdt, Go
  <2>6. ~EditSteps(r)
    BY <2>1 DEF EditSteps, EditNro, SaveEdit, AloneOnStandalone
  <2>. QED
    BY <2>2, <2>3, <2>4, <2>5, <2>6 DEF RequestStep
<1>. QED
  BY <1>1, <1>2, <1>3, <1>4

LEMMA SoloNext ==
  ASSUME AloneOnStandalone, TypeInv, SoloInv, [Next]_vars
  PROVE  SoloInv'
<1>1. CASE WorkerStep
  <2>1. CASE NewSteps(Worker) \/ ClaimSteps(Worker)
    BY <2>1, SoloRefuses, SoloNew, SoloLoads, SoloPorts, SoloRows DEF NewSteps, ClaimSteps
  <2>2. CASE CancelSteps(Worker)
    BY <2>2, SoloRefuses, SoloCancel, SoloLoads, SoloPorts, SoloRows DEF CancelSteps
  <2>. QED
    BY <1>1, <2>1, <2>2, SoloRefuses, SoloAdmin DEF WorkerStep
<1>2. CASE UNCHANGED <<nro, fdt, contract, pc, loc>>
  BY <1>2 DEF SoloInv, WorkFits, RowsLinked, Charged, Plugged, Units, UnitsOf, Active
<1>3. CASE (\E ev \in Events : Enqueue(ev)) \/ \E id \in DOMAIN jobs : Promote(id) \/ Recover(id)
  BY <1>2, <1>3 DEF Enqueue, Promote, Recover, db
<1>4. CASE UNCHANGED vars
  BY <1>2, <1>4 DEF vars
<1>. QED
  BY <1>1, <1>3, <1>4, SoloRefuses DEF Next, AllDone

LEMMA SoloInit ==
  ASSUME AloneOnStandalone, Init
  PROVE  SoloInv
<1>1. /\ \A p \in Procs : pc[p] = "idle" /\ loc[p] = Blank
      /\ \A c \in Contracts : contract[c].status = "NONE"
      /\ \A n \in Nros : nro[n].load = 0
      /\ \A f \in Fdts : fdt[f].ports = 0
  BY DEF Init, NoContract, NoFdtDoc
<1>2. pc[Worker] = "idle" /\ \A r \in Requests : pc[r] = "idle"
  BY <1>1 DEF Procs
<1>3. WorkFits(pc[Worker], loc[Worker], contract, nro, fdt)
  BY <1>2 DEF WorkFits, Label, Elsewhere, Preparing, Granted, Releasing, Released
<1>4. \A n \in Nros : nro[n].load <= Units(Gb, Charged(pc[Worker], loc[Worker], contract, n))
  BY <1>1, ChargedFinite
<1>5. \A f \in Fdts : fdt[f].ports <= IF Plugged(pc[Worker], loc[Worker], contract, f) THEN 1 ELSE 0
  BY <1>1
<1>. QED
  BY <1>1, <1>2, <1>3, <1>4, <1>5 DEF SoloInv, RowsLinked

\* On a standalone server the separate writes of a claim or a release agree again when the
\* handler has returned, for any number of contracts, NROs and events: as long as nothing
\* but the worker writes contracts, none of its calls fails, and no two contracts have one
\* phone number (the unique index would refuse the row after its load is claimed).
THEOREM HeldWithoutTransactions ==
  ASSUME AloneOnStandalone
  PROVE  Spec => []HeldAtRest
<1>1. TypeInv /\ SoloInv /\ [Next]_vars => SoloInv'
  BY SoloNext
<1>2. TypeInv /\ SoloInv => HeldAtRest
  <2>. SUFFICES ASSUME TypeInv, SoloInv, AllIdle
                PROVE  LoadIsHeld /\ PortsAreHeld
    BY DEF HeldAtRest
  <2>1. pc[Worker] = "idle"
    BY TheWorker DEF AllIdle
  <2>2. ASSUME NEW n \in Nros
        PROVE  Load[n] <= Units(Gb, Ledger!Holders(n))
    <3>1. Charged(pc[Worker], loc[Worker], contract, n) = Holding(n)
      BY <2>1 DEF Charged, Granted, Released, Holding, Active
    <3>. QED
      BY <3>1, LedgerHolders DEF SoloInv, Load
  <2>3. ASSUME NEW f \in Fdts
        PROVE  fdt[f].ports <= Cardinality({c \in Contracts : Active(c) /\ contract[c].fdt = f})
    <3>1. fdt[f].ports \in Nat /\ \A c \in Contracts : Active(c) => contract[c].fdt = c
      BY DEF TypeInv, Collections, FdtDoc, SoloInv, RowsLinked, Active
    <3>2. fdt[f].ports <= IF f \in Contracts /\ Active(f) THEN 1 ELSE 0
      <4>1. Plugged(pc[Worker], loc[Worker], contract, f) => f \in Contracts /\ Active(f)
        BY <2>1 DEF Plugged, Active
      <4>. QED
        BY <3>1, <4>1 DEF SoloInv
    <3>. QED
      BY <3>1, <3>2, OwnContract
  <2>. QED
    BY <2>2, <2>3, LedgerUnits DEF LoadIsHeld, Ledger!Covered, PortsAreHeld
<1>3. Init => SoloInv
  BY SoloInit
<1>. QED
  BY <1>1, <1>2, <1>3, TypeInvCorrect, PTL DEF Spec

=============================================================================
