---------------------- MODULE ContractPipeline_proofs ----------------------
(***************************************************************************)
(* Type correctness of the contract pipeline, for any number of contracts, *)
(* NROs, requests, events and failures, with or without transactions.      *)
(*                                                                         *)
(* TypeOK alone is not inductive: a handler about to write an NRO or an    *)
(* FDT must know one, and the worker must hold a job of the queue.         *)
(*                                                                         *)
(* Then what a document goes through: it is notified and announced at most *)
(* once (OnceInv: what is told of a document lags behind its rows until    *)
(* the worker has written one), and once refused or cancelled it stays so  *)
(* (SticksInv: a row the worker prepares is not there yet).                *)
(***************************************************************************)
EXTENDS ContractPipeline, SequenceTheorems, FiniteSetTheorems, TLAPS

\* Where a handler has resolved its NRO, and its FDT.
NroLabel == {"commitClaim", "readClaim", "saveClaim", "upsertFdt", "readPorts", "savePorts",
             "upsertRow", "readLink", "saveLink", "countLink", "commitRelease", "readRelease",
             "saveRelease", "upsertNro", "readUpdate", "saveUpdate", "readDelete", "saveDelete",
             "saveEdit"}
FdtLabel == {"commitClaim", "readClaim", "saveClaim", "upsertFdt", "readPorts", "savePorts",
             "upsertRow", "readLink", "saveLink", "countLink", "readPortsBack"}

Collections ==
  /\ nro \in [Nros -> NroDoc]
  /\ fdt \in [Fdts -> FdtDoc]
  /\ \A f \in Fdts : fdt[f].exists => fdt[f].nro \in Nros
  /\ contract \in [Contracts -> ContractRow]

Tallies ==
  /\ born \in [Contracts -> Nat] /\ told \in [Contracts -> Nat]
  /\ announced \in [Contracts -> Nat]
  /\ calls \in 0..MaxCalls /\ faults \in 0..MaxFaults

Queue ==
  /\ jobs \in Seq(Job)
  /\ wait \in Seq(1..Len(jobs))

Handlers ==
  /\ pc \in [Procs -> Label]
  /\ loc \in [Procs -> Locals]
  /\ \A p \in Procs : /\ pc[p] \in NroLabel => loc[p].n \in Nros
                      /\ pc[p] \in FdtLabel => loc[p].f \in Fdts
  /\ pc[Worker] # "idle" => loc[Worker].job \in 1..Len(jobs)

TypeInv == Collections /\ Tallies /\ Queue /\ Handlers

-----------------------------------------------------------------------------
(* The operators on documents.                                             *)

\* save() leaves a document of the collection, whatever was read and changed.
LEMMA SaveNroType ==
  ASSUME NEW stored \in NroDoc, NEW read \in NroDoc, NEW new \in NroDoc
  PROVE  SaveModified(stored, read, new) \in NroDoc
<1>1. DOMAIN stored = {"load", "max", "status", "fdts"}
  BY DEF NroDoc
<1>. DEFINE s == SaveModified(stored, read, new)
<1>2. s = [load |-> s.load, max |-> s.max, status |-> s.status, fdts |-> s.fdts]
  BY <1>1 DEF SaveModified
<1>3. s.load \in Nat /\ s.max \in Nat /\ s.status \in NroStatus /\ s.fdts \in Nat
  BY <1>1 DEF SaveModified, NroDoc
<1>. QED
  BY <1>2, <1>3 DEF NroDoc

\* An FDT whose handler changed a counter keeps its existence and its parent.
LEMMA SaveFdtType ==
  ASSUME NEW stored \in FdtDoc, NEW read \in FdtDoc, NEW new \in FdtDoc,
         new.exists = read.exists, new.nro = read.nro
  PROVE  /\ SaveModified(stored, read, new) \in FdtDoc
         /\ SaveModified(stored, read, new).exists = stored.exists
         /\ SaveModified(stored, read, new).nro = stored.nro
<1>1. DOMAIN stored = {"exists", "nro", "ports", "active"}
  BY DEF FdtDoc
<1>. DEFINE s == SaveModified(stored, read, new)
<1>2. s = [exists |-> s.exists, nro |-> s.nro, ports |-> s.ports, active |-> s.active]
  BY <1>1 DEF SaveModified
<1>3. s.exists = stored.exists
  BY <1>1 DEF SaveModified
<1>4. s.nro = stored.nro
  BY <1>1 DEF SaveModified
<1>5. s.ports \in Nat /\ s.active \in Nat
  BY <1>1 DEF SaveModified, FdtDoc
<1>. QED
  BY <1>2, <1>3, <1>4, <1>5 DEF FdtDoc

LEMMA UpdateCapaciteType ==
  ASSUME NEW doc \in NroDoc, NEW delta \in Int
  PROVE  UpdateCapacite(doc, delta) \in NroDoc
<1>. DEFINE load == AtLeastZero(doc.load + delta)
            status == IF doc.status \in {"DOWN", "DELETED"} THEN doc.status
                      ELSE IF load >= doc.max THEN "SATURATED" ELSE "ACTIVE"
<1>1. load \in Nat
  BY DEF NroDoc, AtLeastZero
<1>2. status \in NroStatus
  BY DEF NroDoc, NroStatus
<1>3. UpdateCapacite(doc, delta) = [doc EXCEPT !.load = load, !.status = status]
  BY DEF UpdateCapacite
<1>. HIDE DEF load, status
<1>. QED
  BY <1>1, <1>2, <1>3 DEF NroDoc

LEMMA UpdateNroType ==
  ASSUME NEW doc \in NroDoc, NEW max \in Nat
  PROVE  UpdateNro(doc, max) \in NroDoc /\ NewNro(doc, max) \in NroDoc
BY DEF UpdateNro, NewNro, NroDoc, NroStatus

LEMMA UpdatePortsType ==
  ASSUME NEW fdoc \in FdtDoc, NEW delta \in Int, NEW total \in Nat
  PROVE  /\ UpdatePorts(fdoc, delta, total) \in FdtDoc
         /\ UpdatePorts(fdoc, delta, total).exists = fdoc.exists
         /\ UpdatePorts(fdoc, delta, total).nro = fdoc.nro
BY DEF UpdatePorts, FdtDoc, AtLeastZero, AtMost

\* A row is written with the next number, or keeps its own.
LEMMA PutRowType ==
  ASSUME contract \in [Contracts -> ContractRow], born \in [Contracts -> Nat],
         NEW c \in Contracts, NEW status \in {"ACTIVE", "FAILED"},
         NEW n \in Nros \cup {NoNro}, NEW f \in Fdts \cup {NoFdt},
         PutRow(c, status, n, f)
  PROVE  contract' \in [Contracts -> ContractRow] /\ born' \in [Contracts -> Nat]
<1>. DEFINE row == [status |-> status, nro |-> n, fdt |-> f,
                    oid |-> IF Exists(c) THEN contract[c].oid ELSE born[c] + 1]
<1>1. row \in ContractRow
  BY DEF ContractRow
<1>2. contract' = [contract EXCEPT ![c] = row]
  BY DEF PutRow
<1>3. contract' \in [Contracts -> ContractRow]
  BY <1>1, <1>2
<1>. QED
  BY <1>3 DEF PutRow

-----------------------------------------------------------------------------
(* The steps of a handler.                                                 *)

\* One handler moves to a label, holding what that label needs.
LEMMA HandlersStep ==
  ASSUME TypeInv, NEW p \in Procs, NEW lab \in Label, NEW l \in Locals,
         pc' = [pc EXCEPT ![p] = lab], loc' = [loc EXCEPT ![p] = l],
         lab \in NroLabel => l.n \in Nros,
         lab \in FdtLabel => l.f \in Fdts,
         p = Worker /\ lab # "idle" => l.job \in 1..Len(jobs'),
         Len(jobs') = Len(jobs)
  PROVE  Handlers'
BY DEF TypeInv, Handlers, Procs

\* The same for a handler that keeps what it holds.
LEMMA HandlersGo ==
  ASSUME TypeInv, NEW p \in Procs, NEW lab \in Label,
         pc[p] # "idle", pc' = [pc EXCEPT ![p] = lab], UNCHANGED <<loc, jobs>>,
         lab \in NroLabel => loc[p].n \in Nros,
         lab \in FdtLabel => loc[p].f \in Fdts
  PROVE  Handlers'
BY DEF TypeInv, Handlers, Procs

LEMMA BlankType == Blank \in Locals
BY PipelineAssumption DEF Blank, Locals, NoNroDoc, NoFdtDoc, NoContract, NroDoc, FdtDoc, ContractRow, NroStatus

\* What a step leaves alone keeps its type.
LEMMA CollectionsSame == ASSUME TypeInv, UNCHANGED db PROVE Collections'
BY DEF TypeInv, Collections, db

LEMMA TalliesSame == ASSUME TypeInv, UNCHANGED <<history, calls, faults>> PROVE Tallies'
BY DEF TypeInv, Tallies, history

LEMMA QueueSame == ASSUME TypeInv, UNCHANGED redis PROVE Queue' /\ UNCHANGED jobs
BY DEF TypeInv, Queue, redis

\* The four calls that read or save an NRO or an FDT.
LEMMA ReadNroStep ==
  ASSUME TypeInv, NEW p \in Procs, NEW from \in NroLabel, NEW to \in Label,
         to \in FdtLabel => from \in FdtLabel, ReadNro(p, from, to)
  PROVE  TypeInv'
<1>. DEFINE l == [loc[p] EXCEPT !.doc = nro[loc[p].n]]
<1>1. loc[p] \in Locals /\ pc[p] = from /\ loc[p].n \in Nros
  BY DEF TypeInv, Handlers, ReadNro, Go
<1>2. nro[loc[p].n] \in NroDoc
  BY <1>1 DEF TypeInv, Collections
<1>3. l \in Locals
  BY <1>1, <1>2 DEF Locals
<1>4. l.n = loc[p].n /\ l.f = loc[p].f /\ l.job = loc[p].job
  BY <1>1 DEF Locals
<1>5. /\ pc' = [pc EXCEPT ![p] = to] /\ loc' = [loc EXCEPT ![p] = l]
      /\ UNCHANGED <<db, redis, history, calls, faults>>
  BY DEF ReadNro, Go, Hold
<1>6. Collections' /\ Tallies' /\ Queue' /\ UNCHANGED jobs
  BY <1>5, CollectionsSame, TalliesSame, QueueSame
<1>7. from \in FdtLabel => loc[p].f \in Fdts
  BY <1>1 DEF TypeInv, Handlers
<1>8. p = Worker => loc[p].job \in 1..Len(jobs)
  BY <1>1 DEF TypeInv, Handlers, NroLabel
<1>. HIDE DEF l
<1>9. Handlers'
  BY <1>1, <1>3, <1>4, <1>5, <1>6, <1>7, <1>8, HandlersStep
<1>. QED
  BY <1>6, <1>9 DEF TypeInv

LEMMA SaveNroStep ==
  ASSUME TypeInv, NEW p \in Procs, NEW from \in NroLabel, NEW new \in NroDoc, NEW to \in Label,
         to \in FdtLabel => loc[p].f \in Fdts, SaveNro(p, from, new, to)
  PROVE  TypeInv'
<1>1. loc[p] \in Locals /\ pc[p] = from /\ loc[p].n \in Nros /\ pc[p] # "idle"
  BY DEF TypeInv, Handlers, SaveNro, Go, NroLabel
<1>2. nro[loc[p].n] \in NroDoc /\ loc[p].doc \in NroDoc
  BY <1>1 DEF TypeInv, Collections, Locals
<1>3. SaveModified(nro[loc[p].n], loc[p].doc, new) \in NroDoc
  BY <1>2, SaveNroType
<1>4. /\ pc' = [pc EXCEPT ![p] = to] /\ UNCHANGED <<loc, jobs>>
      /\ nro' = [nro EXCEPT ![loc[p].n] = SaveModified(nro[loc[p].n], loc[p].doc, new)]
      /\ UNCHANGED <<fdt, contract, redis, history, calls, faults>>
  BY DEF SaveNro, Go, redis
<1>5. Tallies' /\ Queue'
  BY <1>4, TalliesSame, QueueSame
<1>6. Collections'
  BY <1>1, <1>3, <1>4 DEF TypeInv, Collections
<1>7. Handlers'
  BY <1>1, <1>4, HandlersGo
<1>. QED
  BY <1>5, <1>6, <1>7 DEF TypeInv

LEMMA ReadFdtStep ==
  ASSUME TypeInv, NEW p \in Procs, NEW from \in FdtLabel, NEW to \in Label,
         to \in NroLabel => from \in NroLabel, ReadFdtDoc(p, from, to)
  PROVE  TypeInv'
<1>. DEFINE l == [loc[p] EXCEPT !.fdoc = fdt[loc[p].f]]
<1>1. loc[p] \in Locals /\ pc[p] = from /\ loc[p].f \in Fdts
  BY DEF TypeInv, Handlers, ReadFdtDoc, Go
<1>2. fdt[loc[p].f] \in FdtDoc
  BY <1>1 DEF TypeInv, Collections
<1>3. l \in Locals
  BY <1>1, <1>2 DEF Locals
<1>4. l.n = loc[p].n /\ l.f = loc[p].f /\ l.job = loc[p].job
  BY <1>1 DEF Locals
<1>5. /\ pc' = [pc EXCEPT ![p] = to] /\ loc' = [loc EXCEPT ![p] = l]
      /\ UNCHANGED <<db, redis, history, calls, faults>>
  BY DEF ReadFdtDoc, Go, Hold
<1>6. Collections' /\ Tallies' /\ Queue' /\ UNCHANGED jobs
  BY <1>5, CollectionsSame, TalliesSame, QueueSame
<1>7. from \in NroLabel => loc[p].n \in Nros
  BY <1>1 DEF TypeInv, Handlers
<1>8. p = Worker => loc[p].job \in 1..Len(jobs)
  BY <1>1 DEF TypeInv, Handlers, FdtLabel
<1>. HIDE DEF l
<1>9. Handlers'
  BY <1>1, <1>3, <1>4, <1>5, <1>6, <1>7, <1>8, HandlersStep
<1>. QED
  BY <1>6, <1>9 DEF TypeInv

LEMMA SaveFdtStep ==
  ASSUME TypeInv, NEW p \in Procs, NEW from \in Label, from # "idle", NEW new \in FdtDoc,
         new.exists = loc[p].fdoc.exists, new.nro = loc[p].fdoc.nro, NEW to \in Label,
         to \in NroLabel => loc[p].n \in Nros, to \in FdtLabel => loc[p].f \in Fdts,
         SaveFdt(p, from, new, to)
  PROVE  TypeInv'
<1>1. loc[p] \in Locals /\ pc[p] = from /\ pc[p] # "idle"
  BY DEF TypeInv, Handlers, SaveFdt, Go
<1>2. loc[p].fdoc \in FdtDoc
  BY <1>1 DEF Locals
<1>3. ASSUME NEW g \in Fdts
      PROVE  /\ SaveModified(fdt[g], loc[p].fdoc, new) \in FdtDoc
             /\ SaveModified(fdt[g], loc[p].fdoc, new).exists = fdt[g].exists
             /\ SaveModified(fdt[g], loc[p].fdoc, new).nro = fdt[g].nro
  <2>1. fdt[g] \in FdtDoc
    BY DEF TypeInv, Collections
  <2>. QED
    BY <1>2, <2>1, SaveFdtType
<1>4. /\ pc' = [pc EXCEPT ![p] = to] /\ UNCHANGED <<loc, jobs>>
      /\ fdt' = [fdt EXCEPT ![loc[p].f] = SaveModified(fdt[loc[p].f], loc[p].fdoc, new)]
      /\ UNCHANGED <<nro, contract, redis, history, calls, faults>>
  BY DEF SaveFdt, Go, redis
<1>5. Tallies' /\ Queue'
  BY <1>4, TalliesSame, QueueSame
<1>6. Collections'
  BY <1>3, <1>4 DEF TypeInv, Collections
<1>7. Handlers'
  BY <1>1, <1>4, HandlersGo
<1>. QED
  BY <1>5, <1>6, <1>7 DEF TypeInv

-----------------------------------------------------------------------------
(* The actions, in the order of the specification.                         *)

LEMMA NewStepsType ==
  ASSUME TypeInv, NEW p \in Procs, NewSteps(p)
  PROVE  TypeInv'
<1>. DEFINE c == loc[p].c
<1>0. /\ loc[p] \in Locals /\ c \in Contracts /\ c \in Fdts /\ pc[p] \in Label
      /\ Gb[c] \in Nat /\ PortsTotal[c] \in Nat /\ fdt[c] \in FdtDoc
      /\ loc[p].n \in Nros \cup {NoNro} /\ loc[p].f \in Fdts \cup {NoFdt}
      /\ (p = Worker /\ pc[p] # "idle" => loc[p].job \in 1..Len(jobs))
      /\ (pc[p] \in NroLabel => loc[p].n \in Nros)
      /\ (pc[p] \in FdtLabel => loc[p].f \in Fdts)
  <2>1. loc[p] \in Locals /\ pc[p] \in Label
    BY DEF TypeInv, Handlers
  <2>2. c \in Contracts /\ loc[p].n \in Nros \cup {NoNro} /\ loc[p].f \in Fdts \cup {NoFdt}
    BY <2>1 DEF Locals
  <2>3. c \in Fdts
    BY <2>2 DEF Fdts
  <2>4. Gb[c] \in Nat /\ PortsTotal[c] \in Nat
    BY <2>2, <2>3, PipelineAssumption
  <2>5. fdt[c] \in FdtDoc
    BY <2>3 DEF TypeInv, Collections
  <2>. QED
    BY <2>1, <2>2, <2>3, <2>4, <2>5 DEF TypeInv, Handlers
<1>1. CASE FindExisting(p)
  <2>1. /\ pc' = [pc EXCEPT ![p] = IF Exists(c) THEN "broadcast" ELSE "resolveNro"]
        /\ pc[p] # "idle" /\ UNCHANGED <<loc, jobs>>
        /\ UNCHANGED <<db, redis, history, calls, faults>>
    BY <1>1 DEF FindExisting, Go, redis
  <2>2. Handlers'
    <3>. DEFINE lab == IF Exists(c) THEN "broadcast" ELSE "resolveNro"
    <3>1. lab \in Label /\ lab \notin NroLabel /\ lab \notin FdtLabel
      BY DEF Label, NroLabel, FdtLabel
    <3>. HIDE DEF lab
    <3>. QED
      BY <2>1, <3>1, HandlersGo DEF lab
  <2>. QED
    BY <2>1, <2>2, CollectionsSame, TalliesSame, QueueSame DEF TypeInv
<1>2. CASE ResolveNro(p)
  <2>. DEFINE active == {n \in Reach[c] : nro[n].status = "ACTIVE"}
  <2>1. UNCHANGED <<db, redis, history, calls, faults>> /\ pc[p] = "resolveNro"
    BY <1>2 DEF ResolveNro, Go
  <2>2. Collections' /\ Tallies' /\ Queue' /\ UNCHANGED jobs
    BY <2>1, CollectionsSame, TalliesSame, QueueSame
  <2>3. CASE Go(p, "resolveNro", "refuse") /\ Hold(p, [loc[p] EXCEPT !.n = NoNro])
    <3>. DEFINE l == [loc[p] EXCEPT !.n = NoNro]
    <3>1. l \in Locals /\ l.job = loc[p].job
      BY <1>0 DEF Locals
    <3>2. "refuse" \in Label /\ "refuse" \notin NroLabel /\ "refuse" \notin FdtLabel
      BY DEF Label, NroLabel, FdtLabel
    <3>3. pc' = [pc EXCEPT ![p] = "refuse"] /\ loc' = [loc EXCEPT ![p] = l]
      BY <2>3 DEF Go, Hold
    <3>. HIDE DEF l
    <3>4. Handlers'
      BY <1>0, <2>1, <2>2, <3>1, <3>2, <3>3, HandlersStep
    <3>. QED
      BY <2>2, <3>4 DEF TypeInv
  <2>4. ASSUME NEW n \in active,
               Go(p, "resolveNro", IF ~HasCapacityFor(nro[n], Gb[c]) THEN "refuse"
                                   ELSE IF Transactional THEN "commitClaim" ELSE "readClaim"),
               Hold(p, [loc[p] EXCEPT !.n = n, !.f = c, !.doc = nro[n]])
        PROVE  TypeInv'
    <3>. DEFINE l == [loc[p] EXCEPT !.n = n, !.f = c, !.doc = nro[n]]
                lab == IF ~HasCapacityFor(nro[n], Gb[c]) THEN "refuse"
                       ELSE IF Transactional THEN "commitClaim" ELSE "readClaim"
    <3>1. n \in Nros /\ nro[n] \in NroDoc
      <4>1. Reach[c] \in SUBSET Nros
        BY <1>0, PipelineAssumption
      <4>. QED
        BY <4>1 DEF TypeInv, Collections
    <3>2. l \in Locals /\ l.n = n /\ l.f = c /\ l.job = loc[p].job
      BY <1>0, <3>1 DEF Locals
    <3>3. lab \in Label
      BY DEF Label
    <3>4. pc' = [pc EXCEPT ![p] = lab] /\ loc' = [loc EXCEPT ![p] = l]
      BY <2>4 DEF Go, Hold
    <3>. HIDE DEF l, lab
    <3>5. Handlers'
      BY <1>0, <2>1, <2>2, <3>1, <3>2, <3>3, <3>4, HandlersStep
    <3>. QED
      BY <2>2, <3>5 DEF TypeInv
  <2>. QED
    BY <1>2, <2>3, <2>4 DEF ResolveNro
<1>3. CASE Refuse(p)
  <2>1. PutRow(c, "FAILED", loc[p].n, NoFdt)
    BY <1>3 DEF Refuse
  <2>2. contract' \in [Contracts -> ContractRow] /\ born' \in [Contracts -> Nat]
    <3>1. contract \in [Contracts -> ContractRow] /\ born \in [Contracts -> Nat]
      BY DEF TypeInv, Collections, Tallies
    <3>. QED
      BY <1>0, <2>1, <3>1, PutRowType
  <2>3. /\ pc' = [pc EXCEPT ![p] = "notifyNew"] /\ pc[p] # "idle"
        /\ UNCHANGED <<nro, fdt, redis, loc, jobs, told, announced, calls, faults>>
    BY <1>3 DEF Refuse, Go, redis
  <2>4. Handlers'
    BY <1>0, <2>3, HandlersGo DEF Label, NroLabel, FdtLabel
  <2>5. Queue'
    BY <2>3, QueueSame
  <2>. QED
    BY <2>2, <2>3, <2>4, <2>5 DEF TypeInv, Collections, Tallies
<1>4. CASE CommitClaim(p)
  <2>. DEFINE n == loc[p].n
              open == [fdt[c] EXCEPT !.exists = TRUE, !.nro = n]
              fdoc == UpdatePorts(open, 1, PortsTotal[c])
              l == [loc[p] EXCEPT !.news = TRUE]
  <2>1. n \in Nros /\ loc[p].f \in Fdts
    BY <1>0, <1>4 DEF CommitClaim, Go, NroLabel, FdtLabel
  <2>2. UpdateCapacite(nro[n], Gb[c]) \in NroDoc
    BY <1>0, <2>1, UpdateCapaciteType DEF TypeInv, Collections
  <2>3. open \in FdtDoc /\ open.exists = TRUE /\ open.nro = n
    BY <1>0, <2>1 DEF FdtDoc
  <2>4. fdoc \in FdtDoc /\ fdoc.exists = TRUE /\ fdoc.nro = n
    <3>. HIDE DEF open
    <3>. QED
      BY <1>0, <2>3, UpdatePortsType
  <2>5. contract' \in [Contracts -> ContractRow] /\ born' \in [Contracts -> Nat]
    <3>1. contract \in [Contracts -> ContractRow] /\ born \in [Contracts -> Nat]
      BY DEF TypeInv, Collections, Tallies
    <3>2. PutRow(c, "ACTIVE", n, c)
      BY <1>4 DEF CommitClaim
    <3>. QED
      BY <1>0, <2>1, <3>1, <3>2, PutRowType
  <2>6. /\ nro' = [nro EXCEPT ![n] = UpdateCapacite(nro[n], Gb[c])]
        /\ fdt' = [fdt EXCEPT ![c] = fdoc]
        /\ pc' = [pc EXCEPT ![p] = "readLink"] /\ loc' = [loc EXCEPT ![p] = l]
        /\ pc[p] # "idle"
        /\ UNCHANGED <<redis, told, announced, calls, faults>>
    BY <1>4 DEF CommitClaim, Go, Hold
  <2>7. l \in Locals /\ l.n = n /\ l.f = loc[p].f /\ l.job = loc[p].job
    BY <1>0 DEF Locals
  <2>. HIDE DEF n, fdoc, l
  <2>8. Queue' /\ UNCHANGED jobs
    BY <2>6, QueueSame
  <2>9. Handlers'
    <3>1. "readLink" \in Label
      BY DEF Label
    <3>. QED
      BY <1>0, <2>1, <2>6, <2>7, <2>8, <3>1, HandlersStep
  <2>10. Collections'
    BY <1>0, <2>1, <2>2, <2>4, <2>5, <2>6 DEF TypeInv, Collections
  <2>. QED
    BY <2>5, <2>6, <2>8, <2>9, <2>10 DEF TypeInv, Tallies
<1>5. CASE UpsertFdt(p)
  <2>1. /\ pc' = [pc EXCEPT ![p] = "readPorts"] /\ pc[p] = "upsertFdt"
        /\ fdt' = [fdt EXCEPT ![loc[p].f] = [fdt[loc[p].f] EXCEPT !.exists = TRUE, !.nro = loc[p].n]]
        /\ UNCHANGED <<nro, contract, redis, jobs, loc, history, calls, faults>>
    BY <1>5 DEF UpsertFdt, Go, redis
  <2>2. loc[p].n \in Nros /\ loc[p].f \in Fdts
    BY <1>0, <2>1 DEF NroLabel, FdtLabel
  <2>3. fdt[loc[p].f] \in FdtDoc
    BY <2>2 DEF TypeInv, Collections
  <2>4. /\ [fdt[loc[p].f] EXCEPT !.exists = TRUE, !.nro = loc[p].n] \in FdtDoc
        /\ [fdt[loc[p].f] EXCEPT !.exists = TRUE, !.nro = loc[p].n].nro = loc[p].n
    BY <2>2, <2>3 DEF FdtDoc
  <2>5. Handlers'
    BY <2>1, <2>2, HandlersGo DEF Label
  <2>6. Collections'
    BY <2>1, <2>2, <2>4 DEF TypeInv, Collections
  <2>. QED
    BY <2>1, <2>5, <2>6, TalliesSame, QueueSame DEF TypeInv
<1>6. CASE UpsertRow(p)
  <2>. DEFINE l == [loc[p] EXCEPT !.news = TRUE]
  <2>1. loc[p].n \in Nros /\ loc[p].f \in Fdts
    BY <1>0, <1>6 DEF UpsertRow, Go, NroLabel, FdtLabel
  <2>2. contract' \in [Contracts -> ContractRow] /\ born' \in [Contracts -> Nat]
    <3>1. contract \in [Contracts -> ContractRow] /\ born \in [Contracts -> Nat]
      BY DEF TypeInv, Collections, Tallies
    <3>2. PutRow(c, "ACTIVE", loc[p].n, c)
      BY <1>6 DEF UpsertRow
    <3>. QED
      BY <1>0, <2>1, <3>1, <3>2, PutRowType
  <2>3. /\ pc' = [pc EXCEPT ![p] = "readLink"] /\ loc' = [loc EXCEPT ![p] = l]
        /\ pc[p] # "idle"
        /\ UNCHANGED <<nro, fdt, redis, told, announced, calls, faults>>
    BY <1>6 DEF UpsertRow, Go, Hold
  <2>4. l \in Locals /\ l.n = loc[p].n /\ l.f = loc[p].f /\ l.job = loc[p].job
    BY <1>0 DEF Locals
  <2>. HIDE DEF l
  <2>5. Queue' /\ UNCHANGED jobs
    BY <2>3, QueueSame
  <2>6. Handlers'
    <3>1. "readLink" \in Label
      BY DEF Label
    <3>. QED
      BY <1>0, <2>1, <2>3, <2>4, <2>5, <3>1, HandlersStep
  <2>. QED
    BY <2>2, <2>3, <2>5, <2>6 DEF TypeInv, Collections, Tallies
<1>7. CASE ReadLink(p)
  BY <1>7, ReadFdtStep DEF ReadLink, NroLabel, FdtLabel, Label
<1>8. CASE SaveLink(p)
  <2>. DEFINE new == [loc[p].fdoc EXCEPT !.active = @ + 1]
  <2>1. new \in FdtDoc /\ new.exists = loc[p].fdoc.exists /\ new.nro = loc[p].fdoc.nro
    BY <1>0 DEF Locals, FdtDoc
  <2>2. loc[p].n \in Nros /\ loc[p].f \in Fdts
    BY <1>0, <1>8 DEF SaveLink, SaveFdt, Go, NroLabel, FdtLabel
  <2>3. SaveFdt(p, "saveLink", new, "countLink")
    BY <1>8 DEF SaveLink
  <2>. HIDE DEF new
  <2>. QED
    BY <2>1, <2>2, <2>3, SaveFdtStep DEF Label
<1>9. CASE CountLink(p)
  <2>1. PICK k \in Nat : nro' = [nro EXCEPT ![loc[p].n].fdts = k]
    <3>. DEFINE A == {f \in Fdts : fdt[f].exists /\ fdt[f].nro = loc[p].n}
    <3>1. IsFiniteSet(Fdts)
      BY PipelineAssumption, FS_Union DEF Fdts
    <3>2. Cardinality(A) \in Nat
      BY <3>1, FS_Subset, FS_CardinalityType
    <3>. QED
      BY <1>9, <3>2 DEF CountLink
  <2>2. /\ pc' = [pc EXCEPT ![p] = "notifyNew"] /\ pc[p] # "idle"
        /\ UNCHANGED <<fdt, contract, redis, jobs, loc, history, calls, faults>>
    BY <1>9 DEF CountLink, Go, redis
  <2>3. nro' \in [Nros -> NroDoc]
    <3>1. [nro[loc[p].n] EXCEPT !.fdts = k] \in NroDoc
      <4>1. nro[loc[p].n] \in NroDoc
        BY <1>0, <1>9 DEF TypeInv, Collections, CountLink, Go, NroLabel
      <4>. QED
        BY <4>1 DEF NroDoc
    <3>2. nro' = [nro EXCEPT ![loc[p].n] = [nro[loc[p].n] EXCEPT !.fdts = k]]
      BY <2>1
    <3>. QED
      BY <3>1, <3>2 DEF TypeInv, Collections
  <2>4. Handlers'
    BY <2>2, HandlersGo DEF Label, NroLabel, FdtLabel
  <2>. QED
    BY <2>2, <2>3, <2>4, TalliesSame, QueueSame DEF TypeInv, Collections
<1>10. CASE NotifyNew(p)
  <2>1. /\ pc' = [pc EXCEPT ![p] = "broadcast"] /\ pc[p] # "idle"
        /\ told' = [told EXCEPT ![c] = @ + 1]
        /\ UNCHANGED <<db, redis, jobs, loc, born, announced, calls, faults>>
    BY <1>10 DEF NotifyNew, Go, redis
  <2>2. Handlers'
    BY <2>1, HandlersGo DEF Label, NroLabel, FdtLabel
  <2>3. told' \in [Contracts -> Nat]
    <3>1. told \in [Contracts -> Nat] /\ told[c] + 1 \in Nat
      BY <1>0 DEF TypeInv, Tallies
    <3>. QED
      BY <2>1, <3>1
  <2>4. Tallies'
    BY <2>1, <2>3 DEF TypeInv, Tallies
  <2>. QED
    BY <2>1, <2>2, <2>4, CollectionsSame, QueueSame DEF TypeInv
<1>. QED
  BY <1>1, <1>2, <1>3, <1>4, <1>5, <1>6, <1>7, <1>8, <1>9, <1>10 DEF NewSteps

LEMMA ClaimStepsType ==
  ASSUME TypeInv, NEW p \in Procs, ClaimSteps(p)
  PROVE  TypeInv'
<1>0. /\ loc[p] \in Locals /\ Gb[loc[p].c] \in Nat
      /\ (pc[p] \in NroLabel => loc[p].n \in Nros)
      /\ (pc[p] \in FdtLabel => loc[p].f \in Fdts)
  BY PipelineAssumption DEF TypeInv, Handlers, Locals
<1>1. CASE ReadClaim(p)
  BY <1>1, ReadNroStep DEF ReadClaim, NroLabel, FdtLabel, Label
<1>2. CASE SaveClaim(p)
  <2>. DEFINE new == UpdateCapacite(loc[p].doc, Gb[loc[p].c])
              to == IF p = Worker THEN "upsertFdt" ELSE "readPorts"
  <2>1. new \in NroDoc
    BY <1>0, UpdateCapaciteType DEF Locals
  <2>2. SaveNro(p, "saveClaim", new, to) /\ loc[p].f \in Fdts
    BY <1>0, <1>2 DEF SaveClaim, SaveNro, Go, FdtLabel
  <2>3. to \in Label /\ "saveClaim" \in NroLabel
    BY DEF Label, NroLabel
  <2>. HIDE DEF new, to
  <2>. QED
    BY <2>1, <2>2, <2>3, SaveNroStep
<1>3. CASE ReadPorts(p)
  BY <1>3, ReadFdtStep DEF ReadPorts, NroLabel, FdtLabel, Label
<1>4. CASE SavePorts(p)
  <2>. DEFINE new == UpdatePorts(loc[p].fdoc, 1, PortsTotal[loc[p].f])
              to == IF p = Worker THEN "upsertRow" ELSE "insertRow"
  <2>1. SaveFdt(p, "savePorts", new, to) /\ loc[p].f \in Fdts /\ loc[p].n \in Nros
    BY <1>0, <1>4 DEF SavePorts, SaveFdt, Go, FdtLabel, NroLabel
  <2>2. PortsTotal[loc[p].f] \in Nat /\ loc[p].fdoc \in FdtDoc
    BY <1>0, <2>1, PipelineAssumption DEF Locals
  <2>3. new \in FdtDoc /\ new.exists = loc[p].fdoc.exists /\ new.nro = loc[p].fdoc.nro
    BY <2>2, UpdatePortsType
  <2>4. to \in Label /\ "savePorts" \in Label
    BY DEF Label
  <2>. HIDE DEF new, to
  <2>. QED
    BY <2>1, <2>3, <2>4, SaveFdtStep
<1>. QED
  BY <1>1, <1>2, <1>3, <1>4 DEF ClaimSteps

LEMMA CancelStepsType ==
  ASSUME TypeInv, NEW p \in Procs, CancelSteps(p)
  PROVE  TypeInv'
<1>. DEFINE c == loc[p].c
<1>0. /\ loc[p] \in Locals /\ c \in Contracts /\ contract[c] \in ContractRow /\ Gb[c] \in Nat
      /\ loc[p].doc \in NroDoc /\ loc[p].fdoc \in FdtDoc
      /\ loc[p].n \in Nros \cup {NoNro} /\ loc[p].f \in Fdts \cup {NoFdt}
      /\ (p = Worker /\ pc[p] # "idle" => loc[p].job \in 1..Len(jobs))
      /\ (pc[p] \in NroLabel => loc[p].n \in Nros)
      /\ (pc[p] \in FdtLabel => loc[p].f \in Fdts)
  <2>1. loc[p] \in Locals
    BY DEF TypeInv, Handlers
  <2>2. c \in Contracts /\ loc[p].doc \in NroDoc /\ loc[p].fdoc \in FdtDoc
    BY <2>1 DEF Locals
  <2>3. loc[p].n \in Nros \cup {NoNro} /\ loc[p].f \in Fdts \cup {NoFdt}
    BY <2>1 DEF Locals
  <2>4. contract[c] \in ContractRow /\ Gb[c] \in Nat
    BY <2>2, PipelineAssumption DEF TypeInv, Collections
  <2>. QED
    BY <2>1, <2>2, <2>3, <2>4 DEF TypeInv, Handlers
<1>00. AfterCancel(p) \in Label /\ AfterCancel(p) \notin NroLabel /\ AfterCancel(p) \notin FdtLabel
  BY DEF AfterCancel, Label, NroLabel, FdtLabel
<1>000. ASSUME NEW d \in Contracts
        PROVE  Cancelled(d) \in [Contracts -> ContractRow]
  <2>1. contract \in [Contracts -> ContractRow] /\ contract[d] \in ContractRow
    BY DEF TypeInv, Collections
  <2>2. [contract[d] EXCEPT !.status = "CANCELLED"] \in ContractRow
    BY <2>1 DEF ContractRow
  <2>. QED
    BY <2>1, <2>2 DEF Cancelled
<1>1. CASE FindContract(p)
  <2>. DEFINE row == contract[c]
              lab == CASE row.status = "NONE" -> "notifyCancel"
                       [] row.status = "CANCELLED" -> AfterCancel(p)
                       [] OTHER -> IF row.nro = NoNro THEN "plainSave"
                                   ELSE IF Transactional THEN "commitRelease" ELSE "readRelease"
              l == [loc[p] EXCEPT !.row = row, !.n = row.nro, !.f = row.fdt, !.dirty = TRUE]
  <2>1. /\ pc[p] = "findContract" /\ pc' = [pc EXCEPT ![p] = lab] /\ loc' = [loc EXCEPT ![p] = l]
        /\ UNCHANGED <<db, redis, history, calls, faults>>
    BY <1>1 DEF FindContract, Go, Hold
  <2>2. row.nro \in Nros \cup {NoNro} /\ row.fdt \in Fdts \cup {NoFdt}
    BY <1>0 DEF ContractRow
  <2>3. l \in Locals /\ l.n = row.nro /\ l.f = row.fdt /\ l.job = loc[p].job
    BY <1>0, <2>2 DEF Locals
  <2>4. /\ lab \in Label /\ lab \notin FdtLabel
        /\ lab \in NroLabel => row.nro # NoNro
    <3>1. CASE row.status = "NONE"
      BY <3>1 DEF Label, NroLabel, FdtLabel
    <3>2. CASE row.status = "CANCELLED"
      BY <1>00, <3>2
    <3>3. CASE row.status # "NONE" /\ row.status # "CANCELLED"
      <4>1. lab = IF row.nro = NoNro THEN "plainSave"
                  ELSE IF Transactional THEN "commitRelease" ELSE "readRelease"
        BY <3>3
      <4>. QED
        BY <4>1 DEF Label, NroLabel, FdtLabel
    <3>. QED
      BY <3>1, <3>2, <3>3
  <2>5. Collections' /\ Tallies' /\ Queue' /\ UNCHANGED jobs
    BY <2>1, CollectionsSame, TalliesSame, QueueSame
  <2>. HIDE DEF row, lab, l
  <2>6. Handlers'
    BY <1>0, <2>1, <2>2, <2>3, <2>4, <2>5, HandlersStep
  <2>. QED
    BY <2>5, <2>6 DEF TypeInv
<1>2. CASE PlainSave(p) \/ SaveRow(p)
  <2>1. /\ pc' = [pc EXCEPT ![p] = "notifyCancel"] /\ pc[p] # "idle"
        /\ contract' = Cancelled(c)
        /\ UNCHANGED <<nro, fdt, redis, jobs, loc, history, calls, faults>>
    BY <1>2 DEF PlainSave, SaveRow, Go, redis
  <2>2. Handlers'
    BY <2>1, HandlersGo DEF Label, NroLabel, FdtLabel
  <2>3. Collections'
    BY <1>0, <1>000, <2>1 DEF TypeInv, Collections
  <2>. QED
    BY <2>1, <2>2, <2>3, TalliesSame, QueueSame DEF TypeInv
<1>3. CASE CommitRelease(p)
  <2>1. /\ pc' = [pc EXCEPT ![p] = "notifyCancel"] /\ pc[p] # "idle"
        /\ nro' = [nro EXCEPT ![loc[p].n] = UpdateCapacite(nro[loc[p].n], -Gb[c])]
        /\ fdt' = Freed(loc[p].f, contract[c].fdt)
        /\ contract' = IF loc[p].dirty THEN Cancelled(c) ELSE contract
        /\ UNCHANGED <<redis, jobs, loc, history, calls, faults>>
    BY <1>3 DEF CommitRelease, Go, redis
  <2>2. Handlers'
    BY <2>1, HandlersGo DEF Label, NroLabel, FdtLabel
  <2>3. nro' \in [Nros -> NroDoc]
    <3>1. ASSUME NEW n \in Nros
          PROVE  UpdateCapacite(nro[n], -Gb[c]) \in NroDoc
      <4>1. nro[n] \in NroDoc /\ -Gb[c] \in Int
        BY <1>0 DEF TypeInv, Collections
      <4>. QED
        BY <4>1, UpdateCapaciteType
    <3>. QED
      BY <2>1, <3>1 DEF TypeInv, Collections
  <2>4. ASSUME NEW f, NEW link
        PROVE  /\ Freed(f, link) \in [Fdts -> FdtDoc]
               /\ \A g \in Fdts : /\ Freed(f, link)[g].exists = fdt[g].exists
                                  /\ Freed(f, link)[g].nro = fdt[g].nro
    <3>. DEFINE doc(g) == IF g = f /\ fdt[g].exists THEN UpdatePorts(fdt[g], -1, PortsTotal[g])
                          ELSE fdt[g]
                new(g) == IF g = link THEN [doc(g) EXCEPT !.active = AtLeastZero(@ - 1)] ELSE doc(g)
    <3>1. ASSUME NEW g \in Fdts
          PROVE  /\ doc(g) \in FdtDoc /\ doc(g).exists = fdt[g].exists /\ doc(g).nro = fdt[g].nro
      <4>1. fdt[g] \in FdtDoc /\ PortsTotal[g] \in Nat
        BY PipelineAssumption DEF TypeInv, Collections
      <4>. QED
        BY <4>1, UpdatePortsType
    <3>2. ASSUME NEW g \in Fdts
          PROVE  /\ new(g) \in FdtDoc /\ new(g).exists = fdt[g].exists /\ new(g).nro = fdt[g].nro
      <4>. HIDE DEF doc
      <4>1. AtLeastZero(doc(g).active - 1) \in Nat
        BY <3>1 DEF FdtDoc, AtLeastZero
      <4>. QED
        BY <3>1, <4>1 DEF FdtDoc
    <3>3. Freed(f, link) = [g \in Fdts |-> new(g)]
      BY DEF Freed
    <3>. HIDE DEF new
    <3>. QED
      BY <3>2, <3>3
  <2>5. contract' \in [Contracts -> ContractRow]
    BY <1>0, <1>000, <2>1 DEF TypeInv, Collections
  <2>6. Collections'
    BY <2>1, <2>3, <2>4, <2>5 DEF TypeInv, Collections
  <2>. QED
    BY <2>1, <2>2, <2>6, TalliesSame, QueueSame DEF TypeInv
<1>4. CASE ReadRelease(p)
  BY <1>4, ReadNroStep DEF ReadRelease, NroLabel, FdtLabel, Label
<1>5. CASE SaveRelease(p)
  <2>. DEFINE new == UpdateCapacite(loc[p].doc, -Gb[c])
              to == IF loc[p].f = NoFdt THEN "readLinkBack" ELSE "readPortsBack"
  <2>1. -Gb[c] \in Int
    BY <1>0
  <2>2. new \in NroDoc
    BY <1>0, <2>1, UpdateCapaciteType
  <2>3. SaveNro(p, "saveRelease", new, to)
    BY <1>5 DEF SaveRelease
  <2>4. to \in Label /\ "saveRelease" \in NroLabel /\ (to \in FdtLabel => loc[p].f \in Fdts)
    BY <1>0 DEF Label, NroLabel, FdtLabel
  <2>. HIDE DEF new, to
  <2>. QED
    BY <2>2, <2>3, <2>4, SaveNroStep
<1>6. CASE ReadPortsBack(p)
  BY <1>6, ReadFdtStep DEF ReadPortsBack, NroLabel, FdtLabel, Label
<1>7. CASE SavePortsBack(p)
  <2>. DEFINE new == UpdatePorts(loc[p].fdoc, -1, PortsTotal[loc[p].f])
  <2>1. SaveFdt(p, "savePortsBack", new, "readLinkBack")
    BY <1>7 DEF SavePortsBack
  <2>2. CASE loc[p].f \in Fdts
    <3>1. PortsTotal[loc[p].f] \in Nat
      BY <2>2, PipelineAssumption
    <3>2. new \in FdtDoc /\ new.exists = loc[p].fdoc.exists /\ new.nro = loc[p].fdoc.nro
      BY <1>0, <3>1, UpdatePortsType
    <3>3. "savePortsBack" \in Label /\ "readLinkBack" \in Label \ (NroLabel \cup FdtLabel)
      BY DEF Label, NroLabel, FdtLabel
    <3>. HIDE DEF new
    <3>. QED
      BY <2>1, <3>2, <3>3, SaveFdtStep
  <2>3. CASE loc[p].f \notin Fdts
    <3>1. /\ pc' = [pc EXCEPT ![p] = "readLinkBack"] /\ pc[p] # "idle"
          /\ UNCHANGED <<nro, contract, redis, jobs, loc, history, calls, faults>>
      BY <2>1 DEF SaveFdt, Go, redis
    <3>2. fdt' = fdt
      BY <2>1, <2>3 DEF SaveFdt, TypeInv, Collections
    <3>3. Handlers'
      BY <3>1, HandlersGo DEF Label, NroLabel, FdtLabel
    <3>. QED
      BY <3>1, <3>2, <3>3, CollectionsSame, TalliesSame, QueueSame DEF TypeInv, db
  <2>. QED
    BY <2>2, <2>3
<1>8. CASE ReadLinkBack(p)
  <2>. DEFINE row == contract[c]
              linked == Same(loc[p]) /\ row.fdt # NoFdt
              lab == IF linked THEN "saveLinkBack" ELSE "saveRow"
              l == IF linked THEN [loc[p] EXCEPT !.f = row.fdt, !.fdoc = fdt[row.fdt]] ELSE loc[p]
  <2>1. /\ pc[p] = "readLinkBack" /\ pc' = [pc EXCEPT ![p] = lab] /\ loc' = [loc EXCEPT ![p] = l]
        /\ UNCHANGED <<db, redis, history, calls, faults>>
    BY <1>8 DEF ReadLinkBack, Go, Hold
  <2>2. linked => row.fdt \in Fdts
    BY <1>0 DEF ContractRow
  <2>3. linked => fdt[row.fdt] \in FdtDoc
    BY <2>2 DEF TypeInv, Collections
  <2>4. l \in Locals /\ l.job = loc[p].job
    <3>. HIDE DEF row
    <3>. QED
      BY <1>0, <2>2, <2>3 DEF Locals
  <2>5. lab \in Label /\ lab \notin NroLabel /\ lab \notin FdtLabel
    BY DEF Label, NroLabel, FdtLabel
  <2>6. Collections' /\ Tallies' /\ Queue' /\ UNCHANGED jobs
    BY <2>1, CollectionsSame, TalliesSame, QueueSame
  <2>. HIDE DEF lab, l, linked
  <2>7. Handlers'
    BY <1>0, <2>1, <2>4, <2>5, <2>6, HandlersStep
  <2>. QED
    BY <2>6, <2>7 DEF TypeInv
<1>9. CASE SaveLinkBack(p)
  <2>. DEFINE new == [loc[p].fdoc EXCEPT !.active = AtLeastZero(@ - 1)]
  <2>1. AtLeastZero(loc[p].fdoc.active - 1) \in Nat
    BY <1>0 DEF FdtDoc, AtLeastZero
  <2>2. new \in FdtDoc /\ new.exists = loc[p].fdoc.exists /\ new.nro = loc[p].fdoc.nro
    BY <1>0, <2>1 DEF FdtDoc
  <2>3. SaveFdt(p, "saveLinkBack", new, "saveRow")
    BY <1>9 DEF SaveLinkBack
  <2>4. "saveLinkBack" \in Label /\ "saveRow" \in Label \ (NroLabel \cup FdtLabel)
    BY DEF Label, NroLabel, FdtLabel
  <2>. HIDE DEF new
  <2>. QED
    BY <2>2, <2>3, <2>4, SaveFdtStep
<1>10. CASE NotifyCancel(p)
  <2>1. /\ pc' = [pc EXCEPT ![p] = AfterCancel(p)] /\ pc[p] # "idle"
        /\ UNCHANGED <<db, redis, jobs, loc, history, calls, faults>>
    BY <1>10 DEF NotifyCancel, Go, redis
  <2>2. Handlers'
    BY <1>00, <2>1, HandlersGo
  <2>. QED
    BY <2>1, <2>2, CollectionsSame, TalliesSame, QueueSame DEF TypeInv
<1>. QED
  BY <1>1, <1>2, <1>3, <1>4, <1>5, <1>6, <1>7, <1>8, <1>9, <1>10 DEF CancelSteps

LEMMA NroStepsType ==
  ASSUME TypeInv, NEW p \in Procs, NroSteps(p)
  PROVE  TypeInv'
<1>0. /\ loc[p].doc \in NroDoc /\ loc[p].max \in Nat
      /\ (pc[p] \in NroLabel => loc[p].n \in Nros)
  BY DEF TypeInv, Handlers, Locals
<1>1. CASE UpsertNro(p)
  <2>. DEFINE n == loc[p].n
  <2>1. /\ pc' = [pc EXCEPT ![p] = "broadcast"] /\ pc[p] = "upsertNro"
        /\ nro' = [nro EXCEPT ![n] = NewNro(nro[n], loc[p].max)]
        /\ UNCHANGED <<fdt, contract, redis, jobs, loc, history, calls, faults>>
    BY <1>1 DEF UpsertNro, Go, redis
  <2>2. n \in Nros
    BY <1>0, <2>1 DEF NroLabel
  <2>3. NewNro(nro[n], loc[p].max) \in NroDoc
    BY <1>0, <2>2, UpdateNroType DEF TypeInv, Collections
  <2>4. Collections'
    BY <2>1, <2>2, <2>3 DEF TypeInv, Collections
  <2>5. Handlers'
    BY <2>1, HandlersGo DEF Label, NroLabel, FdtLabel
  <2>. QED
    BY <2>1, <2>4, <2>5, TalliesSame, QueueSame DEF TypeInv
<1>2. CASE ReadUpdate(p)
  BY <1>2, ReadNroStep DEF ReadUpdate, NroLabel, FdtLabel, Label
<1>3. CASE SaveUpdate(p)
  <2>. DEFINE new == UpdateNro(loc[p].doc, loc[p].max)
  <2>1. new \in NroDoc /\ SaveNro(p, "saveUpdate", new, "broadcast")
    BY <1>0, <1>3, UpdateNroType DEF SaveUpdate
  <2>2. "saveUpdate" \in NroLabel /\ "broadcast" \in Label \ (NroLabel \cup FdtLabel)
    BY DEF Label, NroLabel, FdtLabel
  <2>. HIDE DEF new
  <2>. QED
    BY <2>1, <2>2, SaveNroStep
<1>4. CASE ReadDelete(p)
  BY <1>4, ReadNroStep DEF ReadDelete, NroLabel, FdtLabel, Label
<1>5. CASE SaveDelete(p)
  <2>. DEFINE new == [loc[p].doc EXCEPT !.status = "DELETED"]
  <2>1. new \in NroDoc /\ SaveNro(p, "saveDelete", new, "broadcast")
    BY <1>0, <1>5 DEF SaveDelete, NroDoc, NroStatus
  <2>2. "saveDelete" \in NroLabel /\ "broadcast" \in Label \ (NroLabel \cup FdtLabel)
    BY DEF Label, NroLabel, FdtLabel
  <2>. HIDE DEF new
  <2>. QED
    BY <2>1, <2>2, SaveNroStep
<1>. QED
  BY <1>1, <1>2, <1>3, <1>4, <1>5 DEF NroSteps

\* The queue: a job that changes its state stays a job of the queue.
LEMMA SetJob ==
  ASSUME TypeInv, NEW id \in 1..Len(jobs), NEW j \in Job, jobs' = [jobs EXCEPT ![id] = j]
  PROVE  jobs' \in Seq(Job) /\ Len(jobs') = Len(jobs)
BY ExceptSeq DEF TypeInv, Queue

LEMMA EnqueueType ==
  ASSUME TypeInv, NEW ev \in Events, Enqueue(ev)
  PROVE  TypeInv'
<1>. DEFINE j == [ev |-> ev, state |-> "wait", made |-> 0, stalls |-> 0]
<1>1. jobs \in Seq(Job) /\ wait \in Seq(1..Len(jobs)) /\ Len(jobs) \in Nat
  BY LenProperties DEF TypeInv, Queue
<1>2. j \in Job
  BY PipelineAssumption DEF Job
<1>3. /\ jobs' = Append(jobs, j) /\ wait' = Append(wait, Len(jobs) + 1)
      /\ UNCHANGED <<db, pc, loc, history, calls, faults>>
  BY DEF Enqueue
<1>. HIDE DEF j
<1>4. jobs' \in Seq(Job) /\ Len(jobs') = Len(jobs) + 1
  BY <1>1, <1>2, <1>3, AppendProperties
<1>5. wait \in Seq(1..Len(jobs'))
  <2>1. 1..Len(jobs) \subseteq 1..Len(jobs')
    BY <1>1, <1>4
  <2>. QED
    BY <1>1, <2>1, SeqMonotonic
<1>6. wait' \in Seq(1..Len(jobs'))
  <2>1. Len(jobs) + 1 \in 1..Len(jobs')
    BY <1>1, <1>4
  <2>. QED
    BY <1>3, <1>5, <2>1, AppendProperties
<1>7. Handlers'
  BY <1>1, <1>3, <1>4 DEF TypeInv, Handlers
<1>8. Queue'
  BY <1>4, <1>6 DEF Queue
<1>. QED
  BY <1>3, <1>7, <1>8, CollectionsSame, TalliesSame DEF TypeInv

LEMMA TakeJobType ==
  ASSUME TypeInv, TakeJob
  PROVE  TypeInv'
<1>. DEFINE id == Head(wait)
            ev == jobs[id].ev
            l == [Blank EXCEPT !.job = id, !.c = ev.c, !.n = ev.n, !.max = ev.max]
            j == [jobs[id] EXCEPT !.state = "active"]
<1>1. jobs \in Seq(Job) /\ wait \in Seq(1..Len(jobs)) /\ wait # <<>> /\ Len(jobs) \in Nat
  BY LenProperties DEF TypeInv, Queue, TakeJob
<1>2. id \in 1..Len(jobs) /\ Tail(wait) \in Seq(1..Len(jobs))
  BY <1>1, HeadTailProperties
<1>3. jobs[id] \in Job
  BY <1>1, <1>2, ElementOfSeq
<1>4. ev \in Event /\ j \in Job
  BY <1>3 DEF Job
<1>5. ev.c \in Contracts /\ ev.n \in Nros /\ ev.max \in Nat /\ ev.type \in EventType
  BY <1>4 DEF Event
<1>6. l \in Locals /\ l.n = ev.n /\ l.job = id
  <2>. HIDE DEF ev, id
  <2>1. id \in Nat
    BY <1>1, <1>2
  <2>. QED
    BY <1>5, <2>1, BlankType DEF Locals
<1>7. Entry(ev.type) \in Label /\ Entry(ev.type) \notin FdtLabel
  BY <1>5 DEF Entry, EventType, Label, FdtLabel
<1>8. /\ pc' = [pc EXCEPT ![Worker] = Entry(ev.type)] /\ loc' = [loc EXCEPT ![Worker] = l]
      /\ jobs' = [jobs EXCEPT ![id] = j] /\ wait' = Tail(wait)
      /\ UNCHANGED <<db, history, calls, faults>>
  BY DEF TakeJob, Go, Hold
<1>. HIDE DEF l, j, ev, id
<1>9. jobs' \in Seq(Job) /\ Len(jobs') = Len(jobs)
  BY <1>2, <1>4, <1>8, SetJob
<1>10. Queue'
  BY <1>2, <1>8, <1>9 DEF Queue
<1>11. Handlers'
  BY <1>2, <1>5, <1>6, <1>7, <1>8, <1>9, HandlersStep DEF Procs
<1>. QED
  BY <1>8, <1>10, <1>11, CollectionsSame, TalliesSame DEF TypeInv

LEMMA BroadcastType ==
  ASSUME TypeInv, Broadcast
  PROVE  TypeInv'
<1>. DEFINE c == loc[Worker].c
<1>1. /\ pc' = [pc EXCEPT ![Worker] = "complete"] /\ pc[Worker] # "idle"
      /\ announced' = [announced EXCEPT ![c] = announced[c] + IF loc[Worker].news THEN 1 ELSE 0]
      /\ UNCHANGED <<db, redis, jobs, loc, born, told, calls, faults>>
  BY DEF Broadcast, Go, redis
<1>2. Handlers'
  BY <1>1, HandlersGo DEF Label, NroLabel, FdtLabel, Procs
<1>3. c \in Contracts
  BY DEF TypeInv, Handlers, Procs, Locals
<1>4. /\ announced \in [Contracts -> Nat]
      /\ announced[c] + (IF loc[Worker].news THEN 1 ELSE 0) \in Nat
  BY <1>3 DEF TypeInv, Tallies
<1>5. announced' \in [Contracts -> Nat]
  BY <1>1, <1>4
<1>6. Tallies'
  BY <1>1, <1>5 DEF TypeInv, Tallies
<1>. QED
  BY <1>1, <1>2, <1>6, CollectionsSame, QueueSame DEF TypeInv

\* A handler that ends holds nothing.
LEMMA FinishHandlers ==
  ASSUME TypeInv, NEW p \in Procs, Finish(p), Len(jobs') = Len(jobs)
  PROVE  Handlers'
<1>1. pc' = [pc EXCEPT ![p] = "idle"] /\ loc' = [loc EXCEPT ![p] = Blank]
  BY DEF Finish
<1>2. "idle" \in Label /\ "idle" \notin NroLabel /\ "idle" \notin FdtLabel
  BY DEF Label, NroLabel, FdtLabel
<1>. QED
  BY <1>1, <1>2, BlankType, HandlersStep

LEMMA CompleteType ==
  ASSUME TypeInv, Complete
  PROVE  TypeInv'
<1>. DEFINE id == loc[Worker].job
            j == [jobs[id] EXCEPT !.state = "completed"]
<1>1. id \in 1..Len(jobs)
  BY DEF TypeInv, Handlers, Complete
<1>2. jobs[id] \in Job
  BY <1>1, ElementOfSeq DEF TypeInv, Queue
<1>3. j \in Job
  BY <1>2 DEF Job
<1>4. Finish(Worker) /\ jobs' = [jobs EXCEPT ![id] = j] /\ UNCHANGED <<db, wait, history, calls, faults>>
  BY DEF Complete
<1>. HIDE DEF id, j
<1>5. jobs' \in Seq(Job) /\ Len(jobs') = Len(jobs)
  BY <1>1, <1>3, <1>4, SetJob
<1>6. Handlers' /\ Queue'
  BY <1>4, <1>5, FinishHandlers DEF Procs, TypeInv, Queue
<1>. QED
  BY <1>4, <1>6, CollectionsSame, TalliesSame DEF TypeInv

LEMMA PromoteType ==
  ASSUME TypeInv, NEW id \in DOMAIN jobs, Promote(id)
  PROVE  TypeInv'
<1>. DEFINE j == [jobs[id] EXCEPT !.state = "wait"]
<1>1. id \in 1..Len(jobs)
  BY LenProperties DEF TypeInv, Queue
<1>2. jobs[id] \in Job
  BY <1>1, ElementOfSeq DEF TypeInv, Queue
<1>3. j \in Job
  BY <1>2 DEF Job
<1>4. /\ jobs' = [jobs EXCEPT ![id] = j] /\ wait' = Append(wait, id)
      /\ UNCHANGED <<db, pc, loc, history, calls, faults>>
  BY DEF Promote
<1>. HIDE DEF j
<1>5. jobs' \in Seq(Job) /\ Len(jobs') = Len(jobs)
  BY <1>1, <1>3, <1>4, SetJob
<1>6. wait' \in Seq(1..Len(jobs'))
  BY <1>1, <1>4, <1>5, AppendProperties DEF TypeInv, Queue
<1>7. Handlers'
  BY <1>4, <1>5 DEF TypeInv, Handlers
<1>. QED
  BY <1>4, <1>5, <1>6, <1>7, CollectionsSame, TalliesSame DEF TypeInv, Queue

LEMMA RecoverType ==
  ASSUME TypeInv, NEW id \in DOMAIN jobs, Recover(id)
  PROVE  TypeInv'
<1>. DEFINE again == jobs[id].stalls = 0
            state == IF again THEN "wait" ELSE "failed"
            j == [jobs[id] EXCEPT !.state = state, !.stalls = 1]
<1>1. id \in 1..Len(jobs)
  BY LenProperties DEF TypeInv, Queue
<1>2. jobs[id] \in Job
  BY <1>1, ElementOfSeq DEF TypeInv, Queue
<1>3. state \in {"wait", "failed"}
  OBVIOUS
<1>4. /\ jobs' = [jobs EXCEPT ![id] = j]
      /\ wait' = IF again THEN <<id>> \o wait ELSE wait
      /\ UNCHANGED <<db, pc, loc, history, calls, faults>>
  BY DEF Recover
<1>5. j \in Job
  <2>. HIDE DEF state
  <2>. QED
    BY <1>2, <1>3 DEF Job
<1>. HIDE DEF j, again
<1>6. jobs' \in Seq(Job) /\ Len(jobs') = Len(jobs)
  BY <1>1, <1>4, <1>5, SetJob
<1>7. <<id>> \o wait \in Seq(1..Len(jobs)) /\ wait \in Seq(1..Len(jobs))
  <2>1. <<id>> \in Seq(1..Len(jobs))
    BY <1>1
  <2>. QED
    BY <2>1, ConcatProperties DEF TypeInv, Queue
<1>8. Queue'
  BY <1>4, <1>6, <1>7 DEF Queue
<1>9. Handlers'
  BY <1>4, <1>6 DEF TypeInv, Handlers
<1>. QED
  BY <1>4, <1>8, <1>9, CollectionsSame, TalliesSame DEF TypeInv

\* A handler that throws: the worker's job is set to be retried, or failed.
LEMMA ThrowType ==
  ASSUME TypeInv, NEW p \in Procs, pc[p] # "idle", Throw(p)
  PROVE  Collections' /\ Queue' /\ Handlers' /\ UNCHANGED <<history, calls>>
<1>. DEFINE id == loc[p].job
            made == jobs[id].made + 1
            state == IF made < MaxAttempts THEN "delayed" ELSE "failed"
            j == [jobs[id] EXCEPT !.made = made, !.state = state]
<1>1. /\ Finish(p) /\ UNCHANGED <<db, wait, history, calls>>
      /\ jobs' = IF p = Worker THEN [jobs EXCEPT ![id] = j] ELSE jobs
  BY DEF Throw
<1>2. jobs' \in Seq(Job) /\ Len(jobs') = Len(jobs)
  <2>1. CASE p = Worker
    <3>1. id \in 1..Len(jobs)
      BY <2>1 DEF TypeInv, Handlers
    <3>2. jobs[id] \in Job
      BY <3>1, ElementOfSeq DEF TypeInv, Queue
    <3>3. made \in Nat /\ state \in {"delayed", "failed"}
      BY <3>2 DEF Job
    <3>4. j \in Job
      <4>. HIDE DEF made, state, id
      <4>. QED
        BY <3>2, <3>3 DEF Job
    <3>. HIDE DEF j, id
    <3>. QED
      BY <1>1, <2>1, <3>1, <3>4, SetJob
  <2>2. CASE p # Worker
    BY <1>1, <2>2 DEF TypeInv, Queue
  <2>. QED
    BY <2>1, <2>2
<1>3. Handlers'
  BY <1>1, <1>2, FinishHandlers
<1>4. Collections'
  BY <1>1, CollectionsSame
<1>. QED
  BY <1>1, <1>2, <1>3, <1>4 DEF TypeInv, Queue

LEMMA WriteRefusedType ==
  ASSUME TypeInv, NEW p \in Procs, WriteRefused(p)
  PROVE  TypeInv'
<1>1. pc[p] # "idle" /\ Throw(p) /\ UNCHANGED faults
  BY DEF WriteRefused, Refused
<1>2. Collections' /\ Queue' /\ Handlers' /\ UNCHANGED <<history, calls>>
  BY <1>1, ThrowType
<1>. QED
  BY <1>1, <1>2, TalliesSame DEF TypeInv

LEMMA FailureType ==
  ASSUME TypeInv, Failure
  PROVE  TypeInv'
<1>0. ASSUME faults < MaxFaults, faults' = faults + 1, UNCHANGED <<history, calls>>
      PROVE  Tallies'
  BY <1>0, PipelineAssumption DEF TypeInv, Tallies, history
<1>1. CASE Crash
  <2>1. /\ pc' = [p \in Procs |-> "idle"] /\ loc' = [p \in Procs |-> Blank]
        /\ UNCHANGED <<db, redis, history, calls>>
        /\ faults < MaxFaults /\ faults' = faults + 1
    BY <1>1 DEF Crash
  <2>2. Handlers'
    BY <2>1, BlankType DEF Handlers, Label, NroLabel, FdtLabel, Procs
  <2>. QED
    BY <1>0, <2>1, <2>2, CollectionsSame, QueueSame DEF TypeInv
<1>2. ASSUME NEW p \in Procs, CallFails(p)
      PROVE  TypeInv'
  <2>1. pc[p] # "idle" /\ faults < MaxFaults /\ faults' = faults + 1
    BY <1>2 DEF CallFails
  <2>2. CASE pc[p] \in {"readLink", "saveLink", "countLink"}
    <3>1. /\ pc' = [pc EXCEPT ![p] = "notifyNew"]
          /\ UNCHANGED <<db, redis, jobs, loc, history, calls>>
      BY <1>2, <2>2 DEF CallFails, redis
    <3>2. Handlers'
      BY <2>1, <3>1, HandlersGo DEF Label, NroLabel, FdtLabel
    <3>. QED
      BY <1>0, <2>1, <3>1, <3>2, CollectionsSame, QueueSame DEF TypeInv
  <2>3. CASE pc[p] \notin {"readLink", "saveLink", "countLink"}
    <3>1. Throw(p)
      BY <1>2, <2>3 DEF CallFails
    <3>2. Collections' /\ Queue' /\ Handlers' /\ UNCHANGED <<history, calls>>
      BY <2>1, <3>1, ThrowType
    <3>. QED
      BY <1>0, <2>1, <3>2 DEF TypeInv
  <2>. QED
    BY <2>2, <2>3
<1>3. ASSUME NEW p \in Procs, AbortCommit(p)
      PROVE  TypeInv'
  <2>. DEFINE l == [loc[p] EXCEPT !.dirty = FALSE]
  <2>1. /\ pc[p] = "commitRelease" /\ loc' = [loc EXCEPT ![p] = l]
        /\ faults < MaxFaults /\ faults' = faults + 1
        /\ UNCHANGED <<db, redis, pc, history, calls>>
    BY <1>3 DEF AbortCommit, Hold
  <2>2. loc[p] \in Locals /\ pc' = [pc EXCEPT ![p] = pc[p]] /\ pc[p] \in Label
    BY <2>1 DEF TypeInv, Handlers
  <2>3. l \in Locals /\ l.n = loc[p].n /\ l.f = loc[p].f /\ l.job = loc[p].job
    BY <2>2 DEF Locals
  <2>4. /\ pc[p] \in NroLabel => loc[p].n \in Nros
        /\ pc[p] \in FdtLabel => loc[p].f \in Fdts
        /\ p = Worker => loc[p].job \in 1..Len(jobs)
    BY <2>1 DEF TypeInv, Handlers
  <2>5. UNCHANGED jobs
    BY <2>1 DEF redis
  <2>. HIDE DEF l
  <2>6. Handlers'
    BY <2>1, <2>2, <2>3, <2>4, <2>5, HandlersStep
  <2>. QED
    BY <1>0, <2>1, <2>6, CollectionsSame, QueueSame DEF TypeInv
<1>. QED
  BY <1>1, <1>2, <1>3 DEF Failure

LEMMA CallType ==
  ASSUME TypeInv, NEW r \in Requests, NEW op, NEW c \in Contracts,
         NEW label \in {"readFdt", "findById"}, Call(r, op, c, label)
  PROVE  TypeInv'
<1>. DEFINE l == [Blank EXCEPT !.c = c]
<1>1. /\ pc' = [pc EXCEPT ![r] = label] /\ loc' = [loc EXCEPT ![r] = l]
      /\ calls < MaxCalls /\ calls' = calls + 1
      /\ UNCHANGED <<db, redis, jobs, history, faults>>
  BY DEF Call, Go, Hold, redis
<1>2. l \in Locals
  BY BlankType DEF Locals
<1>3. label \in Label /\ label \notin NroLabel /\ label \notin FdtLabel
  BY DEF Label, NroLabel, FdtLabel
<1>4. r \in Procs /\ r # Worker
  BY PipelineAssumption DEF Procs
<1>. HIDE DEF l
<1>5. Handlers'
  BY <1>1, <1>2, <1>3, <1>4, HandlersStep
<1>6. Tallies'
  BY <1>1, PipelineAssumption DEF TypeInv, Tallies, history
<1>. QED
  BY <1>1, <1>5, <1>6, CollectionsSame, QueueSame DEF TypeInv

LEMMA RestStepsType ==
  ASSUME TypeInv, NEW r \in Requests, RestSteps(r)
  PROVE  TypeInv'
<1>. DEFINE c == loc[r].c
<1>0. /\ r \in Procs /\ r # Worker /\ loc[r] \in Locals /\ c \in Contracts
      /\ contract[c] \in ContractRow
      /\ loc[r].n \in Nros \cup {NoNro} /\ loc[r].f \in Fdts \cup {NoFdt}
  BY PipelineAssumption DEF TypeInv, Handlers, Procs, Locals, Collections
<1>1. ASSUME Finish(r), UNCHANGED <<db, redis, history, calls, faults>>
      PROVE  TypeInv'
  BY <1>0, <1>1, FinishHandlers, CollectionsSame, TalliesSame, QueueSame DEF TypeInv
<1>2. CASE ResolveParents(r)
  <2>1. ASSUME NEW f \in Fdts, fdt[f].exists, Go(r, "readFdt", "readClaim"),
               Hold(r, [loc[r] EXCEPT !.f = f, !.n = fdt[f].nro]),
               UNCHANGED <<db, redis, history, calls, faults>>
        PROVE  TypeInv'
    <3>. DEFINE n == fdt[f].nro
                l == [loc[r] EXCEPT !.f = f, !.n = n]
    <3>1. n \in Nros
      BY <2>1 DEF TypeInv, Collections
    <3>2. l \in Locals /\ l.n = n /\ l.f = f
      <4>. HIDE DEF n
      <4>. QED
        BY <1>0, <3>1 DEF Locals
    <3>3. pc' = [pc EXCEPT ![r] = "readClaim"] /\ loc' = [loc EXCEPT ![r] = l]
      BY <2>1 DEF Go, Hold
    <3>4. Collections' /\ Tallies' /\ Queue' /\ UNCHANGED jobs
      BY <2>1, CollectionsSame, TalliesSame, QueueSame
    <3>5. "readClaim" \in Label
      BY DEF Label
    <3>. HIDE DEF l, n
    <3>6. Handlers'
      BY <1>0, <3>1, <3>2, <3>3, <3>4, <3>5, HandlersStep
    <3>. QED
      BY <3>4, <3>6 DEF TypeInv
  <2>. QED
    BY <1>1, <1>2, <2>1 DEF ResolveParents
<1>3. CASE InsertRow(r)
  <2>1. /\ Finish(r) /\ PutRow(c, "ACTIVE", loc[r].n, loc[r].f)
        /\ UNCHANGED <<nro, fdt, redis, jobs, told, announced, calls, faults>>
    BY <1>3 DEF InsertRow, redis
  <2>2. contract' \in [Contracts -> ContractRow] /\ born' \in [Contracts -> Nat]
    <3>1. contract \in [Contracts -> ContractRow] /\ born \in [Contracts -> Nat]
      BY DEF TypeInv, Collections, Tallies
    <3>. QED
      BY <1>0, <2>1, <3>1, PutRowType
  <2>3. Handlers' /\ Queue'
    BY <1>0, <2>1, FinishHandlers, QueueSame
  <2>. QED
    BY <2>1, <2>2, <2>3 DEF TypeInv, Collections, Tallies
<1>4. CASE FindById(r)
  <2>. DEFINE l == [loc[r] EXCEPT !.target = contract[c].oid]
  <2>1. CASE Exists(c)
    <3>1. /\ pc' = [pc EXCEPT ![r] = "findContract"] /\ loc' = [loc EXCEPT ![r] = l]
          /\ UNCHANGED <<db, redis, history, calls, faults>>
      BY <1>4, <2>1 DEF FindById, Go, Hold
    <3>2. contract[c].oid \in Nat
      BY <1>0 DEF ContractRow
    <3>3. l \in Locals
      BY <1>0, <3>2 DEF Locals
    <3>4. "findContract" \in Label /\ "findContract" \notin NroLabel /\ "findContract" \notin FdtLabel
      BY DEF Label, NroLabel, FdtLabel
    <3>5. Collections' /\ Tallies' /\ Queue' /\ UNCHANGED jobs
      BY <3>1, CollectionsSame, TalliesSame, QueueSame
    <3>. HIDE DEF l
    <3>6. Handlers'
      BY <1>0, <3>1, <3>3, <3>4, <3>5, HandlersStep
    <3>. QED
      BY <3>5, <3>6 DEF TypeInv
  <2>2. CASE ~Exists(c)
    BY <1>1, <1>4, <2>2 DEF FindById
  <2>. QED
    BY <2>1, <2>2
<1>5. CASE Erase(r)
  <2>1. /\ Finish(r)
        /\ contract' = IF contract[c].oid = loc[r].target
                       THEN [contract EXCEPT ![c] = NoContract] ELSE contract
        /\ UNCHANGED <<nro, fdt, redis, jobs, history, calls, faults>>
    BY <1>5 DEF Erase, redis
  <2>2. NoContract \in ContractRow
    BY DEF NoContract, ContractRow
  <2>3. contract' \in [Contracts -> ContractRow]
    BY <2>1, <2>2 DEF TypeInv, Collections
  <2>4. Handlers' /\ Queue' /\ Tallies'
    BY <1>0, <2>1, FinishHandlers, QueueSame, TalliesSame
  <2>. QED
    BY <2>1, <2>3, <2>4 DEF TypeInv, Collections
<1>. QED
  BY <1>2, <1>3, <1>4, <1>5 DEF RestSteps

\* What an administrator sets on an NRO leaves its load and its count of FDTs alone.
LEMMA EditedType ==
  ASSUME NEW doc \in NroDoc, NEW e \in Edit
  PROVE  Edited(doc, e) \in NroDoc /\ Edited(doc, e).load = doc.load
<1>1. DOMAIN doc = {"load", "max", "status", "fdts"}
  BY DEF NroDoc
<1>2. /\ DOMAIN e \subseteq {"max", "status"}
      /\ "max" \in DOMAIN e => e["max"] \in Nat
      /\ "status" \in DOMAIN e => e["status"] \in NroStatus
  <2>1. CASE e \in [max : Nat]
    BY <2>1
  <2>2. CASE e \in [status : NroStatus]
    BY <2>2
  <2>3. CASE e \in [max : Nat, status : NroStatus]
    BY <2>3
  <2>. QED
    BY <2>1, <2>2, <2>3 DEF Edit
<1>. DEFINE d == Edited(doc, e)
<1>3. d = [load |-> d.load, max |-> d.max, status |-> d.status, fdts |-> d.fdts]
  BY <1>1 DEF Edited
<1>4. d.load = doc.load /\ d.fdts = doc.fdts
  BY <1>1, <1>2 DEF Edited
<1>5. d.max \in Nat /\ d.status \in NroStatus
  BY <1>1, <1>2 DEF Edited, NroDoc
<1>. QED
  BY <1>3, <1>4, <1>5 DEF NroDoc

\* PATCH and DELETE /nro write the capacity and the status of one NRO, and touch neither
\* contracts nor the handlers of others.
LEMMA EditStep ==
  ASSUME TypeInv, NEW r \in Requests, EditSteps(r)
  PROVE  /\ TypeInv'
         /\ UNCHANGED <<fdt, contract, redis, history, faults>>
         /\ \A n \in Nros : nro'[n].load = nro[n].load
         /\ r \in Procs /\ r # Worker
         /\ pc[r] \in {"idle", "saveEdit"} /\ pc'[r] \in {"idle", "saveEdit"}
         /\ pc' = [pc EXCEPT ![r] = pc'[r]] /\ loc' = [loc EXCEPT ![r] = loc'[r]]
<1>0. /\ r \in Procs /\ r # Worker /\ loc[r] \in Locals /\ pc \in [Procs -> Label]
      /\ loc \in [Procs -> Locals] /\ nro \in [Nros -> NroDoc]
  BY PipelineAssumption DEF TypeInv, Handlers, Procs, Collections
<1>1. ASSUME NEW n \in Nros, EditNro(r, n)
      PROVE  /\ TypeInv' /\ UNCHANGED <<db, redis, history, faults>>
             /\ pc[r] = "idle" /\ pc' = [pc EXCEPT ![r] = "saveEdit"]
             /\ \E l : loc' = [loc EXCEPT ![r] = l]
  <2>. DEFINE l == [Blank EXCEPT !.n = n, !.doc = nro[n]]
  <2>1. /\ pc[r] = "idle" /\ pc' = [pc EXCEPT ![r] = "saveEdit"] /\ loc' = [loc EXCEPT ![r] = l]
        /\ calls < MaxCalls /\ calls' = calls + 1 /\ UNCHANGED <<db, redis, history, faults>>
    BY <1>1 DEF EditNro, Go, Hold
  <2>2. l \in Locals /\ l.n = n
    BY <1>0, BlankType DEF Locals
  <2>3. "saveEdit" \in Label /\ "saveEdit" \notin FdtLabel
    BY DEF Label, FdtLabel
  <2>. HIDE DEF l
  <2>4. Collections' /\ Queue' /\ UNCHANGED jobs
    BY <2>1, CollectionsSame, QueueSame
  <2>5. Handlers'
    BY <1>0, <2>1, <2>2, <2>3, <2>4, HandlersStep
  <2>6. Tallies'
    BY <2>1, PipelineAssumption DEF TypeInv, Tallies, history
  <2>. QED
    BY <2>1, <2>4, <2>5, <2>6 DEF TypeInv
<1>2. CASE SaveEdit(r)
  <2>. DEFINE n == loc[r].n
  <2>1. PICK e \in Edits :
          nro' = [nro EXCEPT ![n] = SaveModified(nro[n], loc[r].doc, Edited(loc[r].doc, e))]
    BY <1>2 DEF SaveEdit
  <2>2. /\ pc[r] = "saveEdit" /\ Finish(r)
        /\ UNCHANGED <<fdt, contract, redis, history, calls, faults>>
    BY <1>2 DEF SaveEdit
  <2>3. n \in Nros /\ nro[n] \in NroDoc /\ loc[r].doc \in NroDoc /\ e \in Edit
    BY <1>0, <2>2, PipelineAssumption DEF TypeInv, Handlers, NroLabel, Locals
  <2>. DEFINE new == Edited(loc[r].doc, e)
              doc == SaveModified(nro[n], loc[r].doc, new)
  <2>4. new \in NroDoc /\ new.load = loc[r].doc.load
    BY <2>3, EditedType
  <2>. HIDE DEF new
  <2>5. doc \in NroDoc
    BY <2>3, <2>4, SaveNroType
  <2>6. doc.load = nro[n].load
    BY <2>3, <2>4 DEF SaveModified, NroDoc
  <2>7. nro' = [nro EXCEPT ![n] = doc]
    BY <2>1 DEF new
  <2>. HIDE DEF doc, n
  <2>8. nro' \in [Nros -> NroDoc] /\ \A m \in Nros : nro'[m].load = nro[m].load
    BY <1>0, <2>3, <2>5, <2>6, <2>7
  <2>9. Collections'
    BY <2>2, <2>8 DEF TypeInv, Collections
  <2>10. Tallies' /\ Queue' /\ UNCHANGED jobs
    BY <2>2, TalliesSame, QueueSame
  <2>11. Handlers'
    BY <1>0, <2>2, <2>10, FinishHandlers
  <2>12. pc' = [pc EXCEPT ![r] = "idle"] /\ loc' = [loc EXCEPT ![r] = Blank]
    BY <2>2 DEF Finish
  <2>13. pc'[r] = "idle" /\ loc'[r] = Blank
    BY <1>0, <2>12
  <2>. QED
    BY <1>0, <2>2, <2>8, <2>9, <2>10, <2>11, <2>12, <2>13 DEF TypeInv
<1>3. ASSUME NEW n \in Nros, EditNro(r, n)
      PROVE  /\ TypeInv'
             /\ UNCHANGED <<fdt, contract, redis, history, faults>>
             /\ \A m \in Nros : nro'[m].load = nro[m].load
             /\ r \in Procs /\ r # Worker
             /\ pc[r] \in {"idle", "saveEdit"} /\ pc'[r] \in {"idle", "saveEdit"}
             /\ pc' = [pc EXCEPT ![r] = pc'[r]] /\ loc' = [loc EXCEPT ![r] = loc'[r]]
  <2>1. PICK l : loc' = [loc EXCEPT ![r] = l]
    BY <1>1, <1>3
  <2>2. loc'[r] = l /\ pc'[r] = "saveEdit"
    BY <1>0, <1>1, <1>3, <2>1
  <2>. QED
    BY <1>0, <1>1, <1>3, <2>1, <2>2 DEF db
<1>. QED
  BY <1>2, <1>3 DEF EditSteps

-----------------------------------------------------------------------------
LEMMA TypeInvInit == Init => TypeInv
<1>. SUFFICES ASSUME Init PROVE TypeInv
  OBVIOUS
<1>1. nro \in [Nros -> NroDoc]
  BY PipelineAssumption DEF Init, NroDoc, NroStatus
<1>2. fdt \in [Fdts -> FdtDoc] /\ \A f \in Fdts : fdt[f].exists => fdt[f].nro \in Nros
  <2>. SUFFICES ASSUME NEW f \in Fdts
                PROVE  fdt[f] \in FdtDoc /\ (fdt[f].exists => fdt[f].nro \in Nros)
    BY DEF Init
  <2>1. CASE f \in ManualFdts
    <3>1. Home[f] \in Nros
      BY <2>1, PipelineAssumption
    <3>2. fdt[f] = [exists |-> TRUE, nro |-> Home[f], ports |-> 0, active |-> 0]
      BY <2>1 DEF Init, NoFdtDoc
    <3>. QED
      BY <3>1, <3>2 DEF FdtDoc
  <2>2. CASE f \notin ManualFdts
    BY <2>2 DEF Init, NoFdtDoc, FdtDoc
  <2>. QED
    BY <2>1, <2>2
<1>3. contract \in [Contracts -> ContractRow]
  BY DEF Init, NoContract, ContractRow
<1>4. Tallies
  <2>1. /\ born = [c \in Contracts |-> 0] /\ told = born /\ announced = born
        /\ calls = 0 /\ faults = 0
    BY DEF Init
  <2>2. born \in [Contracts -> Nat] /\ 0 \in 0..MaxCalls /\ 0 \in 0..MaxFaults
    BY <2>1, PipelineAssumption
  <2>. QED
    BY <2>1, <2>2 DEF Tallies
<1>5. Queue
  <2>1. jobs = <<>> /\ wait = <<>>
    BY DEF Init
  <2>. QED
    BY <2>1, EmptySeq DEF Queue
<1>6. Handlers
  BY BlankType DEF Init, Handlers, Label, NroLabel, FdtLabel, Procs
<1>. QED
  BY <1>1, <1>2, <1>3, <1>4, <1>5, <1>6 DEF TypeInv, Collections

LEMMA TypeInvNext == TypeInv /\ [Next]_vars => TypeInv'
<1>. SUFFICES ASSUME TypeInv, [Next]_vars PROVE TypeInv'
  OBVIOUS
<1>0. Worker \in Procs /\ Requests \subseteq Procs
  BY DEF Procs
<1>1. CASE WorkerStep
  BY <1>0, <1>1, TakeJobType, BroadcastType, CompleteType, NewStepsType, ClaimStepsType,
     CancelStepsType, NroStepsType, WriteRefusedType DEF WorkerStep
<1>2. ASSUME NEW r \in Requests, RequestStep(r)
      PROVE  TypeInv'
  <2>1. ASSUME NEW c \in Contracts, PostContract(r, c) \/ DeleteContract(r, c)
        PROVE  TypeInv'
    BY <2>1, CallType DEF PostContract, DeleteContract
  <2>. QED
    BY <1>0, <1>2, <2>1, RestStepsType, EditStep, ClaimStepsType, CancelStepsType, WriteRefusedType
    DEF RequestStep
<1>3. ASSUME NEW ev \in Events, Enqueue(ev)
      PROVE  TypeInv'
  BY <1>3, EnqueueType
<1>4. ASSUME NEW id \in DOMAIN jobs, Promote(id) \/ Recover(id)
      PROVE  TypeInv'
  BY <1>4, PromoteType, RecoverType
<1>5. CASE Failure
  BY <1>5, FailureType
<1>6. CASE UNCHANGED vars
  BY <1>6 DEF vars, TypeInv, Collections, Tallies, Queue, Handlers
<1>. QED
  BY <1>1, <1>2, <1>3, <1>4, <1>5, <1>6 DEF Next, AllDone

THEOREM TypeInvCorrect == Spec => []TypeInv
<1>. QED
  BY TypeInvInit, TypeInvNext, PTL DEF Spec

\* Every document, job and handler keeps its shape, and loads, ports and clients are
\* never negative, whatever the interleaving and the failures.
THEOREM TypeCorrect == Spec => []TypeOK
<1>1. TypeInv => TypeOK
  <2>. SUFFICES ASSUME TypeInv PROVE TypeOK
    OBVIOUS
  <2>1. wait \in Seq(Nat)
    <3>1. wait \in Seq(1..Len(jobs)) /\ 1..Len(jobs) \subseteq Nat
      BY DEF TypeInv, Queue
    <3>. QED
      BY <3>1, SeqMonotonic
  <2>. QED
    BY <2>1 DEF TypeInv, Collections, Tallies, Queue, Handlers, TypeOK
<1>. QED
  BY <1>1, TypeInvCorrect, PTL

-----------------------------------------------------------------------------
(* A contract document is notified and announced at most once.             *)

\* Where the worker prepares a row, and where it has written one.
Preparing == {"resolveNro", "refuse", "commitClaim", "readClaim", "saveClaim", "upsertFdt",
              "readPorts", "savePorts", "upsertRow"}
Linking == {"readLink", "saveLink", "countLink", "notifyNew"}

\* A row that appears while the worker prepares one is a document not notified yet, the
\* document it has written is one more than those notified, and the result of its job
\* carries new_contract only after that.
OnceInv ==
  LET l == loc[Worker] IN
  /\ AnnouncedOnce
  /\ pc[Worker] \in Preparing /\ Exists(l.c) => told[l.c] < born[l.c]
  /\ pc[Worker] \in Linking => told[l.c] < born[l.c]
  /\ l.news => pc[Worker] \in Linking \cup {"broadcast", "complete"}
  /\ l.news /\ pc[Worker] = "broadcast" => announced[l.c] < told[l.c]

\* A row that was not there is a new document.
RowsGrow ==
  \A c \in Contracts : /\ born'[c] \in Nat /\ born'[c] >= born[c]
                       /\ Exists(c)' => Exists(c) \/ born'[c] > born[c]

LEMMA RowsSame ==
  ASSUME TypeInv, UNCHANGED <<contract, born>>
  PROVE  RowsGrow
BY DEF TypeInv, Tallies, RowsGrow, Exists

LEMMA RowsCancelled ==
  ASSUME TypeInv, NEW c \in Contracts, Exists(c), contract' = Cancelled(c), UNCHANGED born
  PROVE  RowsGrow
<1>1. \A d \in Contracts : d # c => contract'[d] = contract[d]
  BY DEF Cancelled, TypeInv, Collections
<1>. QED
  BY <1>1 DEF RowsGrow, Exists, TypeInv, Tallies

LEMMA RowsPut ==
  ASSUME TypeInv, NEW c \in Contracts, NEW status, status # "NONE", NEW n, NEW f,
         PutRow(c, status, n, f)
  PROVE  /\ RowsGrow /\ contract'[c].status = status
         /\ born' = [born EXCEPT ![c] = IF Exists(c) THEN born[c] ELSE born[c] + 1]
<1>1. /\ born' = [born EXCEPT ![c] = IF Exists(c) THEN born[c] ELSE born[c] + 1]
      /\ contract' = [contract EXCEPT ![c] =
           [status |-> status, nro |-> n, fdt |-> f,
            oid |-> IF Exists(c) THEN contract[c].oid ELSE born[c] + 1]]
  BY DEF PutRow
<1>2. /\ born \in [Contracts -> Nat] /\ contract \in [Contracts -> ContractRow]
  BY DEF TypeInv, Tallies, Collections
<1>3. ASSUME NEW d \in Contracts
      PROVE  /\ born'[d] \in Nat /\ born'[d] >= born[d]
             /\ Exists(d)' => Exists(d) \/ born'[d] > born[d]
  BY <1>1, <1>2 DEF Exists
<1>4. contract'[c].status = status
  BY <1>1, <1>2
<1>. QED
  BY <1>1, <1>3, <1>4 DEF RowsGrow

LEMMA OnceMoves ==
  ASSUME TypeInv, OnceInv, RowsGrow, UNCHANGED <<told, announced>>, NEW lab, NEW l \in Locals,
         pc'[Worker] = lab, loc'[Worker] = l,
         lab \in Preparing /\ Exists(l.c) => told[l.c] < born[l.c],
         lab \in Linking => told[l.c] < born'[l.c],
         l.news => lab \in Linking \cup {"broadcast", "complete"},
         l.news /\ lab = "broadcast" => announced[l.c] < told[l.c]
  PROVE  OnceInv'
<1>1. /\ born \in [Contracts -> Nat] /\ told \in [Contracts -> Nat]
      /\ announced \in [Contracts -> Nat] /\ l.c \in Contracts
  BY DEF TypeInv, Tallies, Locals
<1>2. \A c \in Contracts : announced'[c] <= told'[c] /\ told'[c] <= born'[c]
  BY <1>1 DEF OnceInv, AnnouncedOnce, RowsGrow
<1>3. lab \in Preparing /\ Exists(l.c)' => told[l.c] < born'[l.c]
  <2>. SUFFICES ASSUME lab \in Preparing, Exists(l.c)' PROVE told[l.c] < born'[l.c]
    OBVIOUS
  <2>1. /\ born'[l.c] \in Nat /\ born'[l.c] >= born[l.c]
        /\ Exists(l.c) \/ born'[l.c] > born[l.c]
    BY <1>1 DEF RowsGrow
  <2>2. told[l.c] <= born[l.c]
    BY <1>1 DEF OnceInv, AnnouncedOnce
  <2>. QED
    BY <1>1, <2>1, <2>2
<1>4. Exists(l.c)' <=> contract'[l.c].status # "NONE"
  BY DEF Exists
<1>. QED
  BY <1>2, <1>3, <1>4 DEF OnceInv, AnnouncedOnce, Exists

\* The worker goes on with the same contract, and neither begins nor ends anything.
LEMMA OnceGoes ==
  ASSUME TypeInv, OnceInv, RowsGrow, UNCHANGED <<told, announced>>, NEW lab, NEW l \in Locals,
         pc'[Worker] = lab, loc'[Worker] = l,
         l.c = loc[Worker].c, l.news = loc[Worker].news,
         pc[Worker] \notin {"broadcast", "complete"},
         lab \in Preparing => pc[Worker] \in Preparing \/ ~Exists(l.c),
         lab \in Linking <=> pc[Worker] \in Linking
  PROVE  OnceInv'
<1>1. l.news => lab \in Linking
  BY DEF OnceInv
<1>2. lab \in Linking => lab # "broadcast"
  BY DEF Linking
<1>3. lab \in Preparing /\ Exists(l.c) => told[l.c] < born[l.c]
  BY DEF OnceInv
<1>4. lab \in Linking => told[l.c] < born'[l.c]
  <2>1. l.c \in Contracts
    BY DEF Locals
  <2>2. born[l.c] \in Nat /\ told[l.c] \in Nat /\ born'[l.c] \in Nat /\ born'[l.c] >= born[l.c]
    BY <2>1 DEF RowsGrow, TypeInv, Tallies
  <2>. QED
    BY <2>2 DEF OnceInv
<1>. QED
  BY <1>1, <1>2, <1>3, <1>4, OnceMoves

LEMMA OnceElse ==
  ASSUME TypeInv, OnceInv, RowsGrow, UNCHANGED <<told, announced>>,
         pc'[Worker] = pc[Worker], loc'[Worker] = loc[Worker]
  PROVE  OnceInv'
<1>1. loc[Worker] \in Locals /\ loc[Worker].c \in Contracts
  BY DEF TypeInv, Handlers, Procs, Locals
<1>2. /\ born[loc[Worker].c] \in Nat /\ told[loc[Worker].c] \in Nat
      /\ born'[loc[Worker].c] \in Nat /\ born'[loc[Worker].c] >= born[loc[Worker].c]
  BY <1>1 DEF RowsGrow, TypeInv, Tallies
<1>3. pc[Worker] \in Linking => told[loc[Worker].c] < born'[loc[Worker].c]
  BY <1>2 DEF OnceInv
<1>. QED
  BY <1>1, <1>3, OnceMoves DEF OnceInv

\* The handler returned, threw, or died with the process.
LEMMA OnceIdle ==
  ASSUME TypeInv, OnceInv, RowsGrow, UNCHANGED <<told, announced>>,
         pc'[Worker] = "idle", loc'[Worker] = Blank
  PROVE  OnceInv'
<1>1. ~Blank.news /\ "idle" \notin Preparing \cup Linking
  BY DEF Blank, Preparing, Linking
<1>. QED
  BY <1>1, BlankType, OnceMoves

\* A handler goes on: it neither begins, nor writes, nor ends anything of contracts.new.
GoesOn(p, from, to) ==
  /\ from \notin {"broadcast", "complete"}
  /\ p = Worker => /\ (to \in Preparing => from \in Preparing)
                   /\ (to \in Linking <=> from \in Linking)

LEMMA GoesOnLabels ==
  ASSUME NEW p
  PROVE  /\ GoesOn(p, "readClaim", "saveClaim")
         /\ GoesOn(p, "saveClaim", IF p = Worker THEN "upsertFdt" ELSE "readPorts")
         /\ GoesOn(p, "upsertFdt", "readPorts")
         /\ GoesOn(p, "readPorts", "savePorts")
         /\ GoesOn(p, "savePorts", IF p = Worker THEN "upsertRow" ELSE "insertRow")
         /\ GoesOn(p, "readLink", "saveLink") /\ GoesOn(p, "saveLink", "countLink")
         /\ GoesOn(p, "countLink", "notifyNew") /\ GoesOn(p, "readLink", "notifyNew")
         /\ GoesOn(p, "saveLink", "notifyNew")
         /\ \A lab \in {"notifyCancel", "broadcast", "erase", "plainSave", "commitRelease",
                       "readRelease", "findContract"} :
              \A from \in {"findContract", "notifyCancel", "plainSave", "commitRelease",
                           "saveRow", "upsertNro", "findById"} : GoesOn(p, from, lab)
         /\ GoesOn(p, "readRelease", "saveRelease")
         /\ \A lab \in {"readLinkBack", "readPortsBack"} : GoesOn(p, "saveRelease", lab)
         /\ GoesOn(p, "readPortsBack", "savePortsBack")
         /\ GoesOn(p, "savePortsBack", "readLinkBack")
         /\ GoesOn(p, "readLinkBack", "saveLinkBack") /\ GoesOn(p, "readLinkBack", "saveRow")
         /\ GoesOn(p, "saveLinkBack", "saveRow")
         /\ GoesOn(p, "readUpdate", "saveUpdate") /\ GoesOn(p, "saveUpdate", "broadcast")
         /\ GoesOn(p, "readDelete", "saveDelete") /\ GoesOn(p, "saveDelete", "broadcast")
         /\ p # Worker => GoesOn(p, "readFdt", "readClaim")
BY DEF GoesOn, Preparing, Linking

\* The same for any handler.
LEMMA OnceHandler ==
  ASSUME TypeInv, TypeInv', OnceInv, RowsGrow, UNCHANGED <<told, announced>>,
         NEW p \in Procs, NEW lab, NEW l,
         pc' = [pc EXCEPT ![p] = lab], loc' = [loc EXCEPT ![p] = l],
         l.c = loc[p].c, l.news = loc[p].news,
         GoesOn(p, pc[p], lab)
  PROVE  OnceInv'
<1>1. /\ pc \in [Procs -> Label] /\ loc \in [Procs -> Locals] /\ Worker \in Procs
      /\ loc' \in [Procs -> Locals]
  BY DEF TypeInv, Handlers, Procs
<1>2. CASE p = Worker
  <2>1. pc'[Worker] = lab /\ loc'[Worker] = l /\ l \in Locals
    BY <1>1, <1>2
  <2>. QED
    BY <1>2, <2>1, OnceGoes DEF GoesOn
<1>3. CASE p # Worker
  <2>1. pc'[Worker] = pc[Worker] /\ loc'[Worker] = loc[Worker]
    BY <1>1, <1>3
  <2>. QED
    BY <2>1, OnceElse
<1>. QED
  BY <1>2, <1>3

LEMMA OnceFinish ==
  ASSUME TypeInv, OnceInv, RowsGrow, UNCHANGED <<told, announced>>, NEW p \in Procs, Finish(p)
  PROVE  OnceInv'
<1>1. /\ pc \in [Procs -> Label] /\ loc \in [Procs -> Locals] /\ Worker \in Procs
  BY DEF TypeInv, Handlers, Procs
<1>2. CASE p = Worker
  <2>1. pc'[Worker] = "idle" /\ loc'[Worker] = Blank
    BY <1>1, <1>2 DEF Finish
  <2>. QED
    BY <2>1, OnceIdle
<1>3. CASE p # Worker
  <2>1. pc'[Worker] = pc[Worker] /\ loc'[Worker] = loc[Worker]
    BY <1>1, <1>3 DEF Finish
  <2>. QED
    BY <2>1, OnceElse
<1>. QED
  BY <1>2, <1>3

\* A handler that does not touch the rows goes from one label to another.
LEMMA OnceQuiet ==
  ASSUME TypeInv, TypeInv', OnceInv, UNCHANGED <<contract, history>>, NEW p \in Procs,
         NEW from, NEW to, Go(p, from, to), NEW l, loc' = [loc EXCEPT ![p] = l],
         l.c = loc[p].c, l.news = loc[p].news, GoesOn(p, from, to)
  PROVE  OnceInv'
<1>1. UNCHANGED <<contract, born, told, announced>>
  BY DEF history
<1>2. pc' = [pc EXCEPT ![p] = to] /\ pc[p] = from
  BY DEF Go
<1>3. RowsGrow
  BY <1>1, RowsSame
<1>. QED
  BY <1>1, <1>2, <1>3, OnceHandler

LEMMA LocalsKept ==
  ASSUME TypeInv, NEW p \in Procs
  PROVE  /\ loc[p] \in Locals /\ loc = [loc EXCEPT ![p] = loc[p]]
         /\ \A x : /\ [loc[p] EXCEPT !.doc = x].c = loc[p].c
                   /\ [loc[p] EXCEPT !.doc = x].news = loc[p].news
                   /\ [loc[p] EXCEPT !.fdoc = x].c = loc[p].c
                   /\ [loc[p] EXCEPT !.fdoc = x].news = loc[p].news
BY DEF TypeInv, Handlers, Locals

\* The calls that read or save an NRO or an FDT.
LEMMA OnceDocs ==
  ASSUME TypeInv, TypeInv', OnceInv, NEW p \in Procs, NEW from, NEW to, NEW new,
         ReadNro(p, from, to) \/ SaveNro(p, from, new, to)
           \/ ReadFdtDoc(p, from, to) \/ SaveFdt(p, from, new, to),
         GoesOn(p, from, to)
  PROVE  OnceInv'
<1>1. PICK l : /\ loc' = [loc EXCEPT ![p] = l] /\ l.c = loc[p].c /\ l.news = loc[p].news
  <2>1. CASE ReadNro(p, from, to)
    BY <2>1, LocalsKept DEF ReadNro, Hold
  <2>2. CASE ReadFdtDoc(p, from, to)
    BY <2>2, LocalsKept DEF ReadFdtDoc, Hold
  <2>3. CASE SaveNro(p, from, new, to) \/ SaveFdt(p, from, new, to)
    <3>1. loc' = [loc EXCEPT ![p] = loc[p]]
      BY <2>3, LocalsKept DEF SaveNro, SaveFdt
    <3>. QED
      BY <3>1
  <2>. QED
    BY <2>1, <2>2, <2>3
<1>2. Go(p, from, to) /\ UNCHANGED <<contract, history>>
  BY DEF ReadNro, SaveNro, ReadFdtDoc, SaveFdt, db
<1>. QED
  BY <1>1, <1>2, OnceQuiet

LEMMA OnceClaim ==
  ASSUME TypeInv, TypeInv', OnceInv, NEW p \in Procs, ClaimSteps(p)
  PROVE  OnceInv'
BY OnceDocs, GoesOnLabels DEF ClaimSteps, ReadClaim, SaveClaim, ReadPorts, SavePorts

LEMMA OnceNro ==
  ASSUME TypeInv, TypeInv', OnceInv, NEW p \in Procs, NroSteps(p)
  PROVE  OnceInv'
<1>1. CASE UpsertNro(p)
  <2>1. /\ Go(p, "upsertNro", "broadcast") /\ UNCHANGED <<contract, history>>
        /\ loc' = [loc EXCEPT ![p] = loc[p]]
    BY <1>1, LocalsKept DEF UpsertNro
  <2>2. GoesOn(p, "upsertNro", "broadcast")
    BY GoesOnLabels
  <2>. QED
    BY <2>1, <2>2, OnceQuiet
<1>2. CASE ~UpsertNro(p)
  BY <1>2, OnceDocs, GoesOnLabels DEF NroSteps, ReadUpdate, SaveUpdate, ReadDelete, SaveDelete
<1>. QED
  BY <1>1, <1>2

LEMMA OnceCancel ==
  ASSUME TypeInv, TypeInv', OnceInv, NEW p \in Procs, CancelSteps(p)
  PROVE  OnceInv'
<1>0. loc[p] \in Locals /\ loc[p].c \in Contracts /\ loc = [loc EXCEPT ![p] = loc[p]]
  BY DEF TypeInv, Handlers, Locals
<1>1. CASE FindContract(p)
  <2>. DEFINE row == contract[loc[p].c]
              lab == CASE row.status = "NONE" -> "notifyCancel"
                       [] row.status = "CANCELLED" -> AfterCancel(p)
                       [] OTHER -> IF row.nro = NoNro THEN "plainSave"
                                   ELSE IF Transactional THEN "commitRelease" ELSE "readRelease"
              l == [loc[p] EXCEPT !.row = row, !.n = row.nro, !.f = row.fdt, !.dirty = TRUE]
  <2>1. lab \in {"notifyCancel", "broadcast", "erase", "plainSave", "commitRelease", "readRelease"}
    BY DEF AfterCancel
  <2>2. l.c = loc[p].c /\ l.news = loc[p].news
    BY <1>0 DEF Locals
  <2>3. /\ Go(p, "findContract", lab) /\ loc' = [loc EXCEPT ![p] = l]
        /\ UNCHANGED <<contract, history>>
    BY <1>1 DEF FindContract, Hold, db
  <2>. HIDE DEF lab, l
  <2>4. GoesOn(p, "findContract", lab)
    BY <2>1, GoesOnLabels
  <2>. QED
    BY <2>2, <2>3, <2>4, OnceQuiet
<1>2. CASE PlainSave(p) \/ SaveRow(p)
  <2>1. /\ pc[p] \in {"plainSave", "saveRow"} /\ pc' = [pc EXCEPT ![p] = "notifyCancel"]
        /\ Exists(loc[p].c) /\ contract' = Cancelled(loc[p].c)
        /\ UNCHANGED <<loc, born, told, announced>>
    BY <1>2 DEF PlainSave, SaveRow, Go, Same, history
  <2>2. RowsGrow
    BY <1>0, <2>1, RowsCancelled
  <2>3. GoesOn(p, pc[p], "notifyCancel")
    BY <2>1, GoesOnLabels
  <2>. QED
    BY <1>0, <2>1, <2>2, <2>3, OnceHandler
<1>3. CASE CommitRelease(p)
  <2>1. /\ pc[p] = "commitRelease" /\ pc' = [pc EXCEPT ![p] = "notifyCancel"]
        /\ Exists(loc[p].c) /\ (contract' = Cancelled(loc[p].c) \/ contract' = contract)
        /\ UNCHANGED <<loc, born, told, announced>>
    BY <1>3 DEF CommitRelease, Go, Same, history
  <2>2. RowsGrow
    BY <1>0, <2>1, RowsCancelled, RowsSame
  <2>3. GoesOn(p, pc[p], "notifyCancel")
    BY <2>1, GoesOnLabels
  <2>. QED
    BY <1>0, <2>1, <2>2, <2>3, OnceHandler
<1>4. CASE ReadLinkBack(p)
  <2>1. PICK to \in {"saveLinkBack", "saveRow"} : Go(p, "readLinkBack", to)
    BY <1>4 DEF ReadLinkBack
  <2>2. UNCHANGED <<contract, history>>
    BY <1>4 DEF ReadLinkBack, db
  <2>3. PICK l : /\ loc' = [loc EXCEPT ![p] = l] /\ l.c = loc[p].c /\ l.news = loc[p].news
    <3>1. \A x, y : /\ [loc[p] EXCEPT !.f = x, !.fdoc = y].c = loc[p].c
                    /\ [loc[p] EXCEPT !.f = x, !.fdoc = y].news = loc[p].news
      BY <1>0 DEF Locals
    <3>2. CASE Same(loc[p]) /\ contract[loc[p].c].fdt # NoFdt
      <4>. DEFINE l == [loc[p] EXCEPT !.f = contract[loc[p].c].fdt,
                                      !.fdoc = fdt[contract[loc[p].c].fdt]]
      <4>1. loc' = [loc EXCEPT ![p] = l]
        BY <1>4, <3>2 DEF ReadLinkBack, Hold
      <4>2. l.c = loc[p].c /\ l.news = loc[p].news
        BY <3>1
      <4>. HIDE DEF l
      <4>. QED
        BY <4>1, <4>2
    <3>3. CASE ~(Same(loc[p]) /\ contract[loc[p].c].fdt # NoFdt)
      <4>1. loc' = [loc EXCEPT ![p] = loc[p]]
        BY <1>4, <3>3 DEF ReadLinkBack, Hold
      <4>. QED
        BY <4>1
    <3>. QED
      BY <3>2, <3>3
  <2>4. GoesOn(p, "readLinkBack", to)
    BY <2>1, GoesOnLabels
  <2>. QED
    BY <2>1, <2>2, <2>3, <2>4, OnceQuiet
<1>5. CASE NotifyCancel(p)
  <2>1. /\ Go(p, "notifyCancel", AfterCancel(p)) /\ UNCHANGED <<contract, history>>
        /\ loc' = [loc EXCEPT ![p] = loc[p]]
    BY <1>0, <1>5 DEF NotifyCancel, db
  <2>2. AfterCancel(p) \in {"broadcast", "erase"}
    BY DEF AfterCancel
  <2>3. GoesOn(p, "notifyCancel", AfterCancel(p))
    BY <2>2, GoesOnLabels
  <2>. QED
    BY <2>1, <2>3, OnceQuiet
<1>6. CASE ReadRelease(p) \/ SaveRelease(p) \/ ReadPortsBack(p) \/ SavePortsBack(p) \/ SaveLinkBack(p)
  BY <1>6, OnceDocs, GoesOnLabels DEF ReadRelease, SaveRelease, ReadPortsBack, SavePortsBack, SaveLinkBack
<1>. QED
  BY <1>1, <1>2, <1>3, <1>4, <1>5, <1>6 DEF CancelSteps

\* The worker's steps on contracts.new: the row it writes is a document not notified yet.
LEMMA OnceNew ==
  ASSUME TypeInv, TypeInv', OnceInv, NewSteps(Worker)
  PROVE  OnceInv'
<1>. DEFINE c == loc[Worker].c
<1>0. /\ Worker \in Procs /\ loc[Worker] \in Locals /\ c \in Contracts
      /\ pc \in [Procs -> Label] /\ loc \in [Procs -> Locals] /\ loc' \in [Procs -> Locals]
      /\ loc = [loc EXCEPT ![Worker] = loc[Worker]]
      /\ born[c] \in Nat /\ told[c] \in Nat /\ announced[c] \in Nat
      /\ announced[c] <= told[c] /\ told[c] <= born[c]
  BY DEF TypeInv, Handlers, Procs, Locals, Tallies, OnceInv, AnnouncedOnce
<1>1. CASE FindExisting(Worker)
  <2>1. PICK lab \in {"broadcast", "resolveNro"} :
          /\ pc' = [pc EXCEPT ![Worker] = lab] /\ pc[Worker] = "findExisting"
          /\ lab = "resolveNro" => ~Exists(c)
    BY <1>1 DEF FindExisting, Go
  <2>2. UNCHANGED <<loc, contract, born, told, announced>>
    BY <1>1 DEF FindExisting, db, history
  <2>3. pc'[Worker] = lab /\ RowsGrow
    BY <1>0, <2>1, <2>2, RowsSame
  <2>4. /\ pc[Worker] \notin {"broadcast", "complete"} /\ pc[Worker] \notin Linking
        /\ lab \notin Linking /\ (lab \in Preparing => ~Exists(c))
    BY <2>1 DEF Linking, Preparing
  <2>. QED
    BY <1>0, <2>2, <2>3, <2>4, OnceGoes
<1>2. CASE ResolveNro(Worker)
  <2>0. PICK lab \in {"refuse", "commitClaim", "readClaim"} : Go(Worker, "resolveNro", lab)
    BY <1>2 DEF ResolveNro
  <2>1. PICK l : /\ loc' = [loc EXCEPT ![Worker] = l]
                 /\ l.c = c /\ l.news = loc[Worker].news
    <3>1. CASE Hold(Worker, [loc[Worker] EXCEPT !.n = NoNro])
      <4>. DEFINE l == [loc[Worker] EXCEPT !.n = NoNro]
      <4>1. l.c = c /\ l.news = loc[Worker].news /\ loc' = [loc EXCEPT ![Worker] = l]
        BY <1>0, <3>1 DEF Locals, Hold
      <4>. HIDE DEF l
      <4>. QED
        BY <4>1
    <3>2. ASSUME NEW n, Hold(Worker, [loc[Worker] EXCEPT !.n = n, !.f = c, !.doc = nro[n]])
          PROVE  \E l : /\ loc' = [loc EXCEPT ![Worker] = l]
                        /\ l.c = c /\ l.news = loc[Worker].news
      <4>. DEFINE l == [loc[Worker] EXCEPT !.n = n, !.f = c, !.doc = nro[n]]
      <4>1. l.c = c /\ l.news = loc[Worker].news /\ loc' = [loc EXCEPT ![Worker] = l]
        BY <1>0, <3>2 DEF Locals, Hold
      <4>. HIDE DEF l
      <4>. QED
        BY <4>1
    <3>. QED
      BY <1>2, <3>1, <3>2 DEF ResolveNro
  <2>2. UNCHANGED <<contract, history>>
    BY <1>2 DEF ResolveNro, db
  <2>3. GoesOn(Worker, "resolveNro", lab)
    BY DEF GoesOn, Preparing, Linking
  <2>. QED
    BY <1>0, <2>0, <2>1, <2>2, <2>3, OnceQuiet
<1>3. CASE Refuse(Worker)
  <2>1. /\ pc' = [pc EXCEPT ![Worker] = "notifyNew"] /\ pc[Worker] = "refuse"
        /\ UNCHANGED <<loc, told, announced>> /\ ~Exists(c)
        /\ PutRow(c, "FAILED", loc[Worker].n, NoFdt)
    BY <1>3 DEF Refuse, Go
  <2>2. RowsGrow /\ born' = [born EXCEPT ![c] = IF Exists(c) THEN born[c] ELSE born[c] + 1]
    BY <1>0, <2>1, RowsPut
  <2>3. told[c] < born'[c]
    BY <1>0, <2>1, <2>2 DEF TypeInv, Tallies
  <2>4. ~loc[Worker].news /\ "notifyNew" \notin Preparing
    BY <2>1 DEF OnceInv, Linking, Preparing
  <2>5. pc'[Worker] = "notifyNew" /\ loc'[Worker] = loc[Worker]
    BY <1>0, <2>1
  <2>. QED
    BY <1>0, <2>1, <2>2, <2>3, <2>4, <2>5, OnceMoves
<1>4. CASE CommitClaim(Worker) \/ UpsertRow(Worker)
  <2>. DEFINE l == [loc[Worker] EXCEPT !.news = TRUE]
  <2>1. /\ pc' = [pc EXCEPT ![Worker] = "readLink"] /\ pc[Worker] \in {"commitClaim", "upsertRow"}
        /\ loc' = [loc EXCEPT ![Worker] = l]
        /\ UNCHANGED <<told, announced>> /\ PutRow(c, "ACTIVE", loc[Worker].n, c)
    BY <1>4 DEF CommitClaim, UpsertRow, Go, Hold
  <2>2. RowsGrow /\ born' = [born EXCEPT ![c] = IF Exists(c) THEN born[c] ELSE born[c] + 1]
    BY <1>0, <2>1, RowsPut
  <2>3. born'[c] = IF Exists(c) THEN born[c] ELSE born[c] + 1
    BY <1>0, <2>2 DEF TypeInv, Tallies
  <2>4. Exists(c) => told[c] < born[c]
    BY <2>1 DEF OnceInv, Preparing
  <2>5. told[c] < born'[c]
    BY <1>0, <2>3, <2>4
  <2>6. pc'[Worker] = "readLink" /\ loc'[Worker] = l /\ l \in Locals /\ l.c = c
    BY <1>0, <2>1 DEF Locals
  <2>7. "readLink" \notin Preparing /\ "readLink" \in Linking
    BY DEF Preparing, Linking
  <2>. HIDE DEF l
  <2>. QED
    BY <2>1, <2>2, <2>5, <2>6, <2>7, OnceMoves
<1>5. CASE UpsertFdt(Worker)
  <2>1. Go(Worker, "upsertFdt", "readPorts") /\ UNCHANGED <<loc, contract, history>>
    BY <1>5 DEF UpsertFdt
  <2>2. GoesOn(Worker, "upsertFdt", "readPorts")
    BY GoesOnLabels
  <2>. QED
    BY <1>0, <2>1, <2>2, OnceQuiet
<1>6. CASE ReadLink(Worker)
  <2>1. GoesOn(Worker, "readLink", "saveLink") /\ ReadFdtDoc(Worker, "readLink", "saveLink")
    BY <1>6, GoesOnLabels DEF ReadLink
  <2>. QED
    BY <1>0, <2>1, OnceDocs
<1>7. CASE SaveLink(Worker)
  <2>. DEFINE new == [loc[Worker].fdoc EXCEPT !.active = @ + 1]
  <2>1. GoesOn(Worker, "saveLink", "countLink") /\ SaveFdt(Worker, "saveLink", new, "countLink")
    BY <1>7, GoesOnLabels DEF SaveLink
  <2>. HIDE DEF new
  <2>. QED
    BY <1>0, <2>1, OnceDocs
<1>8. CASE CountLink(Worker)
  <2>1. Go(Worker, "countLink", "notifyNew") /\ UNCHANGED <<loc, contract, history>>
    BY <1>8 DEF CountLink
  <2>2. GoesOn(Worker, "countLink", "notifyNew")
    BY GoesOnLabels
  <2>. QED
    BY <1>0, <2>1, <2>2, OnceQuiet
<1>9. CASE NotifyNew(Worker)
  <2>1. /\ pc' = [pc EXCEPT ![Worker] = "broadcast"] /\ pc[Worker] = "notifyNew"
        /\ told' = [told EXCEPT ![c] = told[c] + 1]
        /\ UNCHANGED <<contract, loc, born, announced>>
    BY <1>9 DEF NotifyNew, Go, db
  <2>2. told[c] < born[c]
    BY <2>1 DEF OnceInv, Linking
  <2>3. told'[c] = told[c] + 1 /\ \A d \in Contracts : d # c => told'[d] = told[d]
    BY <1>0, <2>1 DEF TypeInv, Tallies
  <2>4. \A d \in Contracts : announced[d] <= told'[d] /\ told'[d] <= born[d]
    <3>1. \A d \in Contracts : announced[d] <= told[d] /\ told[d] <= born[d]
      BY DEF OnceInv, AnnouncedOnce
    <3>. QED
      BY <1>0, <2>2, <2>3, <3>1
  <2>5. announced[c] < told'[c]
    BY <1>0, <2>3
  <2>6. /\ pc'[Worker] = "broadcast" /\ "broadcast" \notin Preparing \cup Linking
        /\ loc'[Worker] = loc[Worker]
    BY <1>0, <2>1 DEF Preparing, Linking
  <2>. QED
    BY <2>1, <2>4, <2>5, <2>6 DEF OnceInv, AnnouncedOnce
<1>. QED
  BY <1>1, <1>2, <1>3, <1>4, <1>5, <1>6, <1>7, <1>8, <1>9 DEF NewSteps

\* The worker takes a job, announces what it has done, and ends.
LEMMA OnceJob ==
  ASSUME TypeInv, TypeInv', OnceInv, TakeJob \/ Broadcast \/ Complete
  PROVE  OnceInv'
<1>0. /\ Worker \in Procs /\ loc[Worker] \in Locals /\ loc[Worker].c \in Contracts
      /\ pc \in [Procs -> Label] /\ loc \in [Procs -> Locals] /\ loc' \in [Procs -> Locals]
  BY DEF TypeInv, Handlers, Procs, Locals
<1>1. CASE TakeJob
  <2>. DEFINE ev == jobs[Head(wait)].ev
              l == [Blank EXCEPT !.job = Head(wait), !.c = ev.c, !.n = ev.n, !.max = ev.max]
  <2>1. /\ pc' = [pc EXCEPT ![Worker] = Entry(ev.type)] /\ loc' = [loc EXCEPT ![Worker] = l]
        /\ UNCHANGED <<contract, born, told, announced>>
    BY <1>1 DEF TakeJob, Go, Hold, db, history
  <2>2. Entry(ev.type) \notin Preparing \cup Linking
    <3>1. ev \in Event
      <4>1. wait # <<>> /\ wait \in Seq(1..Len(jobs))
        BY <1>1 DEF TakeJob, TypeInv, Queue
      <4>2. Head(wait) \in 1..Len(jobs)
        BY <4>1, HeadTailProperties
      <4>3. jobs[Head(wait)] \in Job
        BY <4>2, ElementOfSeq DEF TypeInv, Queue
      <4>. QED
        BY <4>3 DEF Job
    <3>2. ev.type \in EventType
      BY <3>1 DEF Event
    <3>. QED
      BY <3>2 DEF EventType, Entry, Preparing, Linking
  <2>3. ~l.news
    BY DEF Blank
  <2>4. pc'[Worker] = Entry(ev.type) /\ loc'[Worker] = l /\ l \in Locals /\ RowsGrow
    BY <1>0, <2>1, RowsSame
  <2>. HIDE DEF l, ev
  <2>. QED
    BY <2>1, <2>2, <2>3, <2>4, OnceMoves
<1>2. CASE Broadcast
  <2>. DEFINE c == loc[Worker].c
              one == IF loc[Worker].news THEN 1 ELSE 0
  <2>1. /\ pc' = [pc EXCEPT ![Worker] = "complete"] /\ pc[Worker] = "broadcast"
        /\ announced' = [announced EXCEPT ![c] = announced[c] + one]
        /\ UNCHANGED <<contract, loc, born, told>>
    BY <1>2 DEF Broadcast, Go, db
  <2>2. /\ announced'[c] = announced[c] + one /\ announced[c] \in Nat /\ told[c] \in Nat
        /\ \A d \in Contracts : d # c => announced'[d] = announced[d]
    BY <1>0, <2>1 DEF TypeInv, Tallies
  <2>3. loc[Worker].news => announced[c] < told[c]
    BY <2>1 DEF OnceInv
  <2>4. \A d \in Contracts : announced[d] <= told[d] /\ told[d] <= born[d]
    BY DEF OnceInv, AnnouncedOnce
  <2>5. announced'[c] <= told[c]
    BY <1>0, <2>2, <2>3, <2>4
  <2>6. \A d \in Contracts : announced'[d] <= told[d] /\ told[d] <= born[d]
    BY <2>2, <2>4, <2>5
  <2>7. /\ pc'[Worker] = "complete" /\ "complete" \notin Preparing \cup Linking
        /\ loc'[Worker] = loc[Worker]
    BY <1>0, <2>1 DEF Preparing, Linking
  <2>. QED
    BY <2>1, <2>6, <2>7 DEF OnceInv, AnnouncedOnce
<1>3. CASE Complete
  <2>1. Finish(Worker) /\ UNCHANGED <<contract, born, told, announced>>
    BY <1>3 DEF Complete, db, history
  <2>. QED
    BY <1>0, <2>1, RowsSame, OnceFinish
<1>. QED
  BY <1>1, <1>2, <1>3

\* The steps of the REST handlers, and of any handler that fails.
LEMMA OnceRest ==
  ASSUME TypeInv, TypeInv', OnceInv, NEW r \in Requests,
         \/ \E c \in Contracts : PostContract(r, c) \/ DeleteContract(r, c)
         \/ RestSteps(r)
  PROVE  OnceInv'
<1>0. /\ r \in Procs /\ r # Worker /\ Worker \in Procs /\ loc[r] \in Locals
      /\ loc[r].c \in Contracts /\ pc \in [Procs -> Label] /\ loc \in [Procs -> Locals]
  BY PipelineAssumption DEF TypeInv, Handlers, Procs, Locals
<1>1. ASSUME \E lab : Go(r, pc[r], lab), \E l : Hold(r, l), UNCHANGED <<contract, history>>
      PROVE  OnceInv'
  <2>1. pc'[Worker] = pc[Worker] /\ loc'[Worker] = loc[Worker]
    BY <1>0, <1>1 DEF Go, Hold
  <2>2. UNCHANGED <<contract, born, told, announced>>
    BY <1>1 DEF history
  <2>. QED
    BY <2>1, <2>2, RowsSame, OnceElse
<1>2. ASSUME Finish(r), RowsGrow, UNCHANGED <<told, announced>>
      PROVE  OnceInv'
  BY <1>0, <1>2, OnceFinish
<1>20. ASSUME Finish(r), UNCHANGED <<contract, history>>
       PROVE  OnceInv'
  <2>1. UNCHANGED <<contract, born, told, announced>>
    BY <1>20 DEF history
  <2>. QED
    BY <1>2, <1>20, <2>1, RowsSame
<1>3. ASSUME NEW c \in Contracts, PostContract(r, c) \/ DeleteContract(r, c)
      PROVE  OnceInv'
  <2>1. \E op, label : Call(r, op, c, label)
    BY <1>3 DEF PostContract, DeleteContract
  <2>2. (\E lab : Go(r, pc[r], lab)) /\ (\E l : Hold(r, l)) /\ UNCHANGED <<contract, history>>
    BY <2>1 DEF Call, db, Go
  <2>. QED
    BY <1>1, <2>2
<1>4. CASE ResolveParents(r)
  <2>1. ASSUME NEW f \in Fdts, Go(r, "readFdt", "readClaim"),
               Hold(r, [loc[r] EXCEPT !.f = f, !.n = fdt[f].nro]),
               UNCHANGED <<db, redis, history, calls, faults>>
        PROVE  OnceInv'
    <3>1. UNCHANGED <<contract, history>>
      BY <2>1 DEF db
    <3>. QED
      BY <1>1, <2>1, <3>1 DEF Go
  <2>2. ASSUME Finish(r), UNCHANGED <<db, redis, history, calls, faults>>
        PROVE  OnceInv'
    BY <1>20, <2>2 DEF db
  <2>. QED
    BY <1>4, <2>1, <2>2 DEF ResolveParents
<1>5. CASE InsertRow(r)
  <2>1. /\ Finish(r) /\ PutRow(loc[r].c, "ACTIVE", loc[r].n, loc[r].f)
        /\ UNCHANGED <<told, announced>>
    BY <1>5 DEF InsertRow
  <2>. QED
    BY <1>0, <1>2, <2>1, RowsPut
<1>6. CASE FindById(r)
  <2>1. UNCHANGED <<contract, history>>
    BY <1>6 DEF FindById, db
  <2>. QED
    BY <1>1, <1>6, <1>20, <2>1 DEF FindById, Go
<1>7. CASE Erase(r)
  <2>1. /\ Finish(r) /\ UNCHANGED <<born, told, announced>>
        /\ \/ contract' = [contract EXCEPT ![loc[r].c] = NoContract]
           \/ contract' = contract
    BY <1>7 DEF Erase, history
  <2>2. RowsGrow
    BY <1>0, <2>1 DEF RowsGrow, Exists, NoContract, TypeInv, Tallies, Collections
  <2>. QED
    BY <1>2, <2>1, <2>2
<1>. QED
  BY <1>3, <1>4, <1>5, <1>6, <1>7 DEF RestSteps

LEMMA OnceFails ==
  ASSUME TypeInv, TypeInv', OnceInv, NEW p \in Procs,
         WriteRefused(p) \/ CallFails(p) \/ AbortCommit(p)
  PROVE  OnceInv'
<1>1. CASE Throw(p)
  <2>1. Finish(p) /\ UNCHANGED <<contract, born, told, announced>>
    BY <1>1 DEF Throw, db, history
  <2>. QED
    BY <2>1, RowsSame, OnceFinish
<1>2. ASSUME CallFails(p), ~Throw(p)
      PROVE  OnceInv'
  <2>1. /\ pc[p] \in {"readLink", "saveLink", "countLink"} /\ Go(p, pc[p], "notifyNew")
        /\ UNCHANGED <<contract, history>> /\ loc' = [loc EXCEPT ![p] = loc[p]]
    BY <1>2, LocalsKept DEF CallFails, Go, db
  <2>2. GoesOn(p, pc[p], "notifyNew")
    BY <2>1, GoesOnLabels
  <2>. QED
    BY <2>1, <2>2, OnceQuiet
<1>3. CASE AbortCommit(p)
  <2>. DEFINE l == [loc[p] EXCEPT !.dirty = FALSE]
  <2>1. /\ pc[p] = "commitRelease" /\ Go(p, "commitRelease", "commitRelease")
        /\ UNCHANGED <<contract, history>> /\ loc' = [loc EXCEPT ![p] = l]
    BY <1>3 DEF AbortCommit, Go, Hold, db, TypeInv, Handlers
  <2>2. l.c = loc[p].c /\ l.news = loc[p].news
    BY LocalsKept DEF Locals
  <2>3. GoesOn(p, "commitRelease", "commitRelease")
    BY GoesOnLabels
  <2>. HIDE DEF l
  <2>. QED
    BY <2>1, <2>2, <2>3, OnceQuiet
<1>. QED
  BY <1>1, <1>2, <1>3 DEF WriteRefused

LEMMA OnceNext == TypeInv /\ TypeInv' /\ OnceInv /\ [Next]_vars => OnceInv'
<1>. SUFFICES ASSUME TypeInv, TypeInv', OnceInv, [Next]_vars PROVE OnceInv'
  OBVIOUS
<1>0. Worker \in Procs /\ Requests \subseteq Procs
  BY DEF Procs
<1>1. CASE WorkerStep
  BY <1>0, <1>1, OnceJob, OnceNew, OnceClaim, OnceCancel, OnceNro, OnceFails DEF WorkerStep
<1>2. ASSUME NEW r \in Requests, RequestStep(r)
      PROVE  OnceInv'
  <2>1. CASE EditSteps(r)
    <3>1. UNCHANGED <<contract, born, told, announced>>
      BY <2>1, EditStep DEF history
    <3>2. pc'[Worker] = pc[Worker] /\ loc'[Worker] = loc[Worker]
      BY <1>0, <2>1, EditStep DEF TypeInv, Handlers
    <3>. QED
      BY <3>1, <3>2, RowsSame, OnceElse
  <2>. QED
    BY <1>0, <1>2, <2>1, OnceRest, OnceClaim, OnceCancel, OnceFails DEF RequestStep
<1>3. ASSUME UNCHANGED <<contract, born, told, announced, pc, loc>>
      PROVE  OnceInv'
  BY <1>3, RowsSame, OnceElse
<1>4. ASSUME NEW ev \in Events, Enqueue(ev)
      PROVE  OnceInv'
  BY <1>3, <1>4 DEF Enqueue, db, history
<1>5. ASSUME NEW id \in DOMAIN jobs, Promote(id) \/ Recover(id)
      PROVE  OnceInv'
  BY <1>3, <1>5 DEF Promote, Recover, db, history
<1>6. CASE Crash
  <2>1. /\ UNCHANGED <<contract, born, told, announced>>
        /\ pc'[Worker] = "idle" /\ loc'[Worker] = Blank
    BY <1>0, <1>6 DEF Crash, db, history
  <2>. QED
    BY <2>1, RowsSame, OnceIdle
<1>7. CASE Failure
  BY <1>6, <1>7, OnceFails DEF Failure
<1>8. CASE UNCHANGED vars
  BY <1>3, <1>8 DEF vars
<1>. QED
  BY <1>1, <1>2, <1>4, <1>5, <1>7, <1>8 DEF Next, AllDone

\* However a job is retried, redelivered or cut short by a crash, and whatever rows the
\* REST handlers insert and erase meanwhile, a contract document is notified at most once
\* and announced on the sockets at most once, after that.
THEOREM NotifiedOnce == Spec => []AnnouncedOnce
<1>1. Init => OnceInv
  <2>. SUFFICES ASSUME Init PROVE OnceInv
    OBVIOUS
  <2>1. /\ born = [c \in Contracts |-> 0] /\ told = born /\ announced = born
        /\ pc[Worker] = "idle" /\ loc[Worker] = Blank
    BY DEF Init, Procs
  <2>2. AnnouncedOnce
    BY <2>1 DEF AnnouncedOnce
  <2>3. ~Blank.news /\ "idle" \notin Preparing \cup Linking
    BY DEF Blank, Preparing, Linking
  <2>. QED
    BY <2>1, <2>2, <2>3 DEF OnceInv
<1>2. OnceInv => AnnouncedOnce
  BY DEF OnceInv
<1>. QED
  BY <1>1, <1>2, OnceNext, TypeInvCorrect, PTL DEF Spec

-----------------------------------------------------------------------------
(* A refused or cancelled contract document stays so.                      *)

\* Where POST /contracts prepares a row.
Creating == {"readFdt", "readClaim", "saveClaim", "readPorts", "savePorts", "insertRow"}

\* Nobody but the worker inserts rows, so there is none of the contract it prepares.
SticksInv ==
  /\ pc[Worker] \in Preparing => ~Exists(loc[Worker].c)
  /\ \A r \in Requests : pc[r] \notin Creating

\* Rows appear by the worker's last write only.
RowsStay(p, lab) == \A c \in Contracts : Exists(c)' => Exists(c) \/ (p = Worker /\ lab \notin Preparing)

LEMMA SticksStep ==
  ASSUME TypeInv, SticksInv, NEW p \in Procs, NEW lab, NEW l,
         pc' = [pc EXCEPT ![p] = lab], loc' = [loc EXCEPT ![p] = l], RowsStay(p, lab),
         p = Worker /\ lab \in Preparing =>
           l.c = loc[p].c /\ (pc[p] \in Preparing \/ ~Exists(loc[p].c)),
         p # Worker => lab \notin Creating
  PROVE  SticksInv'
<1>0. /\ pc \in [Procs -> Label] /\ loc \in [Procs -> Locals] /\ Worker \in Procs
      /\ Requests \subseteq Procs /\ Worker \notin Requests /\ loc[Worker].c \in Contracts
  BY PipelineAssumption DEF TypeInv, Handlers, Procs, Locals
<1>1. \A r \in Requests : pc'[r] \notin Creating
  BY <1>0 DEF SticksInv
<1>2. pc'[Worker] \in Preparing => ~Exists(loc[Worker].c)' /\ loc'[Worker].c = loc[Worker].c
  <2>. SUFFICES ASSUME pc'[Worker] \in Preparing
                PROVE  contract'[loc[Worker].c].status = "NONE" /\ loc'[Worker].c = loc[Worker].c
    BY <1>0, PipelineAssumption DEF Exists, SticksInv, RowsStay
  <2>1. ~Exists(loc[Worker].c) /\ loc'[Worker].c = loc[Worker].c
    BY <1>0 DEF SticksInv
  <2>2. \A c \in Contracts : Exists(c)' => Exists(c)
    <3>1. p = Worker => lab \in Preparing
      BY <1>0
    <3>. QED
      BY <3>1 DEF RowsStay
  <2>. QED
    BY <1>0, <2>1, <2>2 DEF Exists
<1>3. pc'[Worker] \in Preparing => contract'[loc'[Worker].c].status = "NONE"
  BY <1>2 DEF Exists
<1>. QED
  BY <1>1, <1>3 DEF SticksInv, Exists

LEMMA RowsStaySame ==
  ASSUME contract' = contract \/ (\E c \in Contracts : Exists(c) /\ contract' = Cancelled(c)),
         TypeInv, NEW p, NEW lab
  PROVE  RowsStay(p, lab)
<1>1. CASE contract' = contract
  BY <1>1 DEF RowsStay, Exists
<1>2. ASSUME NEW c \in Contracts, Exists(c), contract' = Cancelled(c)
      PROVE  RowsStay(p, lab)
  <2>1. \A d \in Contracts : d # c => contract'[d] = contract[d]
    BY <1>2 DEF Cancelled, TypeInv, Collections
  <2>. QED
    BY <1>2, <2>1 DEF RowsStay, Exists
<1>. QED
  BY <1>1, <1>2

LEMMA SticksCancel ==
  ASSUME TypeInv, SticksInv, NEW p \in Procs, CancelSteps(p) \/ AbortCommit(p)
  PROVE  SticksInv'
<1>1. PICK lab \in {"plainSave", "commitRelease", "readRelease", "saveRelease", "readPortsBack",
                    "savePortsBack", "readLinkBack", "saveLinkBack", "saveRow", "notifyCancel",
                    "broadcast", "erase"} : pc' = [pc EXCEPT ![p] = lab]
  <2>1. CASE FindContract(p)
    BY <2>1 DEF FindContract, Go, AfterCancel
  <2>2. CASE PlainSave(p) \/ CommitRelease(p) \/ ReadLinkBack(p) \/ SaveRow(p) \/ NotifyCancel(p)
    BY <2>2 DEF PlainSave, CommitRelease, ReadLinkBack, SaveRow, NotifyCancel, AfterCancel, Go
  <2>3. CASE ReadRelease(p) \/ SaveRelease(p) \/ ReadPortsBack(p) \/ SavePortsBack(p) \/ SaveLinkBack(p)
    BY <2>3 DEF ReadRelease, SaveRelease, ReadPortsBack, SavePortsBack, SaveLinkBack, ReadNro,
       SaveNro, ReadFdtDoc, SaveFdt, Go
  <2>4. CASE AbortCommit(p)
    <3>1. pc[p] = "commitRelease" /\ pc' = [pc EXCEPT ![p] = "commitRelease"]
      BY <2>4 DEF AbortCommit, TypeInv, Handlers
    <3>. QED
      BY <3>1
  <2>. QED
    BY <2>1, <2>2, <2>3, <2>4 DEF CancelSteps
<1>2. PICK l : loc' = [loc EXCEPT ![p] = l]
  <2>1. CASE loc' = loc
    BY <2>1, LocalsKept
  <2>2. CASE \E l : Hold(p, l)
    BY <2>2 DEF Hold
  <2>. QED
    BY <2>1, <2>2 DEF CancelSteps, FindContract, PlainSave, CommitRelease, ReadLinkBack, SaveRow,
       NotifyCancel, ReadRelease, SaveRelease, ReadPortsBack, SavePortsBack, SaveLinkBack,
       ReadNro, SaveNro, ReadFdtDoc, SaveFdt, AbortCommit
<1>3. contract' = contract \/ (\E c \in Contracts : Exists(c) /\ contract' = Cancelled(c))
  <2>1. loc[p].c \in Contracts
    BY DEF TypeInv, Handlers, Locals
  <2>2. CASE contract' = contract
    BY <2>2
  <2>3. CASE Exists(loc[p].c) /\ contract' = Cancelled(loc[p].c)
    BY <2>1, <2>3
  <2>. QED
    BY <2>2, <2>3 DEF CancelSteps, FindContract, PlainSave, CommitRelease, ReadLinkBack, SaveRow,
       NotifyCancel, ReadRelease, SaveRelease, ReadPortsBack, SavePortsBack, SaveLinkBack,
       ReadNro, SaveNro, ReadFdtDoc, SaveFdt, AbortCommit, Same, db
<1>4. lab \notin Preparing \cup Creating
  BY DEF Preparing, Creating
<1>. QED
  BY <1>1, <1>2, <1>3, <1>4, SticksStep, RowsStaySame

LEMMA SticksClaim ==
  ASSUME TypeInv, SticksInv, NEW p \in Procs, ClaimSteps(p)
  PROVE  p = Worker /\ SticksInv'
<1>1. /\ pc[p] \in Creating /\ pc[p] \in Preparing /\ contract' = contract
      /\ \E lab : pc' = [pc EXCEPT ![p] = lab]
  BY DEF ClaimSteps, ReadClaim, SaveClaim, ReadPorts, SavePorts, ReadNro, SaveNro, ReadFdtDoc,
     SaveFdt, Go, Creating, Preparing, db
<1>2. p = Worker
  BY <1>1, PipelineAssumption DEF SticksInv, Procs
<1>3. PICK l : loc' = [loc EXCEPT ![p] = l] /\ l.c = loc[p].c
  <2>1. CASE loc' = loc
    BY <2>1, LocalsKept
  <2>2. CASE Hold(p, [loc[p] EXCEPT !.doc = nro[loc[p].n]])
    BY <2>2, LocalsKept DEF Hold
  <2>3. CASE Hold(p, [loc[p] EXCEPT !.fdoc = fdt[loc[p].f]])
    BY <2>3, LocalsKept DEF Hold
  <2>. QED
    BY <2>1, <2>2, <2>3 DEF ClaimSteps, ReadClaim, SaveClaim, ReadPorts, SavePorts, ReadNro,
       SaveNro, ReadFdtDoc, SaveFdt
<1>. QED
  BY <1>1, <1>2, <1>3, SticksStep, RowsStaySame

LEMMA SticksNew ==
  ASSUME TypeInv, SticksInv, NewSteps(Worker)
  PROVE  SticksInv'
<1>0. Worker \in Procs /\ loc[Worker] \in Locals /\ loc = [loc EXCEPT ![Worker] = loc[Worker]]
  BY DEF Procs, TypeInv, Handlers
<1>1. CASE FindExisting(Worker)
  <2>. DEFINE lab == IF Exists(loc[Worker].c) THEN "broadcast" ELSE "resolveNro"
  <2>1. /\ pc' = [pc EXCEPT ![Worker] = lab]
        /\ lab \in Preparing => ~Exists(loc[Worker].c)
    BY <1>1 DEF FindExisting, Go, Preparing
  <2>. HIDE DEF lab
  <2>2. contract' = contract /\ loc' = loc
    BY <1>1 DEF FindExisting, db
  <2>. QED
    BY <1>0, <2>1, <2>2, SticksStep, RowsStaySame
<1>2. CASE ResolveNro(Worker)
  <2>1. contract' = contract /\ pc[Worker] \in Preparing /\ \E lab : pc' = [pc EXCEPT ![Worker] = lab]
    BY <1>2 DEF ResolveNro, Go, Preparing, db
  <2>2. ASSUME Hold(Worker, [loc[Worker] EXCEPT !.n = NoNro])
        PROVE  SticksInv'
    <3>. DEFINE l == [loc[Worker] EXCEPT !.n = NoNro]
    <3>1. loc' = [loc EXCEPT ![Worker] = l] /\ l.c = loc[Worker].c
      BY <1>0, <2>2 DEF Hold, Locals
    <3>. HIDE DEF l
    <3>. QED
      BY <1>0, <2>1, <3>1, SticksStep, RowsStaySame
  <2>3. ASSUME NEW n, Hold(Worker, [loc[Worker] EXCEPT !.n = n, !.f = loc[Worker].c, !.doc = nro[n]])
        PROVE  SticksInv'
    <3>. DEFINE l == [loc[Worker] EXCEPT !.n = n, !.f = loc[Worker].c, !.doc = nro[n]]
    <3>1. loc' = [loc EXCEPT ![Worker] = l] /\ l.c = loc[Worker].c
      BY <1>0, <2>3 DEF Hold, Locals
    <3>. HIDE DEF l
    <3>. QED
      BY <1>0, <2>1, <3>1, SticksStep, RowsStaySame
  <2>. QED
    BY <1>2, <2>2, <2>3 DEF ResolveNro
<1>3. CASE UpsertFdt(Worker)
  <2>1. /\ contract' = contract /\ loc' = loc /\ pc[Worker] \in Preparing
        /\ pc' = [pc EXCEPT ![Worker] = "readPorts"]
    BY <1>3 DEF UpsertFdt, Go, Preparing
  <2>. QED
    BY <1>0, <2>1, SticksStep, RowsStaySame
<1>4. CASE \/ Refuse(Worker) \/ CommitClaim(Worker) \/ UpsertRow(Worker) \/ ReadLink(Worker)
           \/ SaveLink(Worker) \/ CountLink(Worker) \/ NotifyNew(Worker)
  <2>1. PICK lab \in {"notifyNew", "readLink", "saveLink", "countLink", "broadcast"} :
          pc' = [pc EXCEPT ![Worker] = lab]
    BY <1>4 DEF Refuse, CommitClaim, UpsertRow, ReadLink, SaveLink, CountLink, NotifyNew,
       ReadFdtDoc, SaveFdt, Go
  <2>2. lab \notin Preparing
    BY DEF Preparing
  <2>3. PICK l : loc' = [loc EXCEPT ![Worker] = l]
    <3>1. CASE loc' = loc
      BY <1>0, <3>1
    <3>2. CASE \E l : Hold(Worker, l)
      BY <3>2 DEF Hold
    <3>. QED
      BY <1>4, <3>1, <3>2 DEF Refuse, CommitClaim, UpsertRow, ReadLink, SaveLink, CountLink,
         NotifyNew, ReadFdtDoc, SaveFdt
  <2>. QED
    BY <1>0, <2>1, <2>2, <2>3, SticksStep DEF RowsStay
<1>. QED
  BY <1>1, <1>2, <1>3, <1>4 DEF NewSteps

LEMMA SticksJob ==
  ASSUME TypeInv, SticksInv, TakeJob \/ Broadcast \/ Complete \/ NroSteps(Worker)
  PROVE  SticksInv'
<1>0. Worker \in Procs /\ loc = [loc EXCEPT ![Worker] = loc[Worker]]
  BY DEF Procs, TypeInv, Handlers
<1>1. PICK lab : pc' = [pc EXCEPT ![Worker] = lab] /\ lab \notin Preparing
  <2>1. CASE TakeJob
    <3>1. wait # <<>> /\ pc' = [pc EXCEPT ![Worker] = Entry(jobs[Head(wait)].ev.type)]
      BY <2>1 DEF TakeJob, Go
    <3>2. Head(wait) \in 1..Len(jobs)
      BY <3>1, HeadTailProperties DEF TypeInv, Queue
    <3>3. jobs[Head(wait)] \in Job
      BY <3>2, ElementOfSeq DEF TypeInv, Queue
    <3>4. jobs[Head(wait)].ev.type \in EventType
      BY <3>3 DEF Job, Event
    <3>5. Entry(jobs[Head(wait)].ev.type) \notin Preparing
      BY <3>4 DEF EventType, Entry, Preparing
    <3>. QED
      BY <3>1, <3>5
  <2>2. CASE Broadcast \/ Complete
    BY <2>2 DEF Broadcast, Complete, Finish, Go, Preparing
  <2>3. CASE NroSteps(Worker)
    BY <2>3 DEF NroSteps, UpsertNro, ReadUpdate, SaveUpdate, ReadDelete, SaveDelete, ReadNro,
       SaveNro, Go, Preparing
  <2>. QED
    BY <2>1, <2>2, <2>3
<1>2. PICK l : loc' = [loc EXCEPT ![Worker] = l]
  <2>1. CASE loc' = loc
    BY <1>0, <2>1
  <2>2. CASE \E l : Hold(Worker, l)
    BY <2>2 DEF Hold
  <2>3. CASE Complete
    BY <2>3 DEF Complete, Finish
  <2>. QED
    BY <2>1, <2>2, <2>3 DEF TakeJob, Broadcast, NroSteps, UpsertNro, ReadUpdate, SaveUpdate,
       ReadDelete, SaveDelete, ReadNro, SaveNro
<1>. QED
  BY <1>0, <1>1, <1>2, SticksStep DEF RowsStay

LEMMA SticksFinish ==
  ASSUME TypeInv, SticksInv, NEW p \in Procs, Finish(p), RowsStay(p, "idle")
  PROVE  SticksInv'
<1>1. "idle" \notin Preparing /\ "idle" \notin Creating
  BY DEF Preparing, Creating
<1>. QED
  BY <1>1, SticksStep DEF Finish

LEMMA SticksRest ==
  ASSUME "create" \notin RestOps, TypeInv, SticksInv, NEW r \in Requests,
         \/ \E c \in Contracts : PostContract(r, c) \/ DeleteContract(r, c)
         \/ RestSteps(r)
  PROVE  SticksInv'
<1>0. r \in Procs /\ r # Worker
  BY PipelineAssumption DEF Procs
<1>1. ASSUME NEW lab \in {"findById", "findContract"}, pc' = [pc EXCEPT ![r] = lab],
             \E l : Hold(r, l), contract' = contract
      PROVE  SticksInv'
  BY <1>0, <1>1, SticksStep, RowsStaySame DEF Hold, Creating
<1>2. ASSUME NEW c \in Contracts, PostContract(r, c) \/ DeleteContract(r, c)
      PROVE  SticksInv'
  <2>1. DeleteContract(r, c)
    BY <1>2 DEF PostContract, Call
  <2>2. /\ pc' = [pc EXCEPT ![r] = "findById"] /\ Hold(r, [Blank EXCEPT !.c = c])
        /\ contract' = contract
    BY <2>1 DEF DeleteContract, Call, Go, db
  <2>. QED
    BY <1>1, <2>2
<1>3. ~ResolveParents(r) /\ ~InsertRow(r)
  BY DEF SticksInv, Creating, ResolveParents, InsertRow, Go
<1>4. CASE FindById(r)
  <2>1. CASE Finish(r)
    <3>1. contract' = contract
      BY <1>4 DEF FindById, db
    <3>. QED
      BY <1>0, <2>1, <3>1, SticksFinish, RowsStaySame
  <2>2. CASE ~Finish(r)
    BY <1>1, <1>4, <2>2 DEF FindById, Go, db
  <2>. QED
    BY <2>1, <2>2
<1>5. CASE Erase(r)
  <2>1. Finish(r) /\ (contract' = [contract EXCEPT ![loc[r].c] = NoContract] \/ contract' = contract)
    BY <1>5 DEF Erase
  <2>2. RowsStay(r, "idle")
    BY <2>1 DEF RowsStay, Exists, NoContract, TypeInv, Collections
  <2>. QED
    BY <1>0, <2>1, <2>2, SticksFinish
<1>. QED
  BY <1>2, <1>3, <1>4, <1>5 DEF RestSteps

LEMMA SticksFails ==
  ASSUME TypeInv, SticksInv, NEW p \in Procs, WriteRefused(p) \/ CallFails(p)
  PROVE  SticksInv'
<1>1. CASE Throw(p)
  <2>1. Finish(p) /\ contract' = contract
    BY <1>1 DEF Throw, db
  <2>. QED
    BY <2>1, SticksFinish, RowsStaySame
<1>2. CASE ~Throw(p)
  <2>1. /\ pc' = [pc EXCEPT ![p] = "notifyNew"] /\ loc' = [loc EXCEPT ![p] = loc[p]]
        /\ contract' = contract
    BY <1>2, LocalsKept DEF WriteRefused, CallFails, db
  <2>2. "notifyNew" \notin Preparing /\ "notifyNew" \notin Creating
    BY DEF Preparing, Creating
  <2>. QED
    BY <2>1, <2>2, SticksStep, RowsStaySame
<1>. QED
  BY <1>1, <1>2

LEMMA SticksNext ==
  ASSUME "create" \notin RestOps, TypeInv, SticksInv, [Next]_vars
  PROVE  SticksInv'
<1>0. Worker \in Procs /\ Requests \subseteq Procs
  BY DEF Procs
<1>1. CASE WorkerStep
  BY <1>0, <1>1, SticksJob, SticksNew, SticksClaim, SticksCancel, SticksFails DEF WorkerStep
<1>2. ASSUME NEW r \in Requests, RequestStep(r)
      PROVE  SticksInv'
  <2>1. CASE EditSteps(r)
    <3>1. /\ pc' = [pc EXCEPT ![r] = pc'[r]] /\ loc' = [loc EXCEPT ![r] = loc'[r]]
          /\ contract' = contract /\ r # Worker /\ pc'[r] \in {"idle", "saveEdit"}
      BY <2>1, EditStep
    <3>2. pc'[r] \notin Creating
      BY <3>1 DEF Creating
    <3>. QED
      BY <1>0, <3>1, <3>2, SticksStep, RowsStaySame
  <2>. QED
    BY <1>0, <1>2, <2>1, SticksRest, SticksClaim, SticksCancel, SticksFails DEF RequestStep
<1>3. ASSUME UNCHANGED <<contract, pc, loc>>
      PROVE  SticksInv'
  BY <1>3 DEF SticksInv, Exists
<1>4. ASSUME NEW ev \in Events, Enqueue(ev)
      PROVE  SticksInv'
  BY <1>3, <1>4 DEF Enqueue, db
<1>5. ASSUME NEW id \in DOMAIN jobs, Promote(id) \/ Recover(id)
      PROVE  SticksInv'
  BY <1>3, <1>5 DEF Promote, Recover, db
<1>6. CASE Crash
  <2>1. \A p \in Procs : pc'[p] = "idle"
    BY <1>6 DEF Crash
  <2>2. "idle" \notin Preparing /\ "idle" \notin Creating
    BY DEF Preparing, Creating
  <2>. QED
    BY <1>0, <2>1, <2>2 DEF SticksInv
<1>7. CASE Failure
  BY <1>6, <1>7, SticksFails, SticksCancel DEF Failure
<1>8. CASE UNCHANGED vars
  BY <1>3, <1>8 DEF vars
<1>. QED
  BY <1>1, <1>2, <1>4, <1>5, <1>7, <1>8 DEF Next, AllDone

\* Only a commit, an upsert or an insert makes a row ACTIVE, and only of an absent one.
LEMMA ActiveFromNothing ==
  ASSUME "create" \notin RestOps, TypeInv, SticksInv, [Next]_vars,
         NEW c \in Contracts, contract[c].status \in {"FAILED", "CANCELLED"}
  PROVE  contract'[c].status # "ACTIVE"
<1>0. /\ Worker \in Procs /\ Requests \subseteq Procs /\ contract \in [Contracts -> ContractRow]
      /\ \A p \in Procs : loc[p].c \in Contracts
  BY DEF Procs, TypeInv, Handlers, Locals, Collections
<1>1. CASE contract'[c] = contract[c]
  BY <1>1
<1>2. ASSUME NEW d \in Contracts, contract' = Cancelled(d)
      PROVE  contract'[c].status # "ACTIVE"
  BY <1>0, <1>2 DEF Cancelled
<1>3. ASSUME NEW d \in Contracts, NEW status, NEW n, NEW f, PutRow(d, status, n, f), ~Exists(d)
      PROVE  contract'[c].status # "ACTIVE"
  <2>1. c # d
    BY <1>3 DEF Exists
  <2>. QED
    BY <1>0, <1>3, <2>1 DEF PutRow
<1>4. ASSUME NEW p \in Procs, CancelSteps(p)
      PROVE  contract'[c].status # "ACTIVE"
  <2>1. contract' = contract \/ contract' = Cancelled(loc[p].c)
    BY <1>4 DEF CancelSteps, FindContract, PlainSave, CommitRelease, ReadLinkBack, SaveRow,
       NotifyCancel, ReadRelease, SaveRelease, ReadPortsBack, SavePortsBack, SaveLinkBack,
       ReadNro, SaveNro, ReadFdtDoc, SaveFdt, db
  <2>. QED
    BY <1>0, <1>1, <1>2, <2>1
<1>5. ASSUME NEW p \in Procs, ClaimSteps(p) \/ WriteRefused(p) \/ CallFails(p) \/ AbortCommit(p)
      PROVE  contract'[c].status # "ACTIVE"
  <2>1. contract' = contract
    BY <1>5 DEF ClaimSteps, ReadClaim, SaveClaim, ReadPorts, SavePorts, ReadNro, SaveNro,
       ReadFdtDoc, SaveFdt, WriteRefused, CallFails, AbortCommit, Throw, db
  <2>. QED
    BY <1>1, <2>1
<1>6. CASE NewSteps(Worker)
  <2>1. CASE Refuse(Worker)
    BY <1>0, <1>3, <2>1 DEF Refuse
  <2>2. CASE CommitClaim(Worker) \/ UpsertRow(Worker)
    <3>1. ~Exists(loc[Worker].c)
      BY <2>2 DEF CommitClaim, UpsertRow, Go, SticksInv, Preparing
    <3>2. PutRow(loc[Worker].c, "ACTIVE", loc[Worker].n, loc[Worker].c)
      BY <2>2 DEF CommitClaim, UpsertRow
    <3>. QED
      BY <1>0, <1>3, <3>1, <3>2
  <2>3. CASE ~(Refuse(Worker) \/ CommitClaim(Worker) \/ UpsertRow(Worker))
    <3>1. contract' = contract
      BY <1>6, <2>3 DEF NewSteps, FindExisting, ResolveNro, UpsertFdt, ReadLink, SaveLink,
         CountLink, NotifyNew, ReadFdtDoc, SaveFdt, db
    <3>. QED
      BY <1>1, <3>1
  <2>. QED
    BY <2>1, <2>2, <2>3
<1>7. CASE TakeJob \/ Broadcast \/ Complete \/ NroSteps(Worker)
  <2>1. contract' = contract
    BY <1>7 DEF TakeJob, Broadcast, Complete, NroSteps, UpsertNro, ReadUpdate, SaveUpdate,
       ReadDelete, SaveDelete, ReadNro, SaveNro, db
  <2>. QED
    BY <1>1, <2>1
<1>8. CASE WorkerStep
  BY <1>0, <1>4, <1>5, <1>6, <1>7, <1>8 DEF WorkerStep
<1>9. ASSUME NEW r \in Requests, RequestStep(r)
      PROVE  contract'[c].status # "ACTIVE"
  <2>1. ASSUME NEW d \in Contracts, PostContract(r, d) \/ DeleteContract(r, d)
        PROVE  contract'[c].status # "ACTIVE"
    BY <1>1, <2>1 DEF PostContract, DeleteContract, Call, db
  <2>2. CASE RestSteps(r)
    <3>1. ~ResolveParents(r) /\ ~InsertRow(r)
      BY DEF SticksInv, Creating, ResolveParents, InsertRow, Go
    <3>2. contract' = contract \/ contract' = [contract EXCEPT ![loc[r].c] = NoContract]
      BY <2>2, <3>1 DEF RestSteps, FindById, Erase, db
    <3>3. NoContract.status = "NONE"
      BY DEF NoContract
    <3>. QED
      BY <1>0, <1>1, <3>2, <3>3
  <2>3. CASE EditSteps(r)
    BY <1>1, <2>3, EditStep
  <2>. QED
    BY <1>0, <1>4, <1>5, <1>9, <2>1, <2>2, <2>3 DEF RequestStep
<1>10. CASE contract' = contract
  BY <1>1, <1>10
<1>11. CASE Failure
  BY <1>5, <1>10, <1>11 DEF Failure, Crash, db
<1>. QED
  BY <1>8, <1>9, <1>10, <1>11 DEF Next, AllDone, Enqueue, Promote, Recover, vars, db

\* A refused or cancelled contract document never becomes ACTIVE, on a replica set or not,
\* as long as rows are created by events only (POST /contracts inserts one under the worker).
THEOREM EndedStaysEnded ==
  ASSUME "create" \notin RestOps
  PROVE  Spec => StatusSticks
<1>1. Init => SticksInv
  <2>1. Init => \A p \in Procs : pc[p] = "idle"
    BY DEF Init
  <2>2. "idle" \notin Preparing /\ "idle" \notin Creating
    BY DEF Preparing, Creating
  <2>. QED
    BY <2>1, <2>2 DEF SticksInv, Procs
<1>2. TypeInv /\ SticksInv /\ [Next]_vars => SticksInv'
  BY SticksNext
<1>3. TypeInv /\ SticksInv /\ [Next]_vars =>
        [\A c \in Contracts :
           contract[c].status \in {"FAILED", "CANCELLED"} /\ contract'[c].oid = contract[c].oid
             => contract'[c].status # "ACTIVE"]_vars
  BY ActiveFromNothing
<1>. QED
  BY <1>1, <1>2, <1>3, TypeInvCorrect, PTL DEF Spec, StatusSticks

=============================================================================
