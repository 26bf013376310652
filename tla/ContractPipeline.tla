-------------------------- MODULE ContractPipeline --------------------------
(***************************************************************************)
(* The contract pipeline: the BullMQ worker that applies external events   *)
(* (contracts.new, contracts.cancel, nro.new, nro.update, nro.delete) and  *)
(* the REST handlers that create and delete contracts, all of them         *)
(* accounting contracts against the capacity of NROs and the ports of      *)
(* FDTs kept in MongoDB; and the REST handlers that change or delete an    *)
(* NRO while contracts are being accounted on it.                          *)
(*                                                                         *)
(* One process runs the worker (concurrency 1) and the REST handlers; a    *)
(* handler is a sequence of awaited database calls and every await is a    *)
(* point where another handler may run, so one action is one call.  The    *)
(* two multi-document updates run in a MongoDB transaction when the        *)
(* deployment has a replica set (Transactional), and as plain calls when   *)
(* it is a standalone server, which is what the code falls back to.        *)
(***************************************************************************)
EXTENDS NetworkState, Gigabytes, Sequences

CONSTANTS
  Nros, Contracts, ManualFdts,
  NoNro, NoFdt,        \* the absent reference
  Worker, Requests,    \* the processes: the BullMQ worker, the REST calls in flight
  Gb,                  \* offreGB of each contract
  Phone,               \* numeroTelephone of each contract (a unique index)
  Reach,               \* the NROs of the zone a contract's coordinates fall in
  Capacity,            \* maxCapacity each NRO starts with
  PortsTotal,          \* nbPortsTotal of each FDT
  Home,                \* the NRO each manually created FDT hangs from
  Transactional,       \* replica set (TRUE) or standalone MongoDB (FALSE)
  Events,              \* the events upstream may send
  RestOps,             \* the REST operations in use
  Edits,               \* what the administrator may set on an NRO
  MaxAttempts,         \* BullMQ's attempts per job
  MaxJobs, MaxCalls, MaxFaults   \* bounds on events, REST calls and failures

\* The FDT of an event's contract is its own, "fdt-contract-<externalId>".
Fdts == Contracts \cup ManualFdts
Procs == {Worker} \cup Requests

EventType == {"contracts.new", "contracts.cancel", "nro.new", "nro.update", "nro.delete"}
\* A field that an event type does not carry is ignored.
Event == [type : EventType, c : Contracts, n : Nros, max : Nat]

\* PATCH /nro sets the fields it is given; DELETE /nro sets the status.
Edit == [max : Nat] \cup [status : NroStatus] \cup [max : Nat, status : NroStatus]

ASSUME PipelineAssumption ==
  /\ NoNro \notin Nros /\ NoFdt \notin Fdts
  /\ Worker \notin Requests
  /\ IsFiniteSet(Contracts) /\ IsFiniteSet(ManualFdts)
  /\ Contracts # {} /\ Contracts \cap ManualFdts = {}
  /\ Gb \in [Contracts -> Nat] /\ Capacity \in [Nros -> Nat]
  /\ Reach \in [Contracts -> SUBSET Nros] /\ Home \in [ManualFdts -> Nros]
  /\ PortsTotal \in [Fdts -> Nat \ {0}]
  /\ Transactional \in BOOLEAN
  /\ Events \subseteq Event /\ Edits \subseteq Edit
  /\ RestOps \subseteq {"create", "delete", "edit"}
  /\ MaxAttempts \in Nat \ {0}
  /\ MaxJobs \in Nat /\ MaxCalls \in Nat /\ MaxFaults \in Nat

VARIABLES
  nro, fdt, contract,   \* the collections
  jobs, wait,           \* the queue in Redis: every job, and the waiting ones in order
  pc, loc,              \* the handler of each process, and the documents it holds
  born, told, announced,\* history, per contract: rows inserted, CONTRACT_NEW
                        \* notifications stored, new_contract events broadcast
  calls, faults         \* what the bounds have been spent on

db == <<nro, fdt, contract>>
redis == <<jobs, wait>>
history == <<born, told, announced>>
vars == <<nro, fdt, contract, jobs, wait, pc, loc, born, told, announced, calls, faults>>

-----------------------------------------------------------------------------
FdtDoc == [exists : BOOLEAN, nro : Nros \cup {NoNro}, ports : Nat, active : Nat]

\* oid tells the successive documents of one externalId apart, as _id does.
ContractRow == [status : {"NONE", "ACTIVE", "CANCELLED", "FAILED"},
                nro : Nros \cup {NoNro}, fdt : Fdts \cup {NoFdt}, oid : Nat]
NoContract == [status |-> "NONE", nro |-> NoNro, fdt |-> NoFdt, oid |-> 0]

Job == [ev : Event, state : {"wait", "active", "delayed", "completed", "failed"},
        made : Nat, stalls : Nat]

Label == {"idle", "findExisting", "resolveNro", "refuse", "commitClaim",
          "readClaim", "saveClaim", "upsertFdt", "readPorts", "savePorts", "upsertRow",
          "readLink", "saveLink", "countLink", "notifyNew", "broadcast", "complete",
          "findContract", "plainSave", "commitRelease", "readRelease", "saveRelease",
          "readPortsBack", "savePortsBack", "readLinkBack", "saveLinkBack", "saveRow",
          "notifyCancel", "findById", "erase", "readFdt", "insertRow",
          "upsertNro", "readUpdate", "saveUpdate", "readDelete", "saveDelete", "saveEdit"}

NoNroDoc == [load |-> 0, max |-> 0, status |-> "ACTIVE", fdts |-> 0]
NoFdtDoc == [exists |-> FALSE, nro |-> NoNro, ports |-> 0, active |-> 0]

\* What a handler holds between two calls: its job, the contract, NRO and FDT it
\* works on, the documents it read, whether its contract document is modified,
\* the document a DELETE is for, and whether its result carries new_contract.
Locals == [job : Nat, c : Contracts, n : Nros \cup {NoNro}, f : Fdts \cup {NoFdt}, max : Nat,
           doc : NroDoc, fdoc : FdtDoc, row : ContractRow, dirty : BOOLEAN,
           target : Nat, news : BOOLEAN]
Blank == [job |-> 0, c |-> CHOOSE c \in Contracts : TRUE, n |-> NoNro, f |-> NoFdt, max |-> 0,
          doc |-> NoNroDoc, fdoc |-> NoFdtDoc, row |-> NoContract, dirty |-> FALSE,
          target |-> 0, news |-> FALSE]

TypeOK ==
  /\ nro \in [Nros -> NroDoc]
  /\ fdt \in [Fdts -> FdtDoc]
  /\ contract \in [Contracts -> ContractRow]
  /\ jobs \in Seq(Job) /\ wait \in Seq(Nat)
  /\ pc \in [Procs -> Label]
  /\ loc \in [Procs -> Locals]
  /\ born \in [Contracts -> Nat] /\ told \in [Contracts -> Nat]
  /\ announced \in [Contracts -> Nat]
  /\ calls \in 0..MaxCalls /\ faults \in 0..MaxFaults

Init ==
  /\ nro = [n \in Nros |-> [load |-> 0, max |-> Capacity[n], status |-> "ACTIVE", fdts |-> 0]]
  /\ fdt = [f \in Fdts |-> IF f \in ManualFdts
                           THEN [NoFdtDoc EXCEPT !.exists = TRUE, !.nro = Home[f]]
                           ELSE NoFdtDoc]
  /\ contract = [c \in Contracts |-> NoContract]
  /\ jobs = <<>> /\ wait = <<>>
  /\ pc = [p \in Procs |-> "idle"] /\ loc = [p \in Procs |-> Blank]
  /\ born = [c \in Contracts |-> 0] /\ told = born /\ announced = born
  /\ calls = 0 /\ faults = 0

-----------------------------------------------------------------------------
(* Steps of a handler.                                                     *)

Go(p, from, to) == pc[p] = from /\ pc' = [pc EXCEPT ![p] = to]

Hold(p, l) == loc' = [loc EXCEPT ![p] = l]

Finish(p) == pc' = [pc EXCEPT ![p] = "idle"] /\ loc' = [loc EXCEPT ![p] = Blank]

Exists(c) == contract[c].status # "NONE"

\* numeroTelephone is unique over all rows, whatever their status.
PhoneTaken(c) == \E d \in Contracts \ {c} : Exists(d) /\ Phone[d] = Phone[c]

\* The document a handler read is still there.
Same(l) == Exists(l.c) /\ contract[l.c].oid = l.row.oid

\* Writes the row of a contract; a row of that externalId is updated in place.
PutRow(c, status, n, f) ==
  /\ contract' = [contract EXCEPT ![c] =
       [status |-> status, nro |-> n, fdt |-> f,
        oid |-> IF Exists(c) THEN @.oid ELSE born[c] + 1]]
  /\ born' = [born EXCEPT ![c] = IF Exists(c) THEN @ ELSE @ + 1]

ReadNro(p, from, to) ==
  /\ Go(p, from, to) /\ Hold(p, [loc[p] EXCEPT !.doc = nro[loc[p].n]])
  /\ UNCHANGED <<db, redis, history, calls, faults>>

SaveNro(p, from, new, to) ==
  /\ Go(p, from, to)
  /\ nro' = [nro EXCEPT ![loc[p].n] = SaveModified(@, loc[p].doc, new)]
  /\ UNCHANGED <<fdt, contract, redis, loc, history, calls, faults>>

ReadFdtDoc(p, from, to) ==
  /\ Go(p, from, to) /\ Hold(p, [loc[p] EXCEPT !.fdoc = fdt[loc[p].f]])
  /\ UNCHANGED <<db, redis, history, calls, faults>>

SaveFdt(p, from, new, to) ==
  /\ Go(p, from, to)
  /\ fdt' = [fdt EXCEPT ![loc[p].f] = SaveModified(@, loc[p].fdoc, new)]
  /\ UNCHANGED <<nro, contract, redis, loc, history, calls, faults>>

-----------------------------------------------------------------------------
(* contracts.new, on the worker.                                           *)

\* Faulty variants: the event is not checked against the rows; refused and cancelled
\* rows are taken for new contracts.
FindNothing(p) ==
  /\ Go(p, "findExisting", "resolveNro")
  /\ UNCHANGED <<db, redis, loc, history, calls, faults>>
FindLive(p) ==
  /\ Go(p, "findExisting",
        IF contract[loc[p].c].status = "ACTIVE" THEN "broadcast" ELSE "resolveNro")
  /\ UNCHANGED <<db, redis, loc, history, calls, faults>>

FindExisting(p) ==
  /\ Go(p, "findExisting", IF Exists(loc[p].c) THEN "broadcast" ELSE "resolveNro")
  /\ UNCHANGED <<db, redis, loc, history, calls, faults>>

\* The nearest ACTIVE NRO of the zone, and the capacity check on the copy just read.
ResolveNro(p) ==
  LET c == loc[p].c
      active == {n \in Reach[c] : nro[n].status = "ACTIVE"}
  IN  /\ \/ /\ active = {}
            /\ Go(p, "resolveNro", "refuse")
            /\ Hold(p, [loc[p] EXCEPT !.n = NoNro])
         \/ \E n \in active :
              /\ Go(p, "resolveNro", IF ~HasCapacityFor(nro[n], Gb[c]) THEN "refuse"
                                     ELSE IF Transactional THEN "commitClaim"
                                     ELSE "readClaim")
              /\ Hold(p, [loc[p] EXCEPT !.n = n, !.f = c, !.doc = nro[n]])
      /\ UNCHANGED <<db, redis, history, calls, faults>>

\* NO_NRO_AVAILABLE and CAPACITY_EXCEEDED both leave a FAILED row; the second names
\* the NRO that refused it.
Refuse(p) ==
  LET c == loc[p].c IN
  /\ Go(p, "refuse", "notifyNew")
  /\ ~Exists(c) /\ ~PhoneTaken(c)
  /\ PutRow(c, "FAILED", loc[p].n, NoFdt)
  /\ UNCHANGED <<nro, fdt, redis, loc, told, announced, calls, faults>>

\* Faulty variant: updateCapacite works on the copy the capacity check read.
CommitStaleClaim(p) ==
  LET c == loc[p].c
      n == loc[p].n
  IN  /\ Go(p, "commitClaim", "readLink")
      /\ ~PhoneTaken(c)
      /\ nro' = [nro EXCEPT ![n] = UpdateCapacite(loc[p].doc, Gb[c])]
      /\ fdt' = [fdt EXCEPT ![c] = UpdatePorts([@ EXCEPT !.exists = TRUE, !.nro = n], 1,
                                               PortsTotal[c])]
      /\ PutRow(c, "ACTIVE", n, c)
      /\ Hold(p, [loc[p] EXCEPT !.news = TRUE])
      /\ UNCHANGED <<redis, told, announced, calls, faults>>

\* executeContractCreation in a transaction: all of it on committed documents, or none.
CommitClaim(p) ==
  LET c == loc[p].c
      n == loc[p].n
  IN  /\ Go(p, "commitClaim", "readLink")
      /\ ~PhoneTaken(c)
      /\ nro' = [nro EXCEPT ![n] = UpdateCapacite(@, Gb[c])]
      /\ fdt' = [fdt EXCEPT ![c] = UpdatePorts([@ EXCEPT !.exists = TRUE, !.nro = n], 1,
                                               PortsTotal[c])]
      /\ PutRow(c, "ACTIVE", n, c)
      /\ Hold(p, [loc[p] EXCEPT !.news = TRUE])
      /\ UNCHANGED <<redis, told, announced, calls, faults>>

\* executeContractCreation without a session, one call at a time.  POST /contracts
\* shares the calls that update the NRO and the ports.
ReadClaim(p) == ReadNro(p, "readClaim", "saveClaim")
SaveClaim(p) == SaveNro(p, "saveClaim", UpdateCapacite(loc[p].doc, Gb[loc[p].c]),
                        IF p = Worker THEN "upsertFdt" ELSE "readPorts")
UpsertFdt(p) ==
  /\ Go(p, "upsertFdt", "readPorts")
  /\ fdt' = [fdt EXCEPT ![loc[p].f] = [@ EXCEPT !.exists = TRUE, !.nro = loc[p].n]]
  /\ UNCHANGED <<nro, contract, redis, loc, history, calls, faults>>
ReadPorts(p) == ReadFdtDoc(p, "readPorts", "savePorts")
SavePorts(p) == SaveFdt(p, "savePorts", UpdatePorts(loc[p].fdoc, 1, PortsTotal[loc[p].f]),
                        IF p = Worker THEN "upsertRow" ELSE "insertRow")
UpsertRow(p) ==
  LET c == loc[p].c IN
  /\ Go(p, "upsertRow", "readLink")
  /\ ~PhoneTaken(c)
  /\ PutRow(c, "ACTIVE", loc[p].n, c)
  /\ Hold(p, [loc[p] EXCEPT !.news = TRUE])
  /\ UNCHANGED <<nro, fdt, redis, told, announced, calls, faults>>

\* registerContractLink, outside the transaction.
ReadLink(p) == ReadFdtDoc(p, "readLink", "saveLink")
SaveLink(p) == SaveFdt(p, "saveLink", [loc[p].fdoc EXCEPT !.active = @ + 1], "countLink")
CountLink(p) ==
  LET n == loc[p].n IN
  /\ Go(p, "countLink", "notifyNew")
  /\ nro' = [nro EXCEPT ![n].fdts = Cardinality({f \in Fdts : fdt[f].exists /\ fdt[f].nro = n})]
  /\ UNCHANGED <<fdt, contract, redis, loc, history, calls, faults>>

NotifyNew(p) ==
  /\ Go(p, "notifyNew", "broadcast")
  /\ told' = [told EXCEPT ![loc[p].c] = @ + 1]
  /\ UNCHANGED <<db, redis, loc, born, announced, calls, faults>>

-----------------------------------------------------------------------------
(* Cancellation, by a contracts.cancel event or under DELETE /contracts.   *)

AfterCancel(p) == IF p = Worker THEN "broadcast" ELSE "erase"

FindContract(p) ==
  LET row == contract[loc[p].c] IN
  /\ Go(p, "findContract",
        CASE row.status = "NONE" -> "notifyCancel"
          [] row.status = "CANCELLED" -> AfterCancel(p)
          [] OTHER -> IF row.nro = NoNro THEN "plainSave"
                      ELSE IF Transactional THEN "commitRelease" ELSE "readRelease")
  /\ Hold(p, [loc[p] EXCEPT !.row = row, !.n = row.nro, !.f = row.fdt, !.dirty = TRUE])
  /\ UNCHANGED <<db, redis, history, calls, faults>>

Cancelled(c) == [contract EXCEPT ![c].status = "CANCELLED"]

PlainSave(p) ==
  /\ Go(p, "plainSave", "notifyCancel")
  /\ Same(loc[p])
  /\ contract' = Cancelled(loc[p].c)
  /\ UNCHANGED <<nro, fdt, redis, loc, history, calls, faults>>

\* Faulty variants: the client, or the port, is never given back.
FreedPort(f, link) ==
  [g \in Fdts |-> IF g = f /\ fdt[g].exists THEN UpdatePorts(fdt[g], -1, PortsTotal[g]) ELSE fdt[g]]
FreedClient(f, link) ==
  [g \in Fdts |-> IF g = link THEN [fdt[g] EXCEPT !.active = AtLeastZero(@ - 1)] ELSE fdt[g]]

\* The FDTs after a release: the port on the FDT the handler knows, the client on
\* the FDT the contract's row names now.
Freed(f, link) ==
  [g \in Fdts |->
     LET doc == IF g = f /\ fdt[g].exists THEN UpdatePorts(fdt[g], -1, PortsTotal[g]) ELSE fdt[g]
     IN  IF g = link THEN [doc EXCEPT !.active = AtLeastZero(@ - 1)] ELSE doc]

\* executeContractCancel in a transaction.  The status is written only while the
\* contract document held in memory is modified.
CommitRelease(p) ==
  LET c == loc[p].c IN
      /\ Go(p, "commitRelease", "notifyCancel")
      /\ Same(loc[p])
      /\ nro' = [nro EXCEPT ![loc[p].n] = UpdateCapacite(@, -Gb[c])]
      /\ fdt' = Freed(loc[p].f, contract[c].fdt)
      /\ contract' = IF loc[p].dirty THEN Cancelled(c) ELSE contract
      /\ UNCHANGED <<redis, loc, history, calls, faults>>

\* The commit fails with a transient error after contract.save(): nothing is written,
\* withTransaction runs the callback again, and the document is no longer modified.
AbortCommit(p) ==
  /\ pc[p] = "commitRelease" /\ Same(loc[p]) /\ faults < MaxFaults
  /\ Hold(p, [loc[p] EXCEPT !.dirty = FALSE])
  /\ faults' = faults + 1
  /\ UNCHANGED <<db, redis, pc, history, calls>>

ReadRelease(p) == ReadNro(p, "readRelease", "saveRelease")
\* Faulty variant: forgets the ports and the client.
SaveReleaseOnly(p) == SaveNro(p, "saveRelease", UpdateCapacite(loc[p].doc, -Gb[loc[p].c]),
                              "saveRow")
SaveRelease(p) == SaveNro(p, "saveRelease", UpdateCapacite(loc[p].doc, -Gb[loc[p].c]),
                          IF loc[p].f = NoFdt THEN "readLinkBack" ELSE "readPortsBack")
ReadPortsBack(p) == ReadFdtDoc(p, "readPortsBack", "savePortsBack")
SavePortsBack(p) == SaveFdt(p, "savePortsBack",
                            UpdatePorts(loc[p].fdoc, -1, PortsTotal[loc[p].f]), "readLinkBack")
\* releaseContractTopology reads the contract again, and frees the client of its FDT.
ReadLinkBack(p) ==
  LET row == contract[loc[p].c]
      linked == Same(loc[p]) /\ row.fdt # NoFdt
  IN  /\ Go(p, "readLinkBack", IF linked THEN "saveLinkBack" ELSE "saveRow")
      /\ Hold(p, IF linked THEN [loc[p] EXCEPT !.f = row.fdt, !.fdoc = fdt[row.fdt]]
                 ELSE loc[p])
      /\ UNCHANGED <<db, redis, history, calls, faults>>
SaveLinkBack(p) == SaveFdt(p, "saveLinkBack",
                           [loc[p].fdoc EXCEPT !.active = AtLeastZero(@ - 1)], "saveRow")
SaveRow(p) ==
  /\ Go(p, "saveRow", "notifyCancel")
  /\ Same(loc[p])
  /\ contract' = Cancelled(loc[p].c)
  /\ UNCHANGED <<nro, fdt, redis, loc, history, calls, faults>>

NotifyCancel(p) ==
  /\ Go(p, "notifyCancel", AfterCancel(p))
  /\ UNCHANGED <<db, redis, loc, history, calls, faults>>

-----------------------------------------------------------------------------
(* The worker's NRO events.                                                *)

UpsertNro(p) ==
  /\ Go(p, "upsertNro", "broadcast")
  /\ nro' = [nro EXCEPT ![loc[p].n] = NewNro(@, loc[p].max)]
  /\ UNCHANGED <<fdt, contract, redis, loc, history, calls, faults>>

ReadUpdate(p) == ReadNro(p, "readUpdate", "saveUpdate")
SaveUpdate(p) == SaveNro(p, "saveUpdate", UpdateNro(loc[p].doc, loc[p].max), "broadcast")
ReadDelete(p) == ReadNro(p, "readDelete", "saveDelete")
SaveDelete(p) == SaveNro(p, "saveDelete", [loc[p].doc EXCEPT !.status = "DELETED"], "broadcast")

-----------------------------------------------------------------------------
(* BullMQ and the worker loop.                                             *)

Enqueue(ev) ==
  /\ Len(jobs) < MaxJobs
  /\ jobs' = Append(jobs, [ev |-> ev, state |-> "wait", made |-> 0, stalls |-> 0])
  /\ wait' = Append(wait, Len(jobs) + 1)
  /\ UNCHANGED <<db, pc, loc, history, calls, faults>>

Entry(type) ==
  CASE type = "contracts.new"    -> "findExisting"
    [] type = "contracts.cancel" -> "findContract"
    [] type = "nro.new"          -> "upsertNro"
    [] type = "nro.update"       -> "readUpdate"
    [] type = "nro.delete"       -> "readDelete"

TakeJob ==
  /\ wait # <<>>
  /\ LET id == Head(wait)
         ev == jobs[id].ev
     IN  /\ Go(Worker, "idle", Entry(ev.type))
         /\ Hold(Worker, [Blank EXCEPT !.job = id, !.c = ev.c, !.n = ev.n, !.max = ev.max])
         /\ jobs' = [jobs EXCEPT ![id] = [@ EXCEPT !.state = "active"]]
         /\ wait' = Tail(wait)
  /\ UNCHANGED <<db, history, calls, faults>>

\* The handler returned: its socket events go out, whatever becomes of the job after.
Broadcast ==
  /\ Go(Worker, "broadcast", "complete")
  /\ announced' = [announced EXCEPT ![loc[Worker].c] = @ + IF loc[Worker].news THEN 1 ELSE 0]
  /\ UNCHANGED <<db, redis, loc, born, told, calls, faults>>

Complete ==
  /\ pc[Worker] = "complete" /\ Finish(Worker)
  /\ jobs' = [jobs EXCEPT ![loc[Worker].job] = [@ EXCEPT !.state = "completed"]]
  /\ UNCHANGED <<db, wait, history, calls, faults>>

\* The backoff of a delayed job ends; it goes behind the jobs that wait.
Promote(id) ==
  /\ jobs[id].state = "delayed"
  /\ jobs' = [jobs EXCEPT ![id] = [@ EXCEPT !.state = "wait"]]
  /\ wait' = Append(wait, id)
  /\ UNCHANGED <<db, pc, loc, history, calls, faults>>

-----------------------------------------------------------------------------
(* Failures.                                                               *)

\* Faulty variant: the attempt is not counted.
ThrowUncounted(p) ==
  /\ Finish(p)
  /\ jobs' = IF p = Worker THEN [jobs EXCEPT ![loc[p].job].state = "delayed"] ELSE jobs
  /\ UNCHANGED <<db, wait, history, calls>>

\* The handler throws: the job is retried until its attempts are spent; a REST call
\* answers with an error.
Throw(p) ==
  /\ Finish(p)
  /\ LET id == loc[p].job
         made == jobs[id].made + 1
     IN  jobs' = IF p = Worker
                 THEN [jobs EXCEPT ![id] =
                         [@ EXCEPT !.made = made,
                                   !.state = IF made < MaxAttempts THEN "delayed" ELSE "failed"]]
                 ELSE jobs
  /\ UNCHANGED <<db, wait, history, calls>>

\* A write the database refuses: a duplicate key, or a document that is gone.
Refused(p) ==
  LET c == loc[p].c IN
  \/ pc[p] \in {"refuse", "insertRow"} /\ (Exists(c) \/ PhoneTaken(c))
  \/ pc[p] \in {"commitClaim", "upsertRow"} /\ PhoneTaken(c)
  \/ pc[p] \in {"plainSave", "commitRelease", "saveRow"} /\ ~Same(loc[p])

WriteRefused(p) == Refused(p) /\ Throw(p) /\ UNCHANGED faults

\* Any database call may fail; a failure to register the topology link is swallowed,
\* and a failed broadcast is logged.
CallFails(p) ==
  /\ pc[p] \notin {"idle", "broadcast", "complete"} /\ faults < MaxFaults
  /\ faults' = faults + 1
  /\ IF pc[p] \in {"readLink", "saveLink", "countLink"}
     THEN /\ pc' = [pc EXCEPT ![p] = "notifyNew"]
          /\ UNCHANGED <<db, redis, loc, history, calls>>
     ELSE Throw(p)

\* The process dies and restarts: what its handlers held in memory is gone.
Crash ==
  /\ faults < MaxFaults /\ faults' = faults + 1
  /\ \E p \in Procs : pc[p] # "idle"
  /\ pc' = [p \in Procs |-> "idle"] /\ loc' = [p \in Procs |-> Blank]
  /\ UNCHANGED <<db, redis, history, calls>>

\* BullMQ finds an active job that nobody works on, and puts it first in line again,
\* once; the second time it gives the job up.
Recover(id) ==
  /\ jobs[id].state = "active" /\ loc[Worker].job # id
  /\ LET again == jobs[id].stalls = 0
     IN  /\ jobs' = [jobs EXCEPT ![id] =
                       [@ EXCEPT !.state = IF again THEN "wait" ELSE "failed", !.stalls = 1]]
         /\ wait' = IF again THEN <<id>> \o wait ELSE wait
  /\ UNCHANGED <<db, pc, loc, history, calls, faults>>

-----------------------------------------------------------------------------
(* The REST handlers.                                                      *)

Call(r, op, c, label) ==
  /\ op \in RestOps /\ calls < MaxCalls /\ calls' = calls + 1
  /\ Go(r, "idle", label) /\ Hold(r, [Blank EXCEPT !.c = c])
  /\ UNCHANGED <<db, redis, history, faults>>

PostContract(r, c) == Call(r, "create", c, "readFdt")
DeleteContract(r, c) == Call(r, "delete", c, "findById")

\* createContract: the FDT the caller names and its parent NRO, whose status is not
\* looked at; 400 when the copy just read has no room.
ResolveParents(r) ==
  \/ \E f \in Fdts :
       /\ fdt[f].exists
       /\ LET n == fdt[f].nro IN
          /\ HasCapacityFor(nro[n], Gb[loc[r].c])
          /\ Go(r, "readFdt", "readClaim")
          /\ Hold(r, [loc[r] EXCEPT !.f = f, !.n = n])
       /\ UNCHANGED <<db, redis, history, calls, faults>>
  \/ /\ pc[r] = "readFdt" /\ Finish(r)
     /\ UNCHANGED <<db, redis, history, calls, faults>>

InsertRow(r) ==
  LET c == loc[r].c IN
  /\ pc[r] = "insertRow" /\ Finish(r)
  /\ ~Exists(c) /\ ~PhoneTaken(c)
  /\ PutRow(c, "ACTIVE", loc[r].n, loc[r].f)
  /\ UNCHANGED <<nro, fdt, redis, told, announced, calls, faults>>

\* Faulty variant: the row is erased without being cancelled.
FindToErase(r) ==
  LET c == loc[r].c IN
  /\ pc[r] = "findById"
  /\ IF Exists(c)
     THEN /\ Go(r, "findById", "erase")
          /\ Hold(r, [loc[r] EXCEPT !.target = contract[c].oid])
     ELSE Finish(r)
  /\ UNCHANGED <<db, redis, history, calls, faults>>

\* deleteContract: find the row, cancel by externalId, erase the row found.
FindById(r) ==
  LET c == loc[r].c IN
  /\ pc[r] = "findById"
  /\ IF Exists(c)
     THEN /\ Go(r, "findById", "findContract")
          /\ Hold(r, [loc[r] EXCEPT !.target = contract[c].oid])
     ELSE Finish(r)
  /\ UNCHANGED <<db, redis, history, calls, faults>>

Erase(r) ==
  LET c == loc[r].c IN
  /\ pc[r] = "erase" /\ Finish(r)
  /\ contract' = IF contract[c].oid = loc[r].target
                 THEN [contract EXCEPT ![c] = NoContract] ELSE contract
  /\ UNCHANGED <<nro, fdt, redis, history, calls, faults>>

\* update and remove of an NRO: the call comes in and reads the document, and saves it
\* in a second step.  What it asks for shows only then.
EditNro(r, n) ==
  /\ "edit" \in RestOps /\ calls < MaxCalls /\ calls' = calls + 1
  /\ Go(r, "idle", "saveEdit") /\ Hold(r, [Blank EXCEPT !.n = n, !.doc = nro[n]])
  /\ UNCHANGED <<db, redis, history, faults>>

SaveEdit(r) ==
  /\ pc[r] = "saveEdit" /\ Finish(r)
  /\ \E e \in Edits :
       nro' = [nro EXCEPT ![loc[r].n] = SaveModified(@, loc[r].doc, Edited(loc[r].doc, e))]
  /\ UNCHANGED <<fdt, contract, redis, history, calls, faults>>

-----------------------------------------------------------------------------
NewSteps(p) ==
  \/ FindExisting(p) \/ ResolveNro(p) \/ Refuse(p) \/ CommitClaim(p)
  \/ UpsertFdt(p) \/ UpsertRow(p)
  \/ ReadLink(p) \/ SaveLink(p) \/ CountLink(p) \/ NotifyNew(p)

ClaimSteps(p) == ReadClaim(p) \/ SaveClaim(p) \/ ReadPorts(p) \/ SavePorts(p)

CancelSteps(p) ==
  \/ FindContract(p) \/ PlainSave(p) \/ CommitRelease(p)
  \/ ReadRelease(p) \/ SaveRelease(p) \/ ReadPortsBack(p) \/ SavePortsBack(p)
  \/ ReadLinkBack(p) \/ SaveLinkBack(p) \/ SaveRow(p) \/ NotifyCancel(p)

NroSteps(p) ==
  UpsertNro(p) \/ ReadUpdate(p) \/ SaveUpdate(p) \/ ReadDelete(p) \/ SaveDelete(p)

EditSteps(r) == SaveEdit(r) \/ \E n \in Nros : EditNro(r, n)

RestSteps(r) == ResolveParents(r) \/ InsertRow(r) \/ FindById(r) \/ Erase(r)

WorkerStep ==
  \/ TakeJob \/ Broadcast \/ Complete
  \/ NewSteps(Worker) \/ ClaimSteps(Worker) \/ CancelSteps(Worker) \/ NroSteps(Worker)
  \/ WriteRefused(Worker)

RequestStep(r) ==
  \/ \E c \in Contracts : PostContract(r, c) \/ DeleteContract(r, c)
  \/ RestSteps(r) \/ EditSteps(r) \/ ClaimSteps(r) \/ CancelSteps(r) \/ WriteRefused(r)

Failure == Crash \/ \E p \in Procs : CallFails(p) \/ AbortCommit(p)

Settled(id) == jobs[id].state \in {"completed", "failed"}

\* Nothing is left to do, and the environment has spent its bounds.
AllDone ==
  /\ \A p \in Procs : pc[p] = "idle"
  /\ \A id \in DOMAIN jobs : Settled(id)
  /\ UNCHANGED vars

Next ==
  \/ WorkerStep
  \/ \E r \in Requests : RequestStep(r)
  \/ \E ev \in Events : Enqueue(ev)
  \/ \E id \in DOMAIN jobs : Promote(id) \/ Recover(id)
  \/ Failure
  \/ AllDone

Spec == Init /\ [][Next]_vars

\* The event loop serves every resolved call, and BullMQ every delayed or stalled job.
FairSpec ==
  /\ Spec
  /\ WF_vars(WorkerStep)
  /\ \A id \in 1..MaxJobs : WF_vars(id \in DOMAIN jobs /\ (Promote(id) \/ Recover(id)))

-----------------------------------------------------------------------------
(* Properties.                                                             *)

Active(c) == contract[c].status = "ACTIVE"

\* The ledger of CapacityLedger, read off the collections.
Held == [c \in Contracts |-> IF Active(c) THEN contract[c].nro ELSE NoNro]
Load == [n \in Nros |-> nro[n].load]
Limit == [n \in Nros |-> nro[n].max]
Ledger == INSTANCE CapacityLedger WITH held <- Held, load <- Load, limit <- Limit

\* The load recorded on an NRO never exceeds the gigabytes of its ACTIVE contracts: no
\* crash, retry, aborted commit or concurrent deletion leaks capacity ("silently leaked",
\* contracts.service.ts:326-328), when the writes of a claim move together.
LoadIsHeld == Ledger!Covered

\* The ports counted on an FDT never exceed the ACTIVE contracts on it (updatePorts moves
\* with the claim and the release).
PortsAreHeld ==
  \A f \in Fdts : fdt[f].ports <= Cardinality({c \in Contracts : Active(c) /\ contract[c].fdt = f})

\* The clients counted on an FDT never exceed the ACTIVE contracts on it, although they
\* are registered after the commit and released with the cancellation.
ClientsAreHeld ==
  \A f \in Fdts : fdt[f].active <= Cardinality({c \in Contracts : Active(c) /\ contract[c].fdt = f})

AllIdle == \A p \in Procs : pc[p] = "idle"

\* Without a transaction the claim is made of separate writes; once every handler has
\* returned they must agree again: no load and no port is recorded for a contract that
\* is not ACTIVE.
HeldAtRest == AllIdle => LoadIsHeld /\ PortsAreHeld

\* Handlers are idempotent on retry (the worker's comment, rabbitmq.service.ts:109-111): when
\* every job is completed, however often it was tried, nothing is accounted twice.
RetriesCountOnce ==
  AllIdle /\ (\A id \in DOMAIN jobs : jobs[id].state = "completed") => LoadIsHeld /\ PortsAreHeld

\* No ACTIVE contract goes unaccounted: once every handler has returned, the load of an
\* NRO covers its ACTIVE contracts.
CoveredAtRest ==
  AllIdle => \A n \in Nros : Load[n] >= Units(Gb, Ledger!Holders(n))

\* The load a claim leaves is within the capacity its check saw, although the check is
\* made before anything is written (hasCapacityFor, nro.service.ts:325-328): releases, NRO
\* events, PATCH /nro and DELETE /nro may come in between, and none of them raises the load.
ClaimsFit ==
  [][\A n \in Nros : LET checked == loc[Worker].doc IN
       Load'[n] > Load[n] => checked.max = 0 \/ Load'[n] <= checked.max]_vars

\* A refused or cancelled contract document never becomes ACTIVE: a duplicate or retried
\* contracts.new event returns early.
StatusSticks ==
  [][\A c \in Contracts :
       contract[c].status \in {"FAILED", "CANCELLED"} /\ contract'[c].oid = contract[c].oid
         => contract'[c].status # "ACTIVE"]_vars

\* However often its job is delivered, a contract document is notified at most once, and
\* announced on the sockets only after that.
AnnouncedOnce == \A c \in Contracts : announced[c] <= told[c] /\ told[c] <= born[c]

\* Every write to the collections is a step of the capacity ledger.
ImplementsLedger == Ledger!LedgerSpec

\* The argument for LoadIsHeld, when claims and releases are transactions and contracts
\* are created by events only.

\* Which handlers run then.
CancelLabel == {"findContract", "plainSave", "commitRelease", "notifyCancel"}
EventLabel == {"findExisting", "resolveNro", "refuse", "commitClaim", "readLink", "saveLink",
               "countLink", "notifyNew", "broadcast", "complete",
               "upsertNro", "readUpdate", "saveUpdate", "readDelete", "saveDelete"}
LabelsOK ==
  /\ pc[Worker] \in {"idle"} \cup CancelLabel \cup EventLabel
  /\ \A r \in Requests : pc[r] \in {"idle", "findById", "erase", "saveEdit"} \cup CancelLabel

\* The documents of a contract: numbered in order, and on an NRO when ACTIVE.
RowsOK ==
  \A c \in Contracts :
    /\ contract[c].oid <= born[c]
    /\ Exists(c) <=> contract[c].oid # 0
    /\ Active(c) => contract[c].nro # NoNro

\* Only the worker inserts: while it prepares a row, there is none.  The copy its capacity
\* check was made on has at least the load of the NRO.
ClaimOK ==
  LET l == loc[Worker] IN
  /\ pc[Worker] \in {"resolveNro", "refuse", "commitClaim"} => ~Exists(l.c)
  /\ pc[Worker] = "commitClaim" =>
       l.n \in Nros /\ l.doc.load >= nro[l.n].load /\ HasCapacityFor(l.doc, Gb[l.c])

\* The document found is on the NRO the handler releases, as long as it is there, and
\* the document to erase was there when the call began.
ReleaseOK ==
  \A p \in Procs :
    LET l == loc[p] IN
    /\ pc[p] \in {"plainSave", "commitRelease"} =>
         l.row.oid \in 1..born[l.c] /\ (Same(l) => contract[l.c].nro = l.n)
    /\ pc[p] = "plainSave" => l.n = NoNro
    /\ pc[p] = "commitRelease" => l.n \in Nros
    /\ p # Worker /\ pc[p] \in CancelLabel \cup {"erase"} => l.target \in 1..born[l.c]

\* The contracts a deletion has cancelled, or tried to, and is about to erase.
Leaving ==
  {c \in Contracts : \E r \in Requests : /\ pc[r] \in {"notifyCancel", "erase"}
                                         /\ loc[r].c = c /\ loc[r].target = contract[c].oid}

\* Their load is already given back, even if they are ACTIVE still.
LoadIsStaying == \A n \in Nros : Load[n] <= Units(Gb, Ledger!Holders(n) \ Leaving)

LedgerInv == LabelsOK /\ RowsOK /\ ClaimOK /\ ReleaseOK /\ LoadIsStaying

\* Every job taken in is completed, or failed after its attempts are spent.
JobSettles ==
  \A id \in 1..MaxJobs : (id \in DOMAIN jobs) ~> (id \in DOMAIN jobs /\ Settled(id))
=============================================================================
