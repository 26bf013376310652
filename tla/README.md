# Smart Fiber backend: verification project

The backend manages an FTTH network: contracts of subscribers are attached to
FDTs (distribution points), FDTs to NROs (optical nodes), NROs to centrales and
zones. It takes events from an upstream simulator, offers a REST API, pushes
changes to browsers over websockets, and runs an LLM-assisted supervisor. It is
one Node.js process (NestJS) with MongoDB (mongoose), Redis (BullMQ) and
socket.io. Paths below are relative to `src/src/modules/` unless they start
with `src/`.

## 1. Inventory

| Component | State | Operations | Talks to | What makes it correct |
|---|---|---|---|---|
| **contracts** (`contracts/contracts.service.ts`) | the `contracts` collection: status, NRO, FDT, GB; unique externalId and numeroTelephone | NEW/CANCEL events; POST, DELETE | nro, fdt, topology, zones, notifications | a contract holds capacity exactly while it is ACTIVE; nothing is leaked by a failure, counted twice by a retry, or revived |
| **nro** (`nro/nro.service.ts`) | load, capacity, status, count of FDTs | new/update/delete events, `updateCapacite`, `hasCapacityFor`; REST CRUD | zones | a claim adds no more than its capacity check allowed, status follows load; DELETED stays deleted |
| **fdt** (`fdt/fdt.service.ts`) | ports used, clients, parent NRO | upsert by event, `updatePorts`; REST CRUD | nro, zones | ports and clients never exceed the ACTIVE contracts on it |
| **topology** (`topology/topology.service.ts`) | none of its own | `registerContractLink`, `releaseContractTopology` | contracts, nro, fdt | counters in sync with contracts |
| **rabbitmq** (`rabbitmq/rabbitmq.service.ts`; BullMQ despite its name) | the queue in Redis | enqueue, route, broadcast after the handler | every domain service, gateway | every job settles; handlers are idempotent; announcements at most once |
| **websocket client**, **events** | none | enqueue upstream and internal events, with retry in `events` | rabbitmq | an event is neither lost nor doubled |
| **reclamations** | complaints by externalId | event upsert; REST create, update, delete | contracts, zones, notifications | a complaint is told to who is in charge; a redelivery does not undo progress |
| **zones** (`zones/zones.service.ts`) | zone polygons, manager | seeding, update, GeoJSON import, `recalculateZoneMetrics` | all infrastructure collections | an import is all or nothing; recomputed metrics agree with the documents; sending it again is harmless |
| **users** (`users/services/users.service.ts`) | accounts, zone managers | create/update/delete manager | zones | requests on one account keep each other's changes; `managerUserId` names the manager |
| **auth**, **websocket-server** | tokens; rooms | login; connection | users | a token and its room are for a zone its account managed |
| **centrale**, **central-fiber** | records | CRUD | nro, zones | references stay valid, or are repaired |
| **ai-supervisor** | Groq queue and breaker; in-flight maps; anomalies, alerts, recommendations, snapshots, reports | cron tiers, on-demand runs, reviews, auto-correction | every collection (mostly reads), Groq | bounded retries, breaker recovers, one run per scope, no alert or anomaly twice, proposals do no harm |
| **notifications** | stored notices, email | `notifyAdmin`, `notifyZoneManager`, `findRecent` | every service | what is stored reaches the inbox it is for |
| **map**, **ai**, `src/src/common`, bootstrap, `src/deploy` | counters, logs | reads, formatting, I/O | | outside the models |

How they interact: upstream events and internal REST events are enqueued in
Redis; the worker takes one job at a time (BullMQ's default concurrency), routes
it to a domain handler, and only afterwards broadcasts. REST handlers run in the
same process and call the same services directly. The services share state only
through MongoDB documents, which each reads, changes in memory and saves.

What is hard in it: every `await` is an interleaving point between the worker
and the REST calls; the multi-document updates are transactions on a replica set
and plain writes on a standalone server (which is what
`src/docker-compose.prod.yml` starts); BullMQ repeats a failed job and recovers a
stalled one; the capacity check precedes the transaction that claims the
capacity; `withTransaction` may run its callback twice, on a document that is no
longer modified the second time. `PROJECT.json` lists these hazards at their
lines, with the property that covers each, or why none does yet.

## 2. Modules

    Gigabytes          sums of gigabytes, as the size of a set
    NetworkState       NRO and FDT documents and the arithmetic on them
    CapacityLedger     abstract: who holds capacity where          (EXTENDS Gigabytes)
    ContractPipeline   the handlers, the queue, the failures       (EXTENDS the first two,
                                                                    INSTANCE CapacityLedger)

    GroqService        abstract: who is served next, and by which breaker
    GroqManager        the client of the LLM: queue, spacing, retries, breaker
                                                                   (INSTANCE GroqService)

    GeoJson            what a payload's features are, and which payloads are refused
    InfraDocs          the network's documents, and MongoDB sessions on them
    ZoneImport         GeoJSON import into a zone                  (EXTENDS InfraDocs,
                                                                    INSTANCE GeoJson)
    NetworkAdmin       REST on the network, the audit              (EXTENDS ZoneImport)

    Routing            from an event to its handler
    Complaints         complaints: queue, worker, customer service (EXTENDS Routing)
    Accounts           zone managers, login, rooms
    Helpdesk           both in one process                         (EXTENDS Accounts, Complaints)

    Planner            proposals for a saturated NRO or FDT
    SupervisorTasks    the network as watched, the runs            (EXTENDS Planner)
    AlertEngine        five-minute tier, raise and resolve         (EXTENDS SupervisorTasks)
    Recommendations    ingest, agents' fallbacks, reviews          (EXTENDS SupervisorTasks)
    Anomalies          anomaly runs and reviews                    (EXTENDS Recommendations)
    Supervisor         who asks for runs, and shares them          (EXTENDS AlertEngine, Anomalies)

    MC*                values for TLC
    *_proofs           theorems

The five groups share no variables. The pipeline's contract, NRO and FDT documents
carry what accounting needs; those of InfraDocs carry references, zones and
recomputed counters; the supervisor only reads levels, so it sees a network that changes
by itself. A group's environment stands in it as an action (NetworkMoves in Complaints,
NetworkChanges in AlertEngine) rather than as a second copy of the other group.

### The pipeline

**ContractPipeline** is the core. Its state is the three collections (`nro`,
`fdt`, `contract`), the queue (`jobs`, `wait`), the program counter and local
variables of every handler in flight (`pc`, `loc`), three history counters per
contract (`born`: rows inserted, `told`: CONTRACT_NEW notifications stored,
`announced`: `new_contract` broadcasts) and what the bounds have been spent on.
One action is one awaited call, since nothing else can interleave in a
single-threaded process:

| Code | Actions |
|---|---|
| `handleNewContractEvent` | FindExisting, ResolveNro, Refuse; then CommitClaim (transaction), or ReadClaim .. UpsertRow (standalone); ReadLink, SaveLink, CountLink, NotifyNew |
| `handleCancelContractEvent` | FindContract, PlainSave; CommitRelease and AbortCommit (transaction), or ReadRelease .. SaveRow (standalone); NotifyCancel |
| `createContract` | PostContract, ResolveParents, ReadClaim, SaveClaim, ReadPorts, SavePorts, InsertRow |
| `deleteContract` | DeleteContract, FindById, the cancellation above, Erase |
| `handleNewNroEvent`, `handleUpdateNroEvent`, `handleDeleteNroEvent` | UpsertNro, ReadUpdate, SaveUpdate, ReadDelete, SaveDelete |
| PATCH and DELETE /nro: `update`, `remove` of `NroService` | EditNro, SaveEdit |
| the worker and BullMQ | Enqueue, TakeJob, Broadcast, Complete, Promote, Recover |
| what fails | WriteRefused (unique index, document gone), CallFails (any database call), Crash (the process) |

Modelling decisions a reader should know:

* *mongoose saves modified paths.* `save()` sends the paths changed since the
  read (`SaveModified`), so two writers of an NRO lose each other's update of
  the same field, not of different ones.
* *Transactions.* A committed transaction acted on committed documents (a
  conflicting one is aborted and run again), so it is one action on the current
  documents. mongoose does not restore the in-memory contract when the native
  `withTransaction` runs its callback again: `contract.save()` is then a no-op,
  which is the `dirty` flag and AbortCommit. A save of a document that is gone
  throws (`Same`).
* *Standalone.* The "Transaction numbers" error comes with the first operation,
  before anything is written, so the model goes straight to the plain calls.
* *BullMQ.* Three attempts with backoff (MaxAttempts); a delayed job goes behind
  the waiting ones; a stalled one is put first, once (BullMQ's default). A failed broadcast
  is only logged, so the job completes.
* *Data.* Zones and distances are the set of NROs a contract may reach (`Reach`);
  coordinates, names, percentages, the French-named mirrors of the load and the
  notifications of REST callers are left out. An FDT of an event's contract is its own
  (`fdt-contract-<externalId>`). NROs exist from the start.

**CapacityLedger** says what all this promises about capacity: each contract
holds capacity on at most one NRO; Grant; Release; WriteOff
(load leaves and no contract does: a release whose status was not written);
Forget (a contract whose load was written off before leaves); Resize. It does not ask
whether a grant fits: the limit may be lowered between the check and the grant.
`ImplementsLedger` is its specification with `held` read off the ACTIVE rows and
`load` and `limit` off the NROs.

### The client of Groq

**GroqManager** is the client through which every agent of the supervisor calls
the LLM. It shares no state with the pipeline. `enqueue` starts `drain()` without
awaiting it, so the model has a coroutine per caller (`drainer[c]`), kept from
running together by `draining` alone; an action goes from one `await` to the next:

| Code | Actions |
|---|---|
| `chat`, `chatJSON`, `enqueue`, and `drain()` up to its first await | Enqueue |
| `drain()` after its spacing timer; after `next.run()` | EndSpacing; Finish |
| `attemptWithRetry`, `callOnce` | StartTask (within the above), Succeed, Fail, Abort, Retry, Resume |
| `isCircuitBlocking`, `recordCircuitSuccess`, `recordCircuitFailure` | operators of those actions |
| the clock | Tick |

The sorted array of requests is a FIFO queue per rank, which is what sorting by rank and
then by arrival amounts to. **GroqService** is what the agents rely on when they await `chat()`: a line
per rank, one request being served, and a breaker whose state is a function of the streak of failures and of
whether a request is being served. `Serving` maps to it the request between its first attempt and its
outcome; spacing, attempts, timers and `drain()` disappear. Times are kept as what has passed since, up to the
setting they are compared with, and timers as what is left. `streak` is the only
history variable. MaxRetries is assumed to be a natural number: with
GROQ_MAX_RETRIES negative or not a number the loop of `attemptWithRetry` is not
entered, and a trial would record nothing.

### Imports, administration, audits

The state is `db`, one document per name (zones, centrales, NROs, FDTs, contracts,
fibers), a session per importer (`txn`), each import's place and payload (`imp`),
the request each clerk serves and what it has read (`req`), what was told to whom (`notices`)
and the documents the audit has loaded (`audit`).

| Code | Actions |
|---|---|
| `importZoneGeoJson`: controller, `resolveTargetZone`, `validateAndParseGeoJson` | StartImport (`Accepted`, `Class`, `Parsed` of GeoJson) |
| hierarchy checks before the session | ValidateHierarchy |
| `executeSynchronization`, a feature at a time | BeginSync, SyncFeature |
| `recalculateZoneMetrics`, a document at a time | LoadZone, Recount |
| commit, or an error, in the transaction or on the plain path | CommitImport, RefuseWrite, FailImport |
| REST on zones, centrales, NROs, FDTs, fibers; event `fdt.new` | Receive reads and checks, then one write action per operation, or TurnedDown |
| `AutoCorrectionService` on contracts and NROs | StartAudit, ResolveContract, LoadNros, ResolveNroRef, EndAudit |

* *A session* is the snapshot it began with, its own view and the set of documents it wrote.
  A write to a document that another session has written, or that was committed since the
  snapshot, is a WriteConflict, and so is a unique phone number that another session holds;
  the import does not run again (`RefuseWrite`). Commit merges what was written.
* *An import's find and save of a document is one step.* Inside a transaction nothing can come
  between. Standalone imports are not among the runs; the proofs that do not assume
  sessions take this step as atomic there.
* *Requests* check in one step what they read and write in another, so what they checked may be stale. A
  payload of `fdt.new` has a zone that is found.
* *Features* are records of the fields the classifier looks at: which properties are present, the
  prefix of the name, the geometry. Names stand for codes and coordinates for the set of places a polygon covers.
  A payload is a sequence of features, and the import takes those that have a class of their
  own, class by class and in the payload's order within one (`Rank`, `Before`, `Foremost`), as the
  loops of `executeSynchronization` do.
* *A contract's status* is one of the schema's three. A payload with another one fails at the
  save, like a call that fails.

### Complaints and accounts

| Code | Actions |
|---|---|
| `events.service.ts`: `dispatchInternalEvent`, `enqueueWithRetry` | PostEvent, EnqueueWithRetry, EnqueueThrows (also when the job is in the queue already) |
| the upstream client's handler | UpstreamEvent |
| worker, `processDomainEvent`, `resolveEventType` | Take, Route, Complete (`Handler`, `EventType` of Routing) |
| `handleNewReclamationEvent` | FindContract, FindZone, Upsert, Notify; JobThrows, Crash |
| POST, DELETE /reclamations | OpenCounter, CreateReclamation, DeleteReclamation, TellAdmin, TellZone |
| audit of complaints without zone | StartAudit, AuditComplaint |
| `createZoneManager` | Ask, CheckNew, InsertManager, PointNew |
| `updateZoneManager`, `deleteZoneManager`, language | ReadAccount, UnpointZone, PointZone, SaveAccount |
| `login`; `handleConnection` | Authenticate, Sign; Connect |

An event is a sequence of nested levels, each with the names it carries under
`event`, `eventType`, `type` and so on; that is all the routing looks at. Two active
managers of one zone are reachable (two requests find none, hash a
password and insert), so no property claims there is one; nor is a manager's
token revoked when the zone changes hands. `had` (the zones an account has managed) and
`lost` (complaints whose job was given up) are history.

### The supervisor's runs

A run is a promise: a five-minute tier, an analysis, an anomaly run or a report,
with what it has read (`seen`), proposes (`plan`) and must raise (`due`).

| Code | Actions |
|---|---|
| cron; `run/analysis`, `run/anomalies`, `run/report` | StartHealth; Ask, Call |
| in-flight maps, `.finally` | Share (in Call and JoinAnalysis), Settle |
| five-minute tier | CheckServices, ReadSites, WatchOne |
| `AlertsService.raise` and `resolve` | FindAlert, CreateAlert, TellManager, TellAdmins; Resolve (in WatchOne) |
| full analysis: agents, predictions, planner | Look, Predict, Plan |
| `InfrastructurePlannerAgent` | `PlanNro`, `PlanFdt` of Planner |
| `RecommendationsService.ingest`; reviews; the 12-hour window | FindDuplicate, CreateRecommendation; ReviewRecommendation; TwelveHoursGoBy |
| anomaly detection | ReadAll, Assess, AssessZone, MatchAnomaly, InsertAnomaly; ReviewAnomaly |
| daily report | JoinAnalysis, AnalyzeComplaints, WriteReport |
| any awaited call; the process | Throws; Crash |

* *What a week of snapshots says is open*: whether something is unusual, whether
  an NRO is predicted to fill up, whether complaints surge, and whether the LLM answers
  or the agents fall back, are choices of the model.
* *Percentages* that a plan compares are rounded to tenths as in the code, thresholds are compared
  exactly; distances are in tenths of a kilometre.
* *Recommendations* keep, as history, how many there were when a run looked for a twin;
  an anomaly run passes over the unremarkable sites in one step.

## 3. Runs

The first four runs and the first three findings use module `MCContractPipeline`. Two contracts, of 2 GB and 1 GB in most runs, are
enough for every conflict the handlers have (two contracts competing for one NRO,
for a phone number, a cancel racing a create or a delete); a third only repeats a pair.
One failure is enough for each failure point to be hit in each context, the
second failure in `retries` exhausts the attempts. Events may be sent in any
order and repeatedly up to MaxJobs.

| Run | Bounds | Shows |
|---|---|---|
| `events_txn` | replica set, 1 NRO of 2 GB, 4 events of all kinds, 1 failure; 1.6 million states | TypeOK; ClientsAreHeld: clients registered after the commit never exceed the contracts; AnnouncedOnce: redelivery never notifies twice or announces unnotified; StatusSticks: refused and cancelled rows are never revived |
| `delete_txn` | replica set, 1 NRO of 2 GB, which both contracts together exceed, 2 events of all kinds, 2 concurrent calls of DELETE /contracts, PATCH or DELETE /nro, 1 failure; 1.1 million states up to swapping the calls | LoadIsHeld, PortsAreHeld: nothing leaks; ClaimsFit: a claim leaves no more than its check allowed, whatever releases and edits came between; ImplementsLedger; LedgerInv, the invariant of the proof |
| `rest_paths` | standalone, 2 NROs with a manual FDT each, 4 REST calls one at a time (POST and DELETE /contracts, PATCH and DELETE /nro), 2 NRO events, no failure; 1.2 million states | CoveredAtRest: no ACTIVE contract loses its load to the other writers of its NRO |
| `retries` | standalone, 2 NROs, contracts sharing a phone number, 2 events, 2 failures, fair; 0.2 million states | JobSettles: every job is completed or given up |
| `groq` | 3 callers, 3 ranks, up to 3 attempts, spacing and timeout of 2 ticks, 3 failures trip the breaker for 3 ticks, fair; 30 thousand states | ImplementsService: requests are served one at a time, by rank and in order, or turned away by a breaker that is closed exactly while fewer than 3 in a row have failed; OneDrainer: no second drain(), no lost wake-up; BreakerAgrees, SkipsOnlyCooling: the breaker follows the failures, and only the cooldown turns requests away; Spaced; UrgentServed and TrialDecides: critical requests are answered, a trial ends |
| `import` | replica set, 2 zones, a tree of centrale, NROs, FDT and contracts, 2 importers and 2 imports of 5 payloads, 1 failure, 2 clerks, 16 requests, fair; 46 thousand states | AllOrNothing: a failed import leaves no trace; ImportRecounts: a committed one leaves right counters, but where others wrote the very documents; ImportIsIdempotent: it may be sent again; ImportsEnd; Repaired: audits mend dangling references |
| `helpdesk` | 2 zones, 3 accounts, 2 desks, 2 complaints, 3 ways in, 2 requests, 2 failures, 2 attempts of a job and of an enqueue, fair; 68 thousand states | ComplaintsAreTold: retries, redeliveries and crashes leave no complaint untold; RoutedAsSent: names inside a payload do not divert it; TokensAreOwn; FieldsAreKept: overlapping requests on an account lose nothing; EventsAreHandled |
| `supervisor` | a service, 1 NRO, 2 FDTs, 2 zones, 2 runs at a time, 3 askers, 3 of: question, failure, crash, change, review; fair; 595 thousand states | AlertsMirror, AlertsAreTold: the active alerts are right and were told; NoTwins, OneDetected, ReviewsStand: overlapping runs store nothing twice and undo no review; PlansAreSafe; AnswersFit, AsksEnd: sharing a run gives each asker an answer to its own question |
| `v_retry` | standalone, 1 contract, 1 event, 1 failure | finding: a retry claims capacity twice |
| `v_refused_cancel` | replica set, 3 events, no failure | finding: cancelling a refused contract releases capacity it never held |
| `v_create_twice` | one REST caller, 2 POSTs, no failure | finding: a refused insert leaves capacity and a port claimed |
| `v_proposals` | as `supervisor`, both FDTs nearly full, 2 of the things counted | finding: the planner's proposal for an FDT is dropped as a duplicate of advice for its zone |

The other properties have a narrow scope for a reason. LoadIsHeld is claimed for contracts
created by events: POST /contracts claims in separate calls, before the row is there. ClaimsFit
compares what a claim of the worker leaves with the capacity its check read, and holds because nothing else raises
the load: releases, NRO events and stale saves of PATCH and DELETE /nro come between in the run, and
only the fields they modify are written. Two things it does not say, because the code does not: that a claim fits beside
POST /contracts, where two claims may both pass the check; and that it fits the capacity at the
commit, which an event or PATCH /nro may have lowered. Nothing is checked again in the transaction.
ClientsAreHeld is claimed without DELETE: a deletion between the commit of a contract and the
registration of its client releases a client that is not counted yet. On a
standalone server a failure in the middle of a handler breaks HeldAtRest and
CoveredAtRest, which is what `v_retry` reports.

Bounds of the last three passing runs. `import`: one import per zone or two of one zone, with every class of
feature, a move of the tree to the other zone, a contract renamed by its phone number, a phone number that
clashes, and a file given backwards; two imports are what can conflict, and each clerk's request
meets them at every step. `helpdesk`: one redelivery, one crash and one retry of
the same complaint are all that can follow one another before a job is given
up; a complaint is about one client, so the second one matters for the queue only. `supervisor`: two runs
are what can race; three events are two overlapping runs and a failure, a
change or a review between them; what the model suggests goes to agents other than ZoneHealthAgent,
whose own words stand (its suggestions differ in the zone they carry, by which no property tells them apart). Two cases are beyond these bounds: a zone's
anomaly stored as NORMAL, which needs two anomalies in it first, and two alerts of
one site being resolved at once, which takes four events.

Scope of their properties. AllOrNothing needs a transaction: on a standalone server
an import that fails half-way keeps the first half.
ImportRecounts speaks of ports, clients and the gigabytes in use, and leaves out an FDT or
NRO that others wrote since the import's snapshot, or one of whose contracts they
wrote (`Foreign`, `Disturbed`): MongoDB's snapshot isolation allows write skew, a session that
counts the contracts of an FDT conflicting with another one only if both write the same
document. With two imports in the run requests alone disturb a count so; more imports
may as well, and the property is stated for any number. An import sets
`currentLoad` to a number of contracts, which `updateCapacite` then treats as gigabytes
(a hazard in `PROJECT.json` without a property: the pipeline's
documents and InfraDocs' are separate). AlertsMirror speaks of a tier during
which neither the network nor another tier moved. PlansAreSafe bounds moves to FDTs
that have ports: to one that an administrator left without any, `simulateRedistribution` gives 0 % and
the planner accepts it. NoTwins leaves out
recommendations whose looking-up overlapped: find and create are two calls, and
nothing is unique in that collection. ComplaintsAreTold leaves out jobs given
up after all attempts, and a zone that an audit finds later is told to nobody.
RoutedAsSent leaves out upstream events whose fields are not in a payload of their own.

Deadlock is not checked in the runs on imports, complaints and the supervisor (`v_proposals` is one of them): when nobody
asks any more, and the bounds are spent, these parts of the system rest; that
nobody waits for ever is what ImportsEnd, EventsAreHandled and AsksEnd say.

Fairness. `retries`: weak fairness of the worker's next step, since Node's
event loop serves every resolved call and the driver resolves or rejects every
call; weak fairness of Promote and Recover per job, since BullMQ polls delayed
jobs and checks for stalled ones. REST callers, new events and failures are
never forced. `groq`: weak fairness of the clock and of each coroutine's timers, the abort of
a call among them; neither Groq's answers nor new requests are forced, and callers
may call for ever. Three callers are one in progress, and two whose order in the
queue can differ by rank or by arrival. `import`: weak fairness of
the importers' steps (the event loop) and of the audit, which the scheduler starts
again and again. `helpdesk`: weak fairness of the worker's steps. `supervisor`: weak
fairness of the event loop. Requests, failures, crashes and reviews are never
forced. Deadlock is checked in the other runs: AllDone stutters only when every handler has
returned and every job has settled.

## 4. Proofs

TLAPS proves, for every value of the constants allowed by PipelineAssumption:

* `TypeCorrect`: Spec => []TypeOK, through `TypeInv`, a copy of TypeOK split into parts
  and made inductive: an active handler of the worker has a job of the queue, and a
  handler at a label has the references the label needs.
* `LedgerInvCorrect`, `LedgerImplemented`, `LoadHeld`, `ClaimsFitCheck` (ClaimsFit), under
  `EventsOnReplicaSet` (Transactional, and no POST /contracts).
* `LedgerCovered`: the abstract ledger keeps load covered.

The argument for the ledger. LoadIsHeld alone is not inductive. A DELETE releases
the load, perhaps without writing the status (AbortCommit), and only later
erases the row; between the two, an ACTIVE row may have no load. So the
invariant is `LoadIsStaying`: the load is covered by the contracts that no deletion is
about to erase (`Leaving`). It needs: only the worker inserts, so while it
prepares a row there is none (`ClaimOK`), and the NRO it checked has since
only lost load, although its capacity and status may be others by then; a release acts on the NRO of the row as long
as the row's document is the one that was read (`ReleaseOK`, by document id);
documents are numbered in order (`RowsOK`); and the handlers of other
configurations do not run (`LabelsOK`). Each action then maps to one ledger
step: CommitClaim to Grant, CommitRelease and PlainSave to Release, WriteOff or a
stutter, Erase to Forget, the NRO events and SaveEdit to Resize or a stutter, everything
else to a stutter (`QuietStep`, cited by all of these). Units of gigabytes are
counted as elements of a set (module Gigabytes) so that sums need no recursion.

For GroqManager, under GroqAssumption (settings are natural numbers, the
threshold positive): `GroqTypeCorrect`, `OneDrainerCorrect`, `StreakDecides`,
`BreakerCorrect`, `SpacedCorrect` and `SkipsAreCooling`. That one coroutine runs
is what everything else rests on: only then is the state a trial leaves behind
its own, and the wait `drain()` computed still right when it ends. The
invariant adds what the code does not say: while CLOSED, `consecutiveFailures` is the
streak (CountsStreak); a waiting coroutine will have waited enough (WaitsEnough);
one that backs off has an attempt left (MayRetry).
`ServiceImplemented` (ImplementsService) is the refinement: what is in flight is the request of a caller (TasksAreCallers),
the only one by OneDrainer, so a step of `drain()` that takes the head of the sorted array is Serve, ServeAtOnce, TurnAway or, when a
caller that never joined the line is turned away, a stutter; an outcome is Answer; `enqueue` is Join; and Verdict, the breaker as
a function of the rest, follows from TripsOnStreak and BreakerAgrees.

What the pipeline's documents go through, beyond the ledger:

* `NotifiedOnce` (AnnouncedOnce), for any configuration. `OnceInv`: the document the worker
  prepares, has written or announces is ahead of its notifications, and those of its announcements.
* `EndedStaysEnded` (StatusSticks), where contracts are created by events only (`"create"` is not
  among RestOps): POST /contracts can insert a row between the worker's lookup and its write, which
  overwrites it even if it was cancelled meanwhile. `SticksInv`: nobody but the worker inserts rows, so while it
  prepares one there is none.
* `PortsHeld` (PortsAreHeld), under `EventsOnReplicaSet`. `PortsInv`: an event's contract is on its own
  FDT, which counts one port at most, and only while the contract is ACTIVE and not about to be erased.
* `ClientsHeld` (ClientsAreHeld), under `EventsOnly` (Transactional, and no REST calls). `ClientsInv`: while the worker is
  about to register the client of a contract, the contract is ACTIVE and not counted, in the
  FDT it has read as well. With DELETE calls the statement is false, as said in section 3.
* `NothingUncovered` (CoveredAtRest), under `OneCaller`, with or without transactions: contracts come and go, and NROs are edited, by one
  REST call at a time, events are about NROs only, and no failure cuts a release short (there is none, or one at most and the
  release is a transaction, or nothing is deleted). `CoverInv`: an NRO has load for its ACTIVE contracts, but the one whose
  release is under way, and for the one whose claim is (`Accounted`); the copy a plain save was computed from still has the
  load of the NRO, because the worker writes other fields of the document only; and a row that is ACTIVE although its load is
  given back will be erased by the call that gave it back (`GaveBack`). Each condition is needed: two plain saves of one NRO
  lose an update; an event that creates contracts leaves FAILED rows, whose cancellation
  takes load from others (`v_refused_cancel`); a failure between a plain release and the write of the row, or a commit aborted and
  then a failure before the row is erased, leaves an ACTIVE contract without load.
* `HeldWithoutTransactions` (HeldAtRest), under `AloneOnStandalone`: the server is standalone, as in production
  (docker-compose.prod.yml), contracts come from events only, no call fails, and no two contracts share a phone number.
  `SoloInv`: the numbers the worker has read are still those of the collections (`WorkFits`); an NRO has load for its
  ACTIVE contracts but the one whose load is given back, and for the one it is claimed for (`Charged`); an event's FDT counts
  one port at most, and only while its contract is ACTIVE or about to be (`Plugged`). Each condition is needed:
  `v_retry` breaks the conclusion with one failure, `v_create_twice` with two POST /contracts; and a row that the unique
  phone number refuses leaves its load claimed (`upsertRow` comes after `saveClaim`).

For Helpdesk, under the assumptions of Accounts, Complaints and Helpdesk (what may be asked
and sent: a manager is created with a name, an enveloped event carries its name on its outer level):

* `TokensStayOwn` (TokensAreOwn), `FieldsStay` (FieldsAreKept). `AccountInv`: an account that can log in as a zone's
  manager has a zone, which is among those it managed; what is about to be signed is such an
  account as it was found; a request past its checks is for a zone that was looked up.
* `ComplaintsGetTold` (ComplaintsAreTold), `EventsAreRouted` (RoutedAsSent). `ComplaintInv`: an event's complaint that nobody
  gave up has been told, or a job that will tell is queued or with the worker.
* `HelpdeskTypeCorrect` from both.

For Supervisor, under the assumptions of SupervisorTasks, Anomalies and Supervisor (sites and services have
ids of their own, levels are natural numbers), for any set of runs and any words of the agents:

* `SupervisorInvariant`, in two parts. `RunInv`: each run is at a point of its kind, and `inFlight`, the askers and the
  reports refer to runs of the kind, scope and language asked for. `StoreInv`: what is stored has its
  type, and a proposal is one the planner weighed. `AnswersAlwaysFit`, `PlansStaySafe` and
  `SupervisorTypeCorrect` follow.
* `DetectedOnce` (OneDetected), `ReviewsAlwaysStand` (ReviewsStand): the unique index and the lookup of DETECTED anomalies suffice.
* `AlertsGetTold` (AlertsAreTold). `NoticesInv`: an alert was heard by everyone, was dropped by a failed run, or a
  run is still telling of it; and whoever tells the administrators has told the zone's manager.
* `TwinsComeFromOverlaps` (NoTwins). `TwinsInv`: the recommendations of an action and area are numbered as they were
  inserted, and a run about to insert one found no recent one among those there when it looked.
* `AlertsAlwaysMirror` (AlertsMirror). `CalmInv`: while a tier runs alone on a network at rest, the
  alerts of the sites it has passed are right, and it owes exactly those it has still to raise.

For NetworkAdmin, under the assumptions of InfraDocs, ZoneImport and NetworkAdmin (well-typed documents,
payloads and requests):

* `NetworkTypeCorrect`. `TypeInv` adds that a live centrale has a zone, that a session is open just
  while features are stored and counters recomputed, and what each request and audit has read.
* `NoTrace` (AllOrNothing), where the server has sessions (Transactional): an import writes the collections at its
  commit, after which it is idle (`TracelessInv`).
* `CountersRight` (ImportRecounts) and `NothingOverwritten` (OthersOutlive: a commit replaces no
  document that somebody else wrote since the snapshot, although it writes documents whole and compares nothing).
  The argument is about snapshots. `SessionInv`: what a session has not written is in its view as
  it was at the start, and what it has written nobody else has changed or may change. `CountInv`: in that
  view, the counters recomputed so far are right. At the commit both together give the
  counters of the network. Without sessions CountersRight claims nothing.

Model-checked only:

* Liveness (JobSettles, UrgentServed, TrialDecides, ImportsEnd, Repaired, EventsAreHandled, AsksEnd), which
  TLAPS does not treat here: it needs ENABLED.
* ImportIsIdempotent, whose reference definition folds over the payload: an induction over data.
* The standalone path of the pipeline beyond TypeOK, AnnouncedOnce, StatusSticks, CoveredAtRest and HeldAtRest.

## 5. Not modelled, and the plan

Not modelled:

* *zones*: PATCH of a zone's name or polygon, and the seeding of the 24 zones (start-up data);
* *nro*: `reconcileStatus`, which nothing calls; *topology*: nearest-FDT searches the pipeline does not use;
* *reclamations*: type, category and priority, and PATCH, which writes the fields it is given;
* *auth*: expiry and signatures (the JWT library's) and throttling (counters of a library);
* *map*, *common*, metrics, logs, AI classification: queries and formatting that keep no state;
* *ai-supervisor*: scores and trends computed from snapshots (their verdicts are
  open choices), the geospatial agent's fixed fallbacks, prompts, report texts and their ranking,
  caches of explanations, flags the audit only reports;
* commits whose result the server never confirms, other settings of the planner than its defaults;
* bounds that take hundreds of documents: the first 200 pending recommendations of `findPending`;
* bootstrap, migration scripts and deployment: wiring and one-off data.

What comes next:

1. LedgerImplemented with POST /contracts among the REST calls: the ledger then needs a grant that two contracts
   may ask for at once, and a load that no row holds yet;
2. that an import's counters stay right where imports cover different zones, so that `Disturbed` is needed for
   contracts on another zone's FDT only.
