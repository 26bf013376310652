------------------------------ MODULE Complaints ------------------------------
(***************************************************************************)
(* Customer complaints (reclamations): posted to the internal REST routes  *)
(* or sent by the upstream websocket, put on the BullMQ queue, handled by  *)
(* its worker, stored, and told to the manager of the zone or to the       *)
(* administrators; and the REST routes that create and delete them.        *)
(*                                                                         *)
(* One awaited call is one action; the lookups of one contract, its zone   *)
(* and its NRO are two.  Contracts and zone polygons change under the      *)
(* handlers' feet: imports and audits (NetworkAdmin) move them.            *)
(***************************************************************************)
EXTENDS Routing, FiniteSets

CONSTANTS
  Reports,          \* externalIds of complaints
  Clients,          \* contracts, by the phone number or CIN they are found with
  Places, Regions,  \* where complaints come from, and the zones
  Nobody,           \* no zone, no contract, no report
  Senders,          \* POSTs to the events' routes that may be in progress
  Counters,         \* customer-service requests that may be in progress
  Home0, Drawn0,    \* the zones on contracts and around places at first
  Deliveries,       \* what may be sent: [from, name, level, report, client, place, direct, levels]
  CounterAsks,      \* customer service's requests: [op, report, client, place, by, zone]
  MaxTries,         \* enqueueWithRetry's attempts
  MaxAttempts,      \* BullMQ's attempts per job
  MaxFaults, MaxSent   \* bounds on failures and on everything that is begun

ASSUME ComplaintAssumption ==
  /\ Nobody \notin Reports \cup Clients \cup Regions \cup Deliveries \cup CounterAsks
  /\ MaxTries \in Nat \ {0} /\ MaxAttempts \in Nat \ {0} /\ MaxFaults \in Nat /\ MaxSent \in Nat

Somewhere == Regions \cup {Nobody}

ASSUME PlacesAssumption == Home0 \in [Clients -> Somewhere] /\ Drawn0 \in [Places -> Somewhere]

\* What may be sent: kind is what its sender named it, and NoName for what has no handler
\* or, upstream, carries its fields beside its name.
ASSUME DeliveryAssumption ==
  /\ NoName \notin Allowed \cup {"external.event"}
  /\ \A d \in Deliveries :
       /\ d.report \in Reports /\ d.client \in Clients \cup {Nobody} /\ d.place \in Places
       /\ d.from \in {"rest", "upstream"} /\ d.kind \in Kinds \cup {NoName}
       /\ d.from = "rest" /\ d.kind # NoName => d.name = d.kind
       /\ d.from = "upstream" /\ d.kind # NoName =>
            /\ d.levels = <<d.levels[1], d.levels[2]>> /\ d.levels[2] # EmptyLevel
            /\ NameOn(d.levels[1]) = d.kind

\* Customer service's requests give coordinates, and perhaps a contract or a zone.
ASSUME CounterAssumption ==
  \A a \in CounterAsks :
    /\ a.report \in Reports /\ a.client \in Clients \cup {Nobody} /\ a.place \in Places
    /\ a.by \in {"ADMIN", "SERVICE_CLIENT"} /\ a.zone \in Somewhere

VARIABLES
  queue,      \* waiting jobs, the next one first
  job,        \* the job the worker is at, and what its handler has found
  sending,    \* per sender: the event and the attempts made
  complaints, \* the reclamations collection
  notices,    \* the notifications stored about complaints: [to, about, event]
  lost,       \* history: complaints a job of which has failed for good
  counter,    \* per customer-service request
  home,       \* the zone on each contract
  drawn,      \* the zone whose polygon contains each place
  audit,      \* runAudit: complaints read without a zone, still to look at: [report, oid, place]
  sent, faults

complaintVars == <<queue, job, sending, complaints, notices, lost, counter, home, drawn, audit, sent, faults>>

\* found: the zone its handler found last (a history).
Complaint == [live : BOOLEAN, oid : Nat, zone : Somewhere, found : Somewhere,
              client : Clients \cup {Nobody}, place : Places \cup {Nobody},
              by : {"event", "ADMIN", "SERVICE_CLIENT"}]
NoComplaint == [live |-> FALSE, oid |-> 0, zone |-> Nobody, found |-> Nobody,
                client |-> Nobody, place |-> Nobody, by |-> "event"]

Everyone == {<<"admin", Nobody>>} \cup ({"zone"} \X Regions)
Notice == [to : Everyone, zone : Somewhere, about : Reports, event : {"RECLAMATION_NEW", "RECLAMATION_DELETE"}]
AdminOnly == <<"admin", Nobody>>
Addressee(z) == IF z = Nobody THEN AdminOnly ELSE <<"zone", z>>

\* A job that has been tried, and has stalled, so many times.
AJob(d, levels, made, stalls) == [event |-> d, levels |-> levels, made |-> made, stalls |-> stalls]
NewJob(d, levels) == AJob(d, levels, 0, 0)

IdleJob == [at |-> "idle", event |-> Nobody, levels |-> << >>, made |-> 0, stalls |-> 0,
            client |-> Nobody, zone |-> Nobody]
JobAt == {"idle", "route", "findContract", "findZone", "upsert", "notify", "complete"}
NotSending == [at |-> "idle", event |-> Nobody, tries |-> 0]
CounterFree == [at |-> "idle", ask |-> Nobody, zone |-> Nobody, oid |-> 0]
CounterAt == {"idle", "create", "erase", "tellAdmin", "tellZone"}

ComplaintType ==
  /\ \A i \in DOMAIN queue : queue[i].event \in Deliveries /\ queue[i].made < MaxAttempts
                             /\ queue[i].stalls <= 1
  /\ job.at \in JobAt /\ job.zone \in Somewhere /\ job.client \in Clients \cup {Nobody}
  /\ \A s \in Senders : sending[s].at \in {"idle", "enqueue"} /\ sending[s].tries \in 0..MaxTries
  /\ complaints \in [Reports -> Complaint] /\ notices \subseteq Notice /\ lost \subseteq Reports
  /\ \A c \in Counters : counter[c].at \in CounterAt /\ counter[c].zone \in Somewhere
  /\ home \in [Clients -> Somewhere] /\ drawn \in [Places -> Somewhere]
  /\ \A a \in audit : a.report \in Reports /\ a.oid \in Nat
  /\ sent \in 0..MaxSent /\ faults \in 0..MaxFaults

ComplaintInit ==
  /\ queue = << >> /\ job = IdleJob
  /\ sending = [s \in Senders |-> NotSending]
  /\ complaints = [r \in Reports |-> NoComplaint]
  /\ notices = {} /\ lost = {}
  /\ counter = [c \in Counters |-> CounterFree]
  /\ home = Home0 /\ drawn = Drawn0 /\ audit = {}
  /\ sent = 0 /\ faults = 0

Begin == sent < MaxSent /\ sent' = sent + 1
Fault == faults < MaxFaults /\ faults' = faults + 1

-----------------------------------------------------------------------------
(* The way in.                                                                *)

\* POST /events and the routes of one type; TEST is answered and forgotten.
PostEvent(s) == \E d \in Deliveries :
  /\ sending[s].at = "idle" /\ d.from = "rest" /\ Begin
  /\ IF d.direct THEN ValidDirect(d.name, d.level) ELSE ValidInbound(d.name, d.level)
  /\ d.name # "test"
  /\ sending' = [sending EXCEPT ![s] = [at |-> "enqueue", event |-> d, tries |-> 1]]
  /\ UNCHANGED <<queue, job, complaints, notices, lost, counter, home, drawn, audit, faults>>

Enqueued(s) == Append(queue, NewJob(sending[s].event, Normalized(sending[s].event.name, sending[s].event.level)))

EnqueueWithRetry(s) ==
  /\ sending[s].at = "enqueue"
  /\ queue' = Enqueued(s) /\ sending' = [sending EXCEPT ![s] = NotSending]
  /\ UNCHANGED <<job, complaints, notices, lost, counter, home, drawn, audit, sent, faults>>

\* queue.add throws, although Redis may have taken the job; after the last try the
\* caller is told that the event was not received.
EnqueueThrows(s) ==
  /\ sending[s].at = "enqueue" /\ Fault
  /\ queue' \in {queue, Enqueued(s)}
  /\ sending' = [sending EXCEPT ![s] =
       IF sending[s].tries < MaxTries THEN [sending[s] EXCEPT !.tries = sending[s].tries + 1]
       ELSE NotSending]
  /\ UNCHANGED <<job, complaints, notices, lost, counter, home, drawn, audit, sent>>

\* The websocket client tries once and drops the error.
UpstreamEvent == \E d \in Deliveries :
  /\ d.from = "upstream" /\ Begin
  /\ \/ queue' = Append(queue, NewJob(d, FromUpstream(d.levels))) /\ faults' = faults
     \/ Fault /\ queue' = queue
  /\ UNCHANGED <<job, sending, complaints, notices, lost, counter, home, drawn, audit>>

-----------------------------------------------------------------------------
(* The worker.                                                                *)

JobGo(from, to) == job.at = from /\ job' = [job EXCEPT !.at = to]
OnlyJob == UNCHANGED <<queue, sending, complaints, notices, lost, counter, home, drawn, audit, sent, faults>>

Take ==
  /\ job.at = "idle" /\ queue # << >> /\ queue' = Tail(queue)
  /\ job' = [IdleJob EXCEPT !.at = "route", !.event = Head(queue).event,
               !.levels = Head(queue).levels, !.made = Head(queue).made,
               !.stalls = Head(queue).stalls]
  /\ UNCHANGED <<sending, complaints, notices, lost, counter, home, drawn, audit, sent, faults>>

\* Faulty variant: a job nobody can handle waits for somebody who can.
PutBack ==
  /\ JobGo("route", IF Handler(job.levels) = "reclamations.new" THEN "findContract" ELSE "idle")
  /\ queue' = IF job'.at = "idle"
              THEN Append(queue, NewJob(job.event, job.levels)) ELSE queue
  /\ UNCHANGED <<sending, complaints, notices, lost, counter, home, drawn, audit, sent, faults>>

\* processDomainEvent: complaints are followed here; an event that is unknown, or lacks
\* what its handler needs, completes without a trace.
Route ==
  /\ JobGo("route", IF Handler(job.levels) = "reclamations.new" THEN "findContract" ELSE "complete")
  /\ OnlyJob

\* Its phone number or CIN finds the contract.
FindContract ==
  /\ job.at = "findContract"
  /\ job' = [job EXCEPT !.at = "findZone", !.client = job.event.client,
               !.zone = IF job.event.client = Nobody THEN Nobody ELSE home[job.event.client]]
  /\ OnlyJob

\* A contract that names a zone decides; the coordinates do otherwise.
FindZone ==
  /\ job.at = "findZone"
  /\ job' = [job EXCEPT !.at = "upsert",
               !.zone = IF @ # Nobody THEN @ ELSE drawn[job.event.place]]
  /\ OnlyJob

\* Faulty variant: a complaint that is there already is left alone, and so is its notice.
InsertOnce ==
  /\ job.at = "upsert"
  /\ IF complaints[job.event.report].live
     THEN JobGo("upsert", "complete") /\ UNCHANGED complaints
     ELSE /\ JobGo("upsert", "notify")
          /\ complaints' = [complaints EXCEPT ![job.event.report] =
               [live |-> TRUE, oid |-> @.oid + 1, zone |-> job.zone, found |-> job.zone,
                client |-> job.client, place |-> job.event.place, by |-> "event"]]
  /\ UNCHANGED <<queue, sending, notices, lost, counter, home, drawn, audit, sent, faults>>

\* findOneAndUpdate with upsert: a redelivered complaint is written again, as NEW.  A zone
\* or contract that was not found is undefined, and leaves what is stored.
Upsert ==
  /\ JobGo("upsert", "notify")
  /\ complaints' = [complaints EXCEPT ![job.event.report] =
       [live |-> TRUE, oid |-> IF @.live THEN @.oid ELSE @.oid + 1,
        zone |-> IF job.zone = Nobody THEN @.zone ELSE job.zone, found |-> job.zone,
        client |-> IF job.client = Nobody THEN @.client ELSE job.client,
        place |-> job.event.place, by |-> IF @.live THEN @.by ELSE "event"]]
  /\ UNCHANGED <<queue, sending, notices, lost, counter, home, drawn, audit, sent, faults>>

\* notifyZoneManager and notifyAdmin; an administrator's may name a zone as well.
Tell(to, zone, report, event) ==
  notices' = notices \cup {[to |-> to, zone |-> zone, about |-> report, event |-> event]}

\* findRecent: what GET /map/notifications shows to the manager of z, or to those with
\* no zone of their own.
Inbox(z) == IF z = Nobody THEN notices ELSE {n \in notices : n.zone = z}

Notify ==
  /\ JobGo("notify", "complete")
  /\ Tell(Addressee(job.zone), job.zone, job.event.report, "RECLAMATION_NEW")
  /\ UNCHANGED <<queue, sending, complaints, lost, counter, home, drawn, audit, sent, faults>>

\* The broadcasts to every socket, whose errors are caught, and the end of the job.
Complete ==
  /\ job.at = "complete" /\ job' = IdleJob
  /\ OnlyJob

\* Faulty variant: one attempt too many.
JobThrowsAgain ==
  /\ job.at \in {"findContract", "findZone", "upsert", "notify"} /\ Fault /\ job' = IdleJob
  /\ IF job.made < MaxAttempts
     THEN /\ queue' = Append(queue, AJob(job.event, job.levels, job.made + 1, job.stalls))
          /\ lost' = lost
     ELSE queue' = queue /\ lost' = lost \cup {job.event.report}
  /\ UNCHANGED <<sending, complaints, notices, counter, home, drawn, audit, sent>>

\* The handler throws; BullMQ tries the job again later, behind the others.
JobThrows ==
  /\ job.at \in {"findContract", "findZone", "upsert", "notify"} /\ Fault /\ job' = IdleJob
  /\ IF job.made + 1 < MaxAttempts
     THEN /\ queue' = Append(queue, AJob(job.event, job.levels, job.made + 1, job.stalls))
          /\ lost' = lost
     ELSE queue' = queue /\ lost' = lost \cup {job.event.report}
  /\ UNCHANGED <<sending, complaints, notices, counter, home, drawn, audit, sent>>

\* The process dies: a stalled job is first in line, once; requests are cut off.
Crash ==
  /\ Fault /\ job' = IdleJob
  /\ IF job.at # "idle" /\ job.stalls = 0
     THEN queue' = <<AJob(job.event, job.levels, job.made, 1)>> \o queue
     ELSE queue' = queue
  /\ lost' = IF job.at # "idle" /\ job.stalls = 1 THEN lost \cup {job.event.report} ELSE lost
  /\ sending' = [s \in Senders |-> NotSending] /\ counter' = [c \in Counters |-> CounterFree]
  /\ UNCHANGED <<complaints, notices, home, drawn, sent>> /\ audit' = {}

-----------------------------------------------------------------------------
(* Customer service: POST and DELETE /reclamations.                           *)

OnlyCounter == UNCHANGED <<queue, job, sending, lost, home, drawn, audit, faults>>

\* The zone asked for decides here, then the contract's, then the coordinates.
OpenCounter(c) == \E a \in CounterAsks :
  /\ counter[c].at = "idle" /\ Begin
  /\ a.op = "delete" => complaints[a.report].live
  /\ counter' = [counter EXCEPT ![c] =
       IF a.op = "delete"
       THEN [at |-> "erase", ask |-> a, zone |-> complaints[a.report].zone,
             oid |-> complaints[a.report].oid]
       ELSE [at |-> "create", ask |-> a, oid |-> 0,
             zone |-> IF a.zone # Nobody THEN a.zone
                      ELSE IF a.client # Nobody /\ home[a.client] # Nobody THEN home[a.client]
                      ELSE drawn[a.place]]]
  /\ UNCHANGED <<complaints, notices>> /\ OnlyCounter

Served(c, next) ==
  counter' = [counter EXCEPT ![c] =
    IF counter[c].ask.by = "SERVICE_CLIENT" /\ next # "idle" THEN [@ EXCEPT !.at = next] ELSE CounterFree]

\* externalId is unique: the second create of one complaint is turned down.
CreateReclamation(c) == LET a == counter[c].ask IN
  /\ counter[c].at = "create"
  /\ IF complaints[a.report].live
     THEN Served(c, "idle") /\ UNCHANGED complaints
     ELSE /\ complaints' = [complaints EXCEPT ![a.report] =
               [live |-> TRUE, oid |-> @.oid + 1, zone |-> counter[c].zone,
                found |-> counter[c].zone, client |-> a.client, place |-> a.place, by |-> a.by]]
          /\ Served(c, "tellAdmin")
  /\ UNCHANGED <<notices, sent>> /\ OnlyCounter

\* By _id: a complaint made again under the same externalId is another one.
DeleteReclamation(c) == LET a == counter[c].ask IN
  /\ counter[c].at = "erase"
  /\ complaints' = [complaints EXCEPT ![a.report] =
       IF @.live /\ @.oid = counter[c].oid THEN [NoComplaint EXCEPT !.oid = counter[c].oid] ELSE @]
  /\ Served(c, "tellAdmin")
  /\ UNCHANGED <<notices, sent>> /\ OnlyCounter

EventOf(a) == IF a.op = "delete" THEN "RECLAMATION_DELETE" ELSE "RECLAMATION_NEW"

TellAdmin(c) ==
  /\ counter[c].at = "tellAdmin"
  /\ Tell(AdminOnly, counter[c].zone, counter[c].ask.report, EventOf(counter[c].ask))
  /\ Served(c, IF counter[c].zone = Nobody THEN "idle" ELSE "tellZone")
  /\ UNCHANGED <<complaints, sent>> /\ OnlyCounter

TellZone(c) ==
  /\ counter[c].at = "tellZone"
  /\ Tell(Addressee(counter[c].zone), counter[c].zone, counter[c].ask.report, EventOf(counter[c].ask))
  /\ Served(c, "idle")
  /\ UNCHANGED <<complaints, sent>> /\ OnlyCounter

\* AutoCorrectionService.resolveMissingZoneReferences, on complaints.
StartAudit ==
  /\ audit = {}
  /\ audit' = {[report |-> r, oid |-> complaints[r].oid, place |-> complaints[r].place] :
                 r \in {x \in Reports : complaints[x].live /\ complaints[x].zone = Nobody}}
  /\ audit' # {}
  /\ UNCHANGED <<queue, job, sending, complaints, notices, lost, counter, home, drawn, sent, faults>>

\* The save of a complaint deleted since throws, and ends the audit.
AuditComplaint == \E a \in audit :
  LET c == complaints[a.report]
      there == c.live /\ c.oid = a.oid
  IN
  /\ audit' = IF there \/ drawn[a.place] = Nobody THEN audit \ {a} ELSE {}
  /\ complaints' = IF there /\ drawn[a.place] # Nobody
                   THEN [complaints EXCEPT ![a.report].zone = drawn[a.place]] ELSE complaints
  /\ UNCHANGED <<queue, job, sending, notices, lost, counter, home, drawn, sent, faults>>

\* An import or an audit moves a contract, or draws a zone again.
NetworkMoves ==
  /\ Begin
  /\ \/ home' \in {[home EXCEPT ![k] = z] : k \in Clients, z \in Somewhere} /\ drawn' = drawn
     \/ drawn' \in {[drawn EXCEPT ![k] = z] : k \in Places, z \in Somewhere} /\ home' = home
  /\ UNCHANGED <<queue, job, sending, complaints, notices, lost, counter, audit, faults>>

WorkerStep == Take \/ Route \/ FindContract \/ FindZone \/ Upsert \/ Notify \/ Complete
CounterStep(c) == CreateReclamation(c) \/ DeleteReclamation(c) \/ TellAdmin(c) \/ TellZone(c)

ComplaintNext ==
  \/ \E s \in Senders : PostEvent(s) \/ EnqueueWithRetry(s) \/ EnqueueThrows(s)
  \/ UpstreamEvent \/ WorkerStep \/ JobThrows
  \/ \E c \in Counters : OpenCounter(c) \/ CounterStep(c)
  \/ StartAudit \/ AuditComplaint \/ NetworkMoves

-----------------------------------------------------------------------------
Underway(r) ==
  \/ job.at # "idle" /\ job.event.report = r
  \/ \E i \in DOMAIN queue : queue[i].event.report = r

(* A complaint an event stored is in the inbox of the manager of the zone    *)
(* its handler found, or told to the administrators when it found none, once *)
(* no job about it is left: retries, redeliveries and crashes leave none     *)
(* untold, nor told only to the zone a first attempt found.  (A job that     *)
(* failed for good is the exception, and a zone that an audit finds later is *)
(* told to nobody.)                                                          *)
ComplaintsAreTold == \A r \in Reports :
  complaints[r].live /\ complaints[r].by = "event" /\ ~Underway(r) /\ r \notin lost =>
    \E n \in Inbox(complaints[r].found) :
      n.about = r /\ n.event = "RECLAMATION_NEW" /\ n.to = Addressee(complaints[r].found)

(* A queued event reaches the handler its sender named, whatever names its   *)
(* payload carries under the same keys: a complaint's own `type` says what   *)
(* is wrong with the line.  (Upstream events whose fields are not in a       *)
(* payload of their own are the exception.)                                  *)
RoutedAsSent == \A i \in DOMAIN queue :
  queue[i].event.kind # NoName => EventType(queue[i].levels) = queue[i].event.kind

Waiting(r) == \E i \in DOMAIN queue : queue[i].event.report = r

(* No event waits for ever behind those nobody can handle.                   *)
EventsAreHandled == \A r \in Reports : Waiting(r) ~> ~Waiting(r)
=============================================================================
