------------------------------- MODULE Routing -------------------------------
(***************************************************************************)
(* From a raw event to the handler that gets it: what EventsService lets   *)
(* in, and how RabbitMqService.processDomainEvent unwraps a job, finds the *)
(* event's type in it and checks the payload for that type.                *)
(*                                                                         *)
(* A job is the sequence of its levels: the root object, its `payload`,    *)
(* and the payload's own `payload`.  A level has a name under some of the  *)
(* four keys an event's type may be under, the business fields it carries, *)
(* whichever of their spellings it uses, and the fields whose value the    *)
(* DTO rejects.  A name stands for all the spellings resolveEventType      *)
(* lists for it.                                                           *)
(***************************************************************************)
EXTENDS Sequences, Integers, SequencesExt

CONSTANT NoName

\* In the order readString tries them.
Keys == <<"type", "eventType", "event", "queue">>

Kinds == {"contracts.new", "contracts.cancel", "reclamations.new", "nro.new", "nro.update",
          "nro.delete", "fdt.new", "topology.updated"}

\* The types EventsService lets in; the worker has no handler for the last seven.
Allowed == Kinds \cup {"contracts.update", "fdt.update", "fdt.delete", "centrale.new",
                       "centrale.update", "centrale.delete", "test"}

Fields == {"id", "latitude", "longitude", "phone", "cin", "offre", "typeClient", "issue", "name"}

NoNames == [type |-> NoName, eventType |-> NoName, event |-> NoName, queue |-> NoName]
EmptyLevel == [names |-> NoNames, fields |-> {}, bad |-> {}]

KindOf(name) == IF name \in Kinds THEN name ELSE NoName

\* readString over the four keys.
NameOn(level) ==
  LET given == {i \in DOMAIN Keys : level.names[Keys[i]] # NoName}
  IN  IF given = {} THEN NoName ELSE level.names[Keys[Min(given)]]

\* unwrapPayload: the object itself when it has no payload.
Unwrap(levels) == IF Len(levels) > 1 THEN Tail(levels) ELSE levels

\* The name on the level unless it is only the wrapper's, else the one below.
ResolveEventType(levels) ==
  LET direct == NameOn(levels[1])
  IN  KindOf(IF direct \notin {NoName, "external.event"} THEN direct
             ELSE NameOn(Unwrap(levels)[1]))

\* extractEventEnvelope: the levels that name the event, and the one with its fields.
Envelope(job) ==
  LET named == NameOn(job[1]) # NoName
      full(n) == Len(job) >= n /\ job[n] # EmptyLevel
  IN  CASE full(3) -> [meta |-> IF named THEN job ELSE Tail(job), business |-> job[3]]
        [] ~full(3) /\ full(2) -> [meta |-> IF named THEN job ELSE Tail(job), business |-> job[2]]
        [] OTHER -> [meta |-> job, business |-> job[1]]

\* Faulty variant: the innermost name wins.
InnermostType(job) ==
  LET own == NameOn(Envelope(job).business)
  IN  IF own # NoName THEN KindOf(own) ELSE ResolveEventType(Envelope(job).meta)

\* An eventType at the root is believed before anything else.
EventType(job) ==
  LET explicit == KindOf(job[1].names.eventType)
  IN  IF explicit # NoName THEN explicit ELSE ResolveEventType(Envelope(job).meta)

\* What the toXxxPayload extractors cannot do without.  A complaint's description is its
\* own `type`, or its issueType or category.
Required(kind) ==
  CASE kind = "contracts.new" ->
         {"id", "latitude", "longitude", "phone", "cin", "offre", "typeClient"}
    [] kind = "reclamations.new" -> {"id", "latitude", "longitude", "cin"}
    [] kind = "nro.new" -> {"id", "name", "latitude", "longitude"}
    [] kind = "fdt.new" -> {"id", "latitude", "longitude"}
    [] kind \in {"contracts.cancel", "nro.update", "nro.delete"} -> {"id"}
    [] OTHER -> {}

\* A candidate is made, and passes the DTO's validation.
Extracted(kind, level) ==
  /\ Required(kind) \subseteq level.fields
  /\ kind = "reclamations.new" => level.names.type # NoName \/ "issue" \in level.fields
  /\ kind = "topology.updated" \/ level.bad = {}

Handler(job) ==
  LET kind == EventType(job)
  IN  IF kind # NoName /\ Extracted(kind, Envelope(job).business) THEN kind ELSE NoName

-----------------------------------------------------------------------------
(* EventsService.                                                             *)

NeedsLocation == {"contracts.new", "nro.new", "fdt.new", "centrale.new", "reclamations.new"}
HasValidLocation(level) == {"latitude", "longitude"} \subseteq level.fields \ level.bad

\* validateInboundEvent, for POST /events.
ValidInbound(name, level) ==
  /\ name \in Allowed
  /\ name # "test" => level # EmptyLevel
  /\ name \in NeedsLocation => HasValidLocation(level)

\* validateDirectPayload, for the routes of one type each.
ValidDirect(name, level) ==
  level # EmptyLevel /\ (name # "contracts.cancel" => HasValidLocation(level))

\* dispatchInternalEvent: what is enqueued.
Normalized(name, level) ==
  <<[EmptyLevel EXCEPT !.names.eventType = name], level>>

\* WebsocketClientService: what it wraps an upstream event in.
FromUpstream(levels) ==
  <<[EmptyLevel EXCEPT !.names.event = "external.event"]>> \o levels
=============================================================================
