------------------------------- MODULE Helpdesk -------------------------------
(***************************************************************************)
(* Complaints and the accounts of those who hear of them, in one process:  *)
(* a crash loses the requests of both, and both look up the same zones.    *)
(***************************************************************************)
EXTENDS Accounts, Complaints

ASSUME HelpdeskAssumption == Regions = Zones /\ Nobody = None

VARIABLE active   \* the zones whose map is active

vars == <<accountVars, complaintVars, active>>

TypeOK == AccountType /\ ComplaintType /\ active \subseteq Zones

Init == AccountInit /\ ComplaintInit /\ active = Zones

AccountNext ==
  \/ \E p \in Desks : DeskStep(p, active) /\ UNCHANGED <<complaintVars, active>>
  \/ Connect /\ UNCHANGED <<complaintVars, active>>

\* Every request counts in one bound.
AccountRequest == \E p \in Desks, a \in AccountAsks :
  /\ Ask(p, a) /\ Begin
  /\ UNCHANGED <<queue, job, sending, complaints, notices, lost, counter, home, drawn, audit, faults, active>>

\* PATCH /zones/:id and DELETE /zones/:id.
DeactivateZone == \E z \in active :
  /\ active' = active \ {z} /\ Begin
  /\ UNCHANGED <<accountVars, queue, job, sending, complaints, notices, lost, counter, home, drawn, audit,
                 faults>>

ProcessDies == Crash /\ LoseRequests /\ UNCHANGED <<users, manager, tokens, had, active>>

Next ==
  \/ ComplaintNext /\ UNCHANGED <<accountVars, active>>
  \/ AccountNext \/ AccountRequest \/ DeactivateZone \/ ProcessDies

Spec == Init /\ [][Next]_vars

\* The worker takes job after job, and its handlers run on.
FairSpec == Spec /\ WF_vars(WorkerStep /\ UNCHANGED <<accountVars, active>>)
=============================================================================
