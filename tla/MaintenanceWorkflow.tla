------------------------ MODULE MaintenanceWorkflow ------------------------
(***************************************************************************)
(* Maintenance tickets in FacilitiesService.  A user submits a ticket; an  *)
(* administrator moves it along MAINTENANCE_TRANSITIONS.  The update reads *)
(* the ticket, checks the transition and writes the row back, with neither *)
(* a lock nor a version, so updates of several administrators interleave   *)
(* between the read and the commit.                                        *)
(***************************************************************************)
EXTENDS Naturals, Sequences

CONSTANTS
  Requests,   \* slots for updates in progress
  NULL,
  MaxTickets  \* bound on the tickets submitted

ASSUME MaintenanceAssumption == MaxTickets \in Nat

Status == {"SUBMITTED", "IN_PROGRESS", "RESOLVED", "CANCELLED"}
Final == {"RESOLVED", "CANCELLED"}

VARIABLES
  status,  \* the committed status of each ticket; its id is its place
  seen,    \* history: every status a ticket has had
  update   \* per request, the update it has checked and not yet written: what it read and writes

vars == <<status, seen, update>>

Init == status = <<>> /\ seen = <<>> /\ update = [r \in Requests |-> NULL]

\* Mutant: a ticket may be resolved as soon as it is submitted.
TransitionsAtOnce ==
  [SUBMITTED |-> Status \ {"SUBMITTED"}, IN_PROGRESS |-> {"RESOLVED", "CANCELLED"},
   RESOLVED |-> {}, CANCELLED |-> {}]

\* MAINTENANCE_TRANSITIONS
Transitions ==
  [SUBMITTED |-> {"IN_PROGRESS", "CANCELLED"}, IN_PROGRESS |-> {"RESOLVED", "CANCELLED"},
   RESOLVED |-> {}, CANCELLED |-> {}]

\* submitMaintenanceRequest
Submit ==
  /\ Len(status) < MaxTickets
  /\ status' = Append(status, "SUBMITTED") /\ seen' = Append(seen, {"SUBMITTED"})
  /\ UNCHANGED update

\* updateMaintenanceStatus up to the check.  A repeated status is answered at
\* once and a forbidden transition is refused: both change nothing.
CheckUpdate(r, i, target) ==
  /\ update[r] = NULL
  /\ target \in Transitions[status[i]]
  /\ update' = [update EXCEPT ![r] = [id |-> i, from |-> status[i], target |-> target]]
  /\ UNCHANGED <<status, seen>>

\* updateStatus, save and commit: the row is written whatever it is by now.
CommitUpdate(r) ==
  /\ update[r] # NULL
  /\ LET i == update[r].id
     IN /\ status' = [status EXCEPT ![i] = update[r].target]
        /\ seen' = [seen EXCEPT ![i] = @ \cup {update[r].target}]
  /\ update' = [update EXCEPT ![r] = NULL]

\* The transaction fails.
RollBack(r) ==
  /\ update[r] # NULL
  /\ update' = [update EXCEPT ![r] = NULL]
  /\ UNCHANGED <<status, seen>>

Next ==
  \/ Submit
  \/ \E r \in Requests :
       \/ \E i \in DOMAIN status, target \in Status : CheckUpdate(r, i, target)
       \/ CommitUpdate(r)
       \/ RollBack(r)

Spec == Init /\ [][Next]_vars

(***************************************************************************)
(* Properties                                                              *)
(***************************************************************************)
\* The types of the variables.
TypeOK ==
  /\ status \in Seq(Status)
  /\ seen \in Seq(SUBSET Status)
  /\ update \in [Requests -> {NULL} \cup [id: DOMAIN status, from: Status, target: Status]]

\* However updates interleave, a ticket that was ever resolved was in
\* progress before.
ResolvedWasInProgress ==
  \A i \in DOMAIN status : "RESOLVED" \in seen[i] => "IN_PROGRESS" \in seen[i]

\* FRONTEND_API.md: a resolved or cancelled ticket has no further status.  It
\* loses that status only to an update that had read the ticket before it was
\* resolved or cancelled: to one that overlapped with the update that did so.
FinalLostOnlyToOverlap ==
  [][\A i \in DOMAIN status : status[i] \in Final /\ status'[i] # status[i] =>
       \E r \in Requests : /\ update[r] # NULL /\ update'[r] = NULL
                           /\ update[r].id = i /\ update[r].from \notin Final]_vars

(***************************************************************************)
(* The inductive invariant (FacilitiesAgentProofs)                             *)
(***************************************************************************)
\* What a ticket is now was recorded, and whoever is about to resolve a
\* ticket saw it in progress.
Recorded ==
  /\ DOMAIN seen = DOMAIN status
  /\ \A i \in DOMAIN status : status[i] \in seen[i]
  /\ \A r \in Requests :
       update[r] # NULL /\ update[r].target = "RESOLVED" => "IN_PROGRESS" \in seen[update[r].id]

IInv == TypeOK /\ Recorded /\ ResolvedWasInProgress
=============================================================================
