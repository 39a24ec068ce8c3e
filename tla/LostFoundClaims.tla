-------------------------- MODULE LostFoundClaims --------------------------
(***************************************************************************)
(* Found items, the claims on them, and who decides: LostFoundClaimService,*)
(* LostFoundAdminService and the part of LostFoundReportService that       *)
(* changes the status of a report.  Each operation is a transaction that   *)
(* reads a snapshot, checks it, and at its commit writes whole rows back   *)
(* (no lock, no version): an operation is therefore two steps here.  The   *)
(* rows a commit changes must still exist, or it fails.                    *)
(***************************************************************************)
EXTENDS Naturals, Sequences

CONSTANTS
  Users, Reports,
  Owner,      \* who created each report; all are FOUND reports
  Requests,   \* slots for transactions in progress
  NULL,
  MaxClaims   \* bound on the claims made

ASSUME OwnerAssumption == Owner \in [Reports -> Users]
ASSUME BoundAssumption == MaxClaims \in Nat

ReportStatus == {"OPEN", "CLAIMED", "CLOSED"}
ClaimStatus == {"SUBMITTED", "APPROVED", "REJECTED"}
Active == {"SUBMITTED", "APPROVED"}

VARIABLES
  reports,  \* per report in the database: status and adminHidden
  claims,   \* the claims made; a claim is deleted with its report
  told,     \* per claim, the last decision its claimant was notified of
  tx,       \* per request, the operation that has passed its checks
  late,     \* history: the requests on whose report another operation has committed since
  raced     \* history: the reports on which a late operation has committed

vars == <<reports, claims, told, tx, late, raced>>

Init ==
  /\ reports = [p \in Reports |-> [status |-> "OPEN", hidden |-> FALSE]]
  /\ claims = <<>> /\ told = <<>>
  /\ tx = [t \in Requests |-> NULL]
  /\ late = {} /\ raced = {}

Exists(p) == p \in DOMAIN reports
ClaimsOf(p) == {i \in DOMAIN claims : claims[i].report = p}
Alive == {i \in DOMAIN claims : Exists(claims[i].report)}

\* The checks have passed: rows is what the operation will write to its
\* claims, and row what it will write to its report.
Op(name, p, row, rows) == [op |-> name, report |-> p, row |-> row, rows |-> rows]
Begin(t, o) ==
  /\ tx[t] = NULL
  /\ tx' = [tx EXCEPT ![t] = o]
  /\ UNCHANGED <<reports, claims, told, late, raced>>

(***************************************************************************)
(* Checks                                                                  *)
(***************************************************************************)
NoDecision == [i \in {} |-> "REJECTED"]

\* Mutant: only a claim still to be decided counts as a duplicate.
CreateClaimAgain(t, p, u) ==
  /\ Exists(p) /\ ~reports[p].hidden /\ reports[p].status = "OPEN" /\ Owner[p] # u
  /\ ~\E i \in ClaimsOf(p) : claims[i].by = u /\ claims[i].status = "APPROVED"
  /\ Begin(t, Op("claim", p, u, NoDecision))

\* LostFoundClaimService.create
CreateClaim(t, p, u) ==
  /\ Exists(p) /\ ~reports[p].hidden /\ reports[p].status = "OPEN" /\ Owner[p] # u
  /\ ~\E i \in ClaimsOf(p) : claims[i].by = u /\ claims[i].status \in Active
  /\ Begin(t, Op("claim", p, u, NoDecision))

\* Mutant: a claim that was rejected may be approved later.
ApproveClaimAgain(t, i) ==
  LET p == claims[i].report
      pending == {j \in ClaimsOf(p) : claims[j].status = "SUBMITTED"} \cup {i}
  IN /\ i \in Alive /\ claims[i].status # "APPROVED" /\ reports[p].status = "OPEN"
     /\ Begin(t, Op("decide", p, [reports[p] EXCEPT !.status = "CLAIMED"],
                    [j \in pending |-> IF j = i THEN "APPROVED" ELSE "REJECTED"]))

\* Mutant: the report stays open.
ApproveClaimOnly(t, i) ==
  LET p == claims[i].report
      pending == {j \in ClaimsOf(p) : claims[j].status = "SUBMITTED"}
  IN /\ i \in Alive /\ claims[i].status = "SUBMITTED" /\ reports[p].status = "OPEN"
     /\ Begin(t, Op("decide", p, reports[p],
                    [j \in pending |-> IF j = i THEN "APPROVED" ELSE "REJECTED"]))

\* approveClaim rejects the other pending claims on the report.
ApproveClaim(t, i) ==
  LET p == claims[i].report
      pending == {j \in ClaimsOf(p) : claims[j].status = "SUBMITTED"}
  IN /\ i \in Alive /\ claims[i].status = "SUBMITTED" /\ reports[p].status = "OPEN"
     /\ Begin(t, Op("decide", p, [reports[p] EXCEPT !.status = "CLAIMED"],
                    [j \in pending |-> IF j = i THEN "APPROVED" ELSE "REJECTED"]))

\* rejectClaim leaves the report alone.
RejectClaim(t, i) ==
  /\ i \in Alive /\ claims[i].status = "SUBMITTED"
  /\ Begin(t, Op("reject", claims[i].report, NULL, [j \in {i} |-> "REJECTED"]))

\* update, close, delist and restore write the row of the report they read.
EditReport(t, p) ==
  /\ Exists(p) /\ reports[p].status = "OPEN"
  /\ Begin(t, Op("edit", p, reports[p], NoDecision))

CloseReport(t, p) ==
  /\ Exists(p) /\ reports[p].status = "OPEN"
  /\ Begin(t, Op("edit", p, [reports[p] EXCEPT !.status = "CLOSED"], NoDecision))

Delist(t, p) ==
  /\ Exists(p) /\ ~reports[p].hidden
  /\ Begin(t, Op("edit", p, [reports[p] EXCEPT !.hidden = TRUE], NoDecision))

Restore(t, p) ==
  /\ Exists(p) /\ reports[p].hidden
  /\ Begin(t, Op("edit", p, [reports[p] EXCEPT !.hidden = FALSE], NoDecision))

\* delete asks for an open report and deleteAsAdmin for any: the second
\* includes the first.  The claims that were read are deleted with it.
DeleteReport(t, p) ==
  /\ Exists(p)
  /\ Begin(t, Op("delete", p, NULL, [i \in ClaimsOf(p) |-> claims[i].status]))

(***************************************************************************)
(* Commits                                                                 *)
(***************************************************************************)
\* Every other operation on the report has been overtaken.
End(t) ==
  /\ tx' = [tx EXCEPT ![t] = NULL]
  /\ late' = (late \ {t}) \cup {s \in Requests \ {t} : tx[s] # NULL /\ tx[s].report = tx[t].report}
  /\ raced' = IF t \in late THEN raced \cup {tx[t].report} ELSE raced

WithRow(p, row) == [q \in DOMAIN reports |-> IF q = p THEN row ELSE reports[q]]

Decided(rows) ==
  [i \in DOMAIN claims |->
     IF i \in DOMAIN rows THEN [claims[i] EXCEPT !.status = rows[i]] ELSE claims[i]]

\* Mutant: only the claimant who wins is notified.
ToldWinner(rows) ==
  [i \in DOMAIN told |->
     IF i \in DOMAIN rows /\ rows[i] = "APPROVED" THEN rows[i] ELSE told[i]]

\* claimApproved, claimRejected: every claimant is notified in the same transaction.
Told(rows) == [i \in DOMAIN told |-> IF i \in DOMAIN rows THEN rows[i] ELSE told[i]]

CommitClaim(t) ==
  LET o == tx[t]
  IN /\ o # NULL /\ o.op = "claim" /\ Exists(o.report) /\ Len(claims) < MaxClaims
     /\ claims' = Append(claims, [report |-> o.report, by |-> o.row, status |-> "SUBMITTED"])
     /\ told' = Append(told, "SUBMITTED")
     /\ End(t)
     /\ UNCHANGED reports

CommitDecision(t) ==
  LET o == tx[t]
  IN /\ o # NULL /\ o.op \in {"decide", "reject"} /\ Exists(o.report)
     /\ claims' = Decided(o.rows)
     /\ told' = Told(o.rows)
     /\ reports' = IF o.op = "decide" THEN WithRow(o.report, o.row) ELSE reports
     /\ End(t)

CommitEdit(t) ==
  LET o == tx[t]
  IN /\ o # NULL /\ o.op = "edit" /\ Exists(o.report)
     /\ reports' = WithRow(o.report, o.row)
     /\ End(t)
     /\ UNCHANGED <<claims, told>>

\* A claim made meanwhile refers to the report and keeps it from going.
CommitDelete(t) ==
  LET o == tx[t]
  IN /\ o # NULL /\ o.op = "delete" /\ Exists(o.report)
     /\ ClaimsOf(o.report) = DOMAIN o.rows
     /\ reports' = [q \in DOMAIN reports \ {o.report} |-> reports[q]]
     /\ End(t)
     /\ UNCHANGED <<claims, told>>

\* The transaction fails, on a deadlock, a missing row or a foreign key.
RollBack(t) ==
  /\ tx[t] # NULL
  /\ tx' = [tx EXCEPT ![t] = NULL] /\ late' = late \ {t}
  /\ UNCHANGED <<reports, claims, told, raced>>

Next ==
  \E t \in Requests :
    \/ \E p \in Reports :
         \/ \E u \in Users : CreateClaim(t, p, u)
         \/ EditReport(t, p) \/ CloseReport(t, p) \/ DeleteReport(t, p)
         \/ Delist(t, p) \/ Restore(t, p)
    \/ \E i \in DOMAIN claims : ApproveClaim(t, i) \/ RejectClaim(t, i)
    \/ CommitClaim(t) \/ CommitDecision(t) \/ CommitEdit(t) \/ CommitDelete(t)
    \/ RollBack(t)

Spec == Init /\ [][Next]_vars

(***************************************************************************)
(* Properties                                                              *)
(***************************************************************************)
\* The types of the variables.
Rows == [status: ReportStatus, hidden: BOOLEAN]
TypeOK ==
  /\ DOMAIN reports \subseteq Reports /\ \A p \in DOMAIN reports : reports[p] \in Rows
  /\ claims \in Seq([report: Reports, by: Users, status: ClaimStatus])
  /\ told \in Seq(ClaimStatus) /\ Len(told) = Len(claims)
  /\ \A t \in Requests : tx[t] # NULL =>
       tx[t].report \in Reports /\ DOMAIN tx[t].rows \subseteq DOMAIN claims
  /\ late \subseteq Requests /\ raced \subseteq Reports

\* A report with an approved claim is claimed, by that claim alone.
ClaimedOnce(p) ==
  \A i \in ClaimsOf(p) : claims[i].status = "APPROVED" =>
    /\ reports[p].status = "CLAIMED"
    /\ \A j \in ClaimsOf(p) : claims[j].status = "APPROVED" => i = j

\* approveClaim: claim APPROVED, report CLAIMED.  Operations that overlap break
\* it.
ApprovedIsClaimed == \A p \in DOMAIN reports : ClaimedOnce(p)

\* However the operations interleave and fail, only one that had checked the
\* report before another one changed it or its claims, and was committed after
\* it, leaves an approved claim on a report that is open or closed, or two of
\* them.
ClaimedUnlessOvertaken == \A p \in DOMAIN reports \ raced : ClaimedOnce(p)

\* create: a user has at most one active claim on a report, again until an
\* operation that was overtaken is committed there.
OneActiveClaim ==
  \A p \in DOMAIN reports \ raced :
    \A i, j \in ClaimsOf(p) :
      /\ claims[i].by = claims[j].by
      /\ {claims[i].status, claims[j].status} \subseteq Active
      => i = j

\* CLAIM_ALREADY_DECIDED: a decision on a claim is changed only by an operation
\* on a report where one that was overtaken has been committed.
DecisionFinal ==
  [][\A i \in DOMAIN claims :
       claims[i].status # "SUBMITTED" /\ claims[i].report \notin raced' =>
         claims'[i].status = claims[i].status]_vars

\* However decisions overlap, what a claimant was told last is what the
\* database says of the claim.
LastWordIsTrue == \A i \in Alive : told[i] = claims[i].status
=============================================================================
