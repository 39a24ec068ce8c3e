-------------------------- MODULE LostFoundProofs --------------------------
(***************************************************************************)
(* What claims keep without a lock, and what they keep until an operation  *)
(* that was overtaken is committed; and what the agent sends to the        *)
(* backend in a conversation, whatever the model reads into it.            *)
(***************************************************************************)
EXTENDS LostFoundAgent, SequenceTheorems, TLAPS

Claims == [report: Reports, by: Users, status: ClaimStatus]

\* What an operation carries from its checks to its commit.
OpTyped(o) ==
  /\ o.op \in {"claim", "decide", "reject", "edit", "delete"}
  /\ o.report \in Reports
  /\ o.op = "claim" => o.row \in Users
  /\ o.op \in {"decide", "edit"} => o.row \in Rows
  /\ o.op \in {"decide", "reject"} => \A i \in DOMAIN o.rows : o.rows[i] \in ClaimStatus

OpsTyped ==
  /\ DOMAIN tx = Requests
  /\ \A t \in Requests : tx[t] # NULL => OpTyped(tx[t])

\* LastWordIsTrue, for the claims of deleted reports as well.
ToldIsTrue == \A i \in DOMAIN claims : told[i] = claims[i].status

IInv == TypeOK /\ OpsTyped /\ ToldIsTrue

\* There is no claim at first.
LEMMA InitEstablishes == Init => IInv
<1> SUFFICES ASSUME Init PROVE IInv
  OBVIOUS
<1>1. /\ DOMAIN reports = Reports /\ claims = <<>> /\ told = <<>> /\ DOMAIN tx = Requests
      /\ late = {} /\ raced = {}
      /\ \A t \in Requests : tx[t] = NULL
      /\ \A p \in Reports : reports[p] = [status |-> "OPEN", hidden |-> FALSE]
  BY DEF Init
<1>2. [status |-> "OPEN", hidden |-> FALSE] \in Rows
  BY DEF Rows, ReportStatus
<1>3. TypeOK
  <2>1. /\ claims \in Seq([report: Reports, by: Users, status: ClaimStatus])
        /\ told \in Seq(ClaimStatus) /\ Len(told) = Len(claims)
    BY <1>1, EmptySeq
  <2>2. QED
    BY <1>1, <1>2, <2>1 DEF TypeOK
<1>4. QED
  BY <1>1, <1>3 DEF IInv, OpsTyped, ToldIsTrue

\* After its checks an operation carries a typed record and nothing else moves.
LEMMA BeginPreserves ==
  ASSUME IInv, NEW t \in Requests, NEW o, OpTyped(o), DOMAIN o.rows \subseteq DOMAIN claims,
         Begin(t, o)
  PROVE  IInv'
<1>1. /\ UNCHANGED <<reports, claims, told, late, raced>> /\ DOMAIN tx' = Requests
      /\ \A s \in Requests : tx'[s] = IF s = t THEN o ELSE tx[s]
  BY DEF Begin, IInv, OpsTyped
<1>2. \A s \in Requests : tx'[s] # NULL => OpTyped(tx'[s])
  BY <1>1 DEF IInv, OpsTyped
<1>3. OpsTyped'
  BY <1>1, <1>2 DEF OpsTyped
<1>4. TypeOK'
  BY <1>1, <1>2 DEF IInv, TypeOK, OpTyped
<1>5. QED
  BY <1>1, <1>3, <1>4 DEF IInv, ToldIsTrue

\* A claim is a typed row.
LEMMA ClaimTyped ==
  ASSUME IInv, NEW i \in DOMAIN claims
  PROVE  claims[i] \in Claims
<1>1. claims \in Seq(Claims)
  BY DEF IInv, TypeOK, Claims
<1>2. QED
  BY <1>1

\* The checks of every operation make such a record.
LEMMA ChecksPreserve ==
  ASSUME IInv, NEW t \in Requests,
         \/ \E p \in Reports :
              \/ \E u \in Users : CreateClaim(t, p, u)
              \/ EditReport(t, p) \/ CloseReport(t, p) \/ DeleteReport(t, p)
              \/ Delist(t, p) \/ Restore(t, p)
         \/ \E i \in DOMAIN claims : ApproveClaim(t, i) \/ RejectClaim(t, i)
  PROVE  IInv'
<1>1. \A p \in Reports : Exists(p) => reports[p] \in Rows
  BY DEF IInv, TypeOK, Exists
<1>2. \A i \in DOMAIN claims : claims[i] \in Claims
  BY ClaimTyped
<1>3. ASSUME NEW p \in Reports, NEW u \in Users, CreateClaim(t, p, u)
      PROVE  IInv'
  <2> DEFINE o == Op("claim", p, u, NoDecision)
  <2>1. OpTyped(o) /\ DOMAIN o.rows \subseteq DOMAIN claims
    BY DEF OpTyped, Op, NoDecision
  <2>2. QED
    BY <1>3, <2>1, BeginPreserves DEF CreateClaim
<1>4. ASSUME NEW p \in Reports, NEW row \in Rows, Begin(t, Op("edit", p, row, NoDecision))
      PROVE  IInv'
  <2> DEFINE o == Op("edit", p, row, NoDecision)
  <2>1. OpTyped(o) /\ DOMAIN o.rows \subseteq DOMAIN claims
    BY DEF OpTyped, Op, NoDecision
  <2>2. QED
    BY <1>4, <2>1, BeginPreserves
<1>5. ASSUME NEW p \in Reports,
             EditReport(t, p) \/ CloseReport(t, p) \/ Delist(t, p) \/ Restore(t, p)
      PROVE  IInv'
  <2>1. Exists(p) /\ reports[p] \in Rows
    BY <1>1, <1>5 DEF EditReport, CloseReport, Delist, Restore
  <2>2. /\ [reports[p] EXCEPT !.status = "CLOSED"] \in Rows
        /\ [reports[p] EXCEPT !.hidden = TRUE] \in Rows
        /\ [reports[p] EXCEPT !.hidden = FALSE] \in Rows
    BY <2>1 DEF Rows, ReportStatus
  <2>3. QED
    BY <1>4, <1>5, <2>1, <2>2 DEF EditReport, CloseReport, Delist, Restore
<1>6. ASSUME NEW p \in Reports, DeleteReport(t, p)
      PROVE  IInv'
  <2> DEFINE o == Op("delete", p, NULL, [i \in ClaimsOf(p) |-> claims[i].status])
  <2>1. OpTyped(o) /\ DOMAIN o.rows \subseteq DOMAIN claims
    BY DEF OpTyped, Op, ClaimsOf
  <2>2. QED
    BY <1>6, <2>1, BeginPreserves DEF DeleteReport
<1>7. ASSUME NEW i \in DOMAIN claims, ApproveClaim(t, i)
      PROVE  IInv'
  <2> DEFINE p == claims[i].report
             others == {j \in ClaimsOf(p) : claims[j].status = "SUBMITTED"}
             rows == [j \in others |-> IF j = i THEN "APPROVED" ELSE "REJECTED"]
             row == [reports[p] EXCEPT !.status = "CLAIMED"]
  <2>1. p \in Reports /\ reports[p] \in Rows
    BY <1>1, <1>2, <1>7 DEF ApproveClaim, Alive, Claims
  <2>2. row \in Rows
    BY <2>1 DEF Rows, ReportStatus
  <2>3. DOMAIN rows \subseteq DOMAIN claims /\ \A j \in DOMAIN rows : rows[j] \in ClaimStatus
    BY DEF ClaimsOf, ClaimStatus
  <2>4. Begin(t, Op("decide", p, row, rows))
    BY <1>7 DEF ApproveClaim
  <2> HIDE DEF p, row, rows
  <2> DEFINE o == Op("decide", p, row, rows)
  <2>5. OpTyped(o) /\ DOMAIN o.rows \subseteq DOMAIN claims
    BY <2>1, <2>2, <2>3 DEF OpTyped, Op
  <2>6. QED
    BY <2>4, <2>5, BeginPreserves
<1>8. ASSUME NEW i \in DOMAIN claims, RejectClaim(t, i)
      PROVE  IInv'
  <2> DEFINE o == Op("reject", claims[i].report, NULL, [j \in {i} |-> "REJECTED"])
  <2>1. OpTyped(o) /\ DOMAIN o.rows \subseteq DOMAIN claims
    BY <1>2 DEF OpTyped, Op, Claims, ClaimStatus
  <2>2. QED
    BY <1>8, <2>1, BeginPreserves DEF RejectClaim
<1>9. QED
  BY <1>3, <1>5, <1>6, <1>7, <1>8

\* Only requests are overtaken, and only on reports.
LEMMA MarksTyped ==
  ASSUME IInv, NEW t \in Requests, tx[t] # NULL, End(t)
  PROVE  late' \subseteq Requests /\ raced' \subseteq Reports
<1>1. tx[t].report \in Reports /\ late \subseteq Requests /\ raced \subseteq Reports
  BY DEF IInv, OpsTyped, OpTyped, TypeOK
<1>2. QED
  BY <1>1 DEF End

\* A new claim is SUBMITTED, and so its claimant is told.
LEMMA CommitClaimPreserves ==
  ASSUME IInv, NEW t \in Requests, CommitClaim(t)
  PROVE  IInv'
<1> DEFINE c == [report |-> tx[t].report, by |-> tx[t].row, status |-> "SUBMITTED"]
<1>1. /\ c \in Claims /\ claims' = Append(claims, c) /\ told' = Append(told, "SUBMITTED")
      /\ UNCHANGED reports /\ tx' = [tx EXCEPT ![t] = NULL]
  BY DEF CommitClaim, End, IInv, OpsTyped, OpTyped, Claims, ClaimStatus
<1>2. c.status = "SUBMITTED"
  OBVIOUS
<1> HIDE DEF c
<1>3. claims \in Seq(Claims) /\ told \in Seq(ClaimStatus) /\ Len(told) = Len(claims)
  BY DEF IInv, TypeOK, Claims
<1>4. /\ claims' \in Seq(Claims) /\ told' \in Seq(ClaimStatus) /\ Len(told') = Len(claims')
      /\ DOMAIN claims' = DOMAIN claims \cup {Len(claims) + 1}
      /\ claims'[Len(claims) + 1] = c /\ told'[Len(claims) + 1] = "SUBMITTED"
      /\ \A i \in DOMAIN claims : claims'[i] = claims[i] /\ told'[i] = told[i]
  BY <1>1, <1>3 DEF ClaimStatus
<1>5. ToldIsTrue'
  BY <1>2, <1>4 DEF IInv, ToldIsTrue
<1>6. /\ DOMAIN tx' = Requests
      /\ \A s \in Requests : tx'[s] = IF s = t THEN NULL ELSE tx[s]
  BY <1>1 DEF IInv, OpsTyped
<1>7. ASSUME NEW s \in Requests, tx'[s] # NULL
      PROVE  OpTyped(tx'[s]) /\ DOMAIN tx'[s].rows \subseteq DOMAIN claims'
  <2>1. tx'[s] = tx[s] /\ tx[s] # NULL
    BY <1>6, <1>7
  <2>2. QED
    BY <2>1, <1>4 DEF IInv, TypeOK, OpsTyped
<1>8. OpsTyped'
  BY <1>6, <1>7 DEF OpsTyped
<1>9. TypeOK'
  <2>1. late' \subseteq Requests /\ raced' \subseteq Reports
    BY MarksTyped DEF CommitClaim
  <2>2. QED
    BY <1>1, <1>4, <1>7, <2>1 DEF IInv, TypeOK, OpTyped, Claims
<1>10. QED
  BY <1>5, <1>8, <1>9 DEF IInv

\* A decision writes to its claims what it tells their claimants.
LEMMA CommitDecisionPreserves ==
  ASSUME IInv, NEW t \in Requests, CommitDecision(t)
  PROVE  IInv'
<1> DEFINE o == tx[t]
           rows == tx[t].rows
<1>1. /\ claims' = Decided(rows) /\ told' = Told(rows)
      /\ reports' = IF o.op = "decide" THEN WithRow(o.report, o.row) ELSE reports
      /\ tx' = [tx EXCEPT ![t] = NULL]
      /\ \A i \in DOMAIN rows : rows[i] \in ClaimStatus
      /\ o.op = "decide" => o.row \in Rows
  BY DEF CommitDecision, End, IInv, OpsTyped, OpTyped
<1>2. DOMAIN reports' = DOMAIN reports /\ \A p \in DOMAIN reports' : reports'[p] \in Rows
  BY <1>1 DEF WithRow, IInv, TypeOK
<1> HIDE DEF rows, o
<1>3. PICK n \in Nat : n = Len(claims) /\ n = Len(told)
  BY LenProperties DEF IInv, TypeOK
<1>4. /\ claims \in Seq(Claims) /\ told \in Seq(ClaimStatus)
      /\ DOMAIN claims = 1..n /\ DOMAIN told = 1..n
  BY <1>3, LenProperties DEF IInv, TypeOK, Claims
<1>5. /\ claims' = [i \in 1..n |-> IF i \in DOMAIN rows
                                   THEN [claims[i] EXCEPT !.status = rows[i]] ELSE claims[i]]
      /\ told' = [i \in 1..n |-> IF i \in DOMAIN rows THEN rows[i] ELSE told[i]]
  BY <1>1, <1>4 DEF Decided, Told
<1>6. ASSUME NEW i \in 1..n
      PROVE  claims'[i] \in Claims /\ told'[i] \in ClaimStatus /\ told'[i] = claims'[i].status
  <2>1. claims[i] \in Claims /\ told[i] \in ClaimStatus /\ told[i] = claims[i].status
    BY <1>4 DEF IInv, ToldIsTrue
  <2>2. CASE i \in DOMAIN rows
    <3>1. rows[i] \in ClaimStatus
      BY <1>1, <2>2
    <3>2. [claims[i] EXCEPT !.status = rows[i]] \in Claims
          /\ [claims[i] EXCEPT !.status = rows[i]].status = rows[i]
      BY <2>1, <3>1 DEF Claims
    <3>3. QED
      BY <1>5, <2>2, <3>1, <3>2
  <2>3. CASE i \notin DOMAIN rows
    BY <1>5, <2>1, <2>3
  <2>4. QED
    BY <2>2, <2>3
<1>7. claims' \in Seq(Claims) /\ told' \in Seq(ClaimStatus)
  <2>1. claims' \in [1..n -> Claims] /\ told' \in [1..n -> ClaimStatus]
    BY <1>5, <1>6
  <2>2. QED
    BY <2>1, SeqDef
<1>8. DOMAIN claims' = DOMAIN claims /\ Len(told') = Len(claims')
  BY <1>3, <1>4, <1>5, <1>7, LenProperties
<1>9. /\ DOMAIN tx' = Requests
      /\ \A s \in Requests : tx'[s] = IF s = t THEN NULL ELSE tx[s]
  BY <1>1 DEF IInv, OpsTyped
<1>10. ASSUME NEW s \in Requests, tx'[s] # NULL
       PROVE  OpTyped(tx'[s]) /\ DOMAIN tx'[s].rows \subseteq DOMAIN claims'
  <2>1. tx'[s] = tx[s] /\ tx[s] # NULL
    BY <1>9, <1>10
  <2>2. QED
    BY <2>1, <1>8 DEF IInv, TypeOK, OpsTyped
<1>11. OpsTyped'
  BY <1>9, <1>10 DEF OpsTyped
<1>12. TypeOK'
  <2>1. late' \subseteq Requests /\ raced' \subseteq Reports
    BY MarksTyped DEF CommitDecision
  <2>2. QED
    BY <1>2, <1>7, <1>8, <1>10, <2>1 DEF IInv, TypeOK, OpTyped, Claims
<1>13. ToldIsTrue'
  BY <1>4, <1>6, <1>8 DEF ToldIsTrue
<1>14. QED
  BY <1>11, <1>12, <1>13 DEF IInv

\* The other commits leave claims and notifications alone.
LEMMA OthersPreserve ==
  ASSUME IInv, NEW t \in Requests, CommitEdit(t) \/ CommitDelete(t) \/ RollBack(t)
  PROVE  IInv'
<1>1. UNCHANGED <<claims, told>> /\ tx' = [tx EXCEPT ![t] = NULL]
  BY DEF CommitEdit, CommitDelete, RollBack, End
<1>2. DOMAIN reports' \subseteq Reports /\ \A p \in DOMAIN reports' : reports'[p] \in Rows
  <2>1. CASE CommitEdit(t)
    <3>1. tx[t].row \in Rows
      BY <2>1 DEF CommitEdit, IInv, OpsTyped, OpTyped
    <3>2. QED
      BY <2>1, <3>1 DEF CommitEdit, WithRow, IInv, TypeOK
  <2>2. CASE CommitDelete(t)
    BY <2>2 DEF CommitDelete, IInv, TypeOK
  <2>3. CASE RollBack(t)
    BY <2>3 DEF RollBack, IInv, TypeOK
  <2>4. QED
    BY <2>1, <2>2, <2>3
<1>3. /\ DOMAIN tx' = Requests
      /\ \A s \in Requests : tx'[s] = IF s = t THEN NULL ELSE tx[s]
  BY <1>1 DEF IInv, OpsTyped
<1>4. OpsTyped'
  BY <1>1, <1>3 DEF IInv, OpsTyped, OpTyped
<1>5. TypeOK'
  <2>1. late' \subseteq Requests /\ raced' \subseteq Reports
    BY MarksTyped DEF CommitEdit, CommitDelete, RollBack, IInv, TypeOK
  <2>2. QED
    BY <1>1, <1>2, <1>3, <2>1 DEF IInv, TypeOK
<1>6. QED
  BY <1>1, <1>4, <1>5 DEF IInv, ToldIsTrue

\* Every step keeps the inductive invariant.
LEMMA NextPreserves == IInv /\ [Next]_vars => IInv'
<1> SUFFICES ASSUME IInv, [Next]_vars PROVE IInv'
  OBVIOUS
<1>1. CASE UNCHANGED vars
  BY <1>1 DEF vars, IInv, TypeOK, OpsTyped, OpTyped, ToldIsTrue
<1>2. CASE Next
  BY <1>2, ChecksPreserve, CommitClaimPreserves, CommitDecisionPreserves, OthersPreserve
     DEF Next
<1>3. QED
  BY <1>1, <1>2

\* The inductive invariant holds in every reachable state.
THEOREM Invariant == Spec => []IInv
  BY InitEstablishes, NextPreserves, PTL DEF Spec

\* The rows stay well typed, for any number of users, reports and requests.
THEOREM TypeCorrect == Spec => []TypeOK
<1>1. IInv => TypeOK
  BY DEF IInv
<1>2. QED
  BY <1>1, Invariant, PTL

\* However many decisions overlap, the last notification of a claim says what
\* the database says of it.
THEOREM ClaimantsAreToldTheTruth == Spec => []LastWordIsTrue
<1>1. IInv => LastWordIsTrue
  BY DEF IInv, ToldIsTrue, LastWordIsTrue, Alive
<1>2. QED
  BY <1>1, Invariant, PTL

(***************************************************************************)
(* Operations that overlap                                                 *)
(***************************************************************************)
\* What the checks of an operation saw still stands: the report, no active claim
\* of the claimant, an open report with i still to be decided, and so on.
Stands(t) ==
  LET o == tx[t] IN
  /\ Exists(o.report)
  /\ o.op = "claim" => ~\E i \in ClaimsOf(o.report) :
       claims[i].by = o.row /\ claims[i].status \in Active
  /\ o.op \in {"decide", "reject"} => \A i \in DOMAIN o.rows :
       i \in ClaimsOf(o.report) /\ claims[i].status = "SUBMITTED"
  /\ o.op = "decide" =>
       /\ reports[o.report].status = "OPEN" /\ o.row.status = "CLAIMED"
       /\ \A i, j \in DOMAIN o.rows : o.rows[i] = "APPROVED" /\ o.rows[j] = "APPROVED" => i = j
  /\ o.op = "reject" => \A i \in DOMAIN o.rows : o.rows[i] = "REJECTED"
  /\ o.op = "edit" /\ reports[o.report].status = "CLAIMED" => o.row.status = "CLAIMED"

\* A decision writes to claims on its own report.
OwnRows ==
  \A t \in Requests : tx[t] # NULL /\ tx[t].op \in {"decide", "reject"} =>
    \A i \in DOMAIN tx[t].rows : i \in ClaimsOf(tx[t].report)

\* OneActiveClaim, of one report.
ActiveOnce(p) ==
  \A i, j \in ClaimsOf(p) :
    /\ claims[i].by = claims[j].by
    /\ {claims[i].status, claims[j].status} \subseteq Active
    => i = j

\* Until another operation is committed on its report, what an operation has
\* checked stands; and a report is sound until one is committed all the same.
RaceInv ==
  /\ OwnRows
  /\ \A t \in Requests : tx[t] # NULL /\ t \notin late => Stands(t)
  /\ \A p \in DOMAIN reports \ raced : ClaimedOnce(p) /\ ActiveOnce(p)

Checks(t) ==
  \/ \E p \in Reports :
       \/ \E u \in Users : CreateClaim(t, p, u)
       \/ EditReport(t, p) \/ CloseReport(t, p) \/ DeleteReport(t, p)
       \/ Delist(t, p) \/ Restore(t, p)
  \/ \E i \in DOMAIN claims : ApproveClaim(t, i) \/ RejectClaim(t, i)

Commits(t) == CommitClaim(t) \/ CommitDecision(t) \/ CommitEdit(t) \/ CommitDelete(t)

\* The checks of an operation establish what it relies on.
LEMMA ChecksStand ==
  ASSUME IInv, NEW t \in Requests, Checks(t)
  PROVE  Stands(t)'
<1>1. \A i \in DOMAIN claims : claims[i] \in Claims
  BY ClaimTyped
<1>2. \A o : Begin(t, o) => tx'[t] = o /\ UNCHANGED <<reports, claims>>
  BY DEF Begin, IInv, OpsTyped
<1>3. \A p \in Reports : Exists(p) => reports[p] \in Rows
  BY DEF IInv, TypeOK, Exists
<1>4. ASSUME NEW p \in Reports, NEW u \in Users, CreateClaim(t, p, u)
      PROVE  Stands(t)'
  <2>1. /\ tx'[t] = Op("claim", p, u, NoDecision)
        /\ UNCHANGED <<reports, claims>>
    BY <1>2, <1>4 DEF CreateClaim
  <2>2. QED
    BY <1>4, <2>1 DEF CreateClaim, Stands, Exists, Op, NoDecision, ClaimsOf
<1>5. ASSUME NEW p \in Reports, NEW row \in Rows, Begin(t, Op("edit", p, row, NoDecision)),
             Exists(p), reports[p].status = "CLAIMED" => row.status = "CLAIMED"
      PROVE  Stands(t)'
  <2>1. /\ tx'[t] = Op("edit", p, row, NoDecision)
        /\ UNCHANGED <<reports, claims>>
    BY <1>2, <1>5
  <2>2. QED
    BY <1>5, <2>1 DEF Stands, Exists, Op, ClaimsOf
<1>6. ASSUME NEW p \in Reports,
             EditReport(t, p) \/ CloseReport(t, p) \/ Delist(t, p) \/ Restore(t, p)
      PROVE  Stands(t)'
  <2>1. Exists(p) /\ reports[p] \in Rows
    BY <1>3, <1>6 DEF EditReport, CloseReport, Delist, Restore
  <2>2. /\ [reports[p] EXCEPT !.status = "CLOSED"] \in Rows
        /\ \A b \in BOOLEAN : /\ [reports[p] EXCEPT !.hidden = b] \in Rows
                              /\ [reports[p] EXCEPT !.hidden = b].status = reports[p].status
    BY <2>1 DEF Rows, ReportStatus
  <2>3. CASE EditReport(t, p) \/ CloseReport(t, p)
    BY <1>5, <2>1, <2>2, <2>3 DEF EditReport, CloseReport
  <2>4. CASE Delist(t, p) \/ Restore(t, p)
    BY <1>5, <2>1, <2>2, <2>4 DEF Delist, Restore
  <2>5. QED
    BY <1>6, <2>3, <2>4
<1>7. ASSUME NEW p \in Reports, DeleteReport(t, p)
      PROVE  Stands(t)'
  <2>1. /\ tx'[t] = Op("delete", p, NULL, [i \in ClaimsOf(p) |-> claims[i].status])
        /\ UNCHANGED <<reports, claims>>
    BY <1>2, <1>7 DEF DeleteReport
  <2>2. QED
    BY <1>7, <2>1 DEF Stands, Exists, Op, ClaimsOf, DeleteReport
<1>8. ASSUME NEW i \in DOMAIN claims, ApproveClaim(t, i)
      PROVE  Stands(t)'
  <2> DEFINE p == claims[i].report
             others == {j \in ClaimsOf(p) : claims[j].status = "SUBMITTED"}
             rows == [j \in others |-> IF j = i THEN "APPROVED" ELSE "REJECTED"]
             row == [reports[p] EXCEPT !.status = "CLAIMED"]
  <2>1. Exists(p) /\ reports[p] \in Rows /\ reports[p].status = "OPEN"
    BY <1>8 DEF ApproveClaim, Alive, Exists, IInv, TypeOK
  <2>2. row.status = "CLAIMED"
    BY <2>1 DEF Rows
  <2>3. /\ \A j \in DOMAIN rows : j \in ClaimsOf(p) /\ claims[j].status = "SUBMITTED"
        /\ \A j \in DOMAIN rows : rows[j] = "APPROVED" => j = i
    OBVIOUS
  <2>4. /\ tx'[t] = Op("decide", p, row, rows)
        /\ UNCHANGED <<reports, claims>>
    BY <1>2, <1>8 DEF ApproveClaim
  <2> HIDE DEF p, row, rows
  <2>5. QED
    BY <2>1, <2>2, <2>3, <2>4 DEF Stands, Exists, Op, ClaimsOf
<1>9. ASSUME NEW i \in DOMAIN claims, RejectClaim(t, i)
      PROVE  Stands(t)'
  <2>1. /\ tx'[t] = Op("reject", claims[i].report, NULL, [j \in {i} |-> "REJECTED"])
        /\ UNCHANGED <<reports, claims>>
    BY <1>2, <1>9 DEF RejectClaim
  <2>2. QED
    BY <1>9, <2>1 DEF Stands, Exists, Op, ClaimsOf, RejectClaim, Alive
<1>10. QED
  BY <1>4, <1>6, <1>7, <1>8, <1>9 DEF Checks

\* Only the claims that were still to be decided change, and only by a decision.
LEMMA DecisionsAreFinal ==
  ASSUME IInv, NEW t \in Requests, Stands(t), CommitDecision(t)
  PROVE  /\ DOMAIN claims' = DOMAIN claims
         /\ \A i \in DOMAIN claims :
              /\ claims'[i].report = claims[i].report /\ claims'[i].by = claims[i].by
              /\ claims[i].status # "SUBMITTED" => claims'[i].status = claims[i].status
              /\ claims'[i].status # claims[i].status =>
                   /\ i \in DOMAIN tx[t].rows /\ claims'[i].status = tx[t].rows[i]
                   /\ i \in ClaimsOf(tx[t].report)
<1> DEFINE rows == tx[t].rows
<1>1. claims' = Decided(rows)
  BY DEF CommitDecision
<1>2. \A i \in DOMAIN rows : i \in ClaimsOf(tx[t].report) /\ claims[i].status = "SUBMITTED"
  BY DEF Stands, CommitDecision
<1> HIDE DEF rows
<1>3. ASSUME NEW i \in DOMAIN claims, i \in DOMAIN rows
      PROVE  claims'[i] = [claims[i] EXCEPT !.status = rows[i]]
  BY <1>1, <1>3 DEF Decided
<1>4. ASSUME NEW i \in DOMAIN claims, i \notin DOMAIN rows
      PROVE  claims'[i] = claims[i]
  BY <1>1, <1>4 DEF Decided
<1>5. ASSUME NEW i \in DOMAIN claims, i \in DOMAIN rows
      PROVE  /\ claims'[i].report = claims[i].report /\ claims'[i].by = claims[i].by
             /\ claims'[i].status = rows[i]
  <2>1. claims[i] \in Claims
    BY ClaimTyped
  <2>2. QED
    BY <1>3, <1>5, <2>1 DEF Claims
<1>6. DOMAIN claims' = DOMAIN claims
  BY <1>1 DEF Decided
<1>7. ASSUME NEW i \in DOMAIN claims
      PROVE  /\ claims'[i].report = claims[i].report /\ claims'[i].by = claims[i].by
             /\ claims[i].status # "SUBMITTED" => claims'[i].status = claims[i].status
             /\ claims'[i].status # claims[i].status =>
                  /\ i \in DOMAIN rows /\ claims'[i].status = rows[i]
                  /\ i \in ClaimsOf(tx[t].report)
  <2>1. CASE i \in DOMAIN rows
    BY <1>2, <1>5, <2>1
  <2>2. CASE i \notin DOMAIN rows
    BY <1>4, <2>2
  <2>3. QED
    BY <2>1, <2>2
<1>8. QED
  BY <1>6, <1>7 DEF rows

\* The decision of an open report leaves it claimed, with the one approved claim.
LEMMA DecisionPreserves ==
  ASSUME IInv, NEW t \in Requests, CommitDecision(t), Stands(t),
         NEW p \in DOMAIN reports, p = tx[t].report, ClaimedOnce(p), ActiveOnce(p)
  PROVE  ClaimedOnce(p)' /\ ActiveOnce(p)'
<1> DEFINE o == tx[t]
<1>1. /\ o.op \in {"decide", "reject"} /\ o.report = p
      /\ reports' = IF o.op = "decide" THEN WithRow(p, o.row) ELSE reports
  BY DEF CommitDecision
<1>2. /\ DOMAIN claims' = DOMAIN claims
      /\ \A i \in DOMAIN claims :
           /\ claims'[i].report = claims[i].report /\ claims'[i].by = claims[i].by
           /\ claims[i].status # "SUBMITTED" => claims'[i].status = claims[i].status
           /\ claims'[i].status # claims[i].status =>
                /\ i \in DOMAIN o.rows /\ claims'[i].status = o.rows[i]
                /\ i \in ClaimsOf(o.report)
  BY DecisionsAreFinal
<1>3. ClaimsOf(p)' = ClaimsOf(p) /\ \A i \in ClaimsOf(p) : i \in DOMAIN claims
  BY <1>2 DEF ClaimsOf
<1>4. \A i \in DOMAIN claims : claims'[i].status \in Active => claims[i].status \in Active
  <2>1. \A i \in DOMAIN claims : claims[i].status \in ClaimStatus
    BY ClaimTyped DEF Claims
  <2>2. QED
    BY <1>2, <2>1 DEF Active, ClaimStatus
<1>5. ActiveOnce(p)'
  BY <1>2, <1>3, <1>4 DEF ActiveOnce
<1>6. CASE o.op = "reject"
  <2>1. \A i \in DOMAIN claims : claims'[i].status = "APPROVED" => claims[i].status = "APPROVED"
    BY <1>2, <1>6 DEF Stands
  <2>2. reports' = reports
    BY <1>1, <1>6
  <2>3. ClaimedOnce(p)'
    BY <1>3, <2>1, <2>2 DEF ClaimedOnce
  <2>4. QED
    BY <1>5, <2>3
<1>7. CASE o.op = "decide"
  <2>1. /\ reports[p].status = "OPEN" /\ o.row.status = "CLAIMED"
        /\ \A i, j \in DOMAIN o.rows : o.rows[i] = "APPROVED" /\ o.rows[j] = "APPROVED" => i = j
    BY <1>1, <1>7 DEF Stands
  <2>2. reports'[p] = o.row
    BY <1>1, <1>7 DEF WithRow
  <2>3. \A i \in ClaimsOf(p) : claims[i].status # "APPROVED"
    BY <2>1 DEF ClaimedOnce
  <2> HIDE DEF o
  <2>4. \A i \in ClaimsOf(p) : claims'[i].status = "APPROVED" =>
          i \in DOMAIN o.rows /\ o.rows[i] = "APPROVED"
    BY <1>2, <1>3, <2>3
  <2>5. ClaimedOnce(p)'
    BY <1>3, <2>1, <2>2, <2>4 DEF ClaimedOnce
  <2>6. QED
    BY <1>5, <2>5
<1>8. QED
  BY <1>1, <1>6, <1>7

\* A claim that was not a duplicate when it was checked is none when it is made.
LEMMA ClaimPreserves ==
  ASSUME IInv, NEW t \in Requests, CommitClaim(t), Stands(t),
         NEW p \in DOMAIN reports, p = tx[t].report, ClaimedOnce(p), ActiveOnce(p)
  PROVE  ClaimedOnce(p)' /\ ActiveOnce(p)'
<1> DEFINE o == tx[t]
           c == [report |-> o.report, by |-> o.row, status |-> "SUBMITTED"]
<1>1. /\ claims' = Append(claims, c) /\ reports' = reports /\ o.report = p
      /\ \A i \in ClaimsOf(p) : claims[i].by = o.row => claims[i].status \notin Active
  BY DEF Stands, CommitClaim
<1>2. c.report = o.report /\ c.by = o.row /\ c.status = "SUBMITTED"
  OBVIOUS
<1> HIDE DEF o, c
<1>3. PICK n \in Nat : n = Len(claims)
  BY LenProperties DEF IInv, TypeOK
<1>4. /\ DOMAIN claims = 1..n /\ DOMAIN claims' = 1..(n + 1) /\ claims'[n + 1] = c
      /\ \A i \in 1..n : claims'[i] = claims[i]
  <2>1. claims \in Seq(Claims)
    BY DEF IInv, TypeOK, Claims
  <2>2. QED
    BY <1>1, <1>3, <2>1
<1>5. /\ ClaimsOf(p)' = ClaimsOf(p) \cup {n + 1} /\ n + 1 \notin ClaimsOf(p)
      /\ \A i \in ClaimsOf(p) : claims'[i] = claims[i]
  BY <1>1, <1>2, <1>4 DEF ClaimsOf
<1>6. ClaimedOnce(p)'
  BY <1>1, <1>2, <1>4, <1>5 DEF ClaimedOnce
<1>7. ActiveOnce(p)'
  <2>1. \A i \in ClaimsOf(p) : claims'[i].by = c.by => claims'[i].status \notin Active
    BY <1>1, <1>2, <1>5
  <2>2. \A i, j \in ClaimsOf(p) :
          claims'[i].by = claims'[j].by /\ {claims'[i].status, claims'[j].status} \subseteq Active
            => i = j
    BY <1>5 DEF ActiveOnce
  <2>3. QED
    BY <1>4, <1>5, <2>1, <2>2 DEF ActiveOnce
<1>8. QED
  BY <1>6, <1>7

\* An edit keeps CLAIMED what it read as CLAIMED.
LEMMA EditPreserves ==
  ASSUME NEW t \in Requests, CommitEdit(t), Stands(t),
         NEW p \in DOMAIN reports, p = tx[t].report, ClaimedOnce(p), ActiveOnce(p)
  PROVE  ClaimedOnce(p)' /\ ActiveOnce(p)'
<1>1. /\ claims' = claims /\ reports'[p] = tx[t].row
      /\ reports[p].status = "CLAIMED" => reports'[p].status = "CLAIMED"
  BY DEF CommitEdit, WithRow, Stands
<1>2. QED
  BY <1>1 DEF ClaimedOnce, ActiveOnce, ClaimsOf

\* A commit changes its own report and the claims on it, and nothing else.
LEMMA Elsewhere ==
  ASSUME IInv, OwnRows, NEW t \in Requests, Commits(t),
         NEW p, p # tx[t].report
  PROVE  /\ p \in DOMAIN reports' <=> p \in DOMAIN reports
         /\ p \in DOMAIN reports => reports'[p] = reports[p]
         /\ ClaimsOf(p)' = ClaimsOf(p) /\ \A i \in ClaimsOf(p) : claims'[i] = claims[i]
<1>1. CASE CommitClaim(t)
  <2> DEFINE c == [report |-> tx[t].report, by |-> tx[t].row, status |-> "SUBMITTED"]
  <2>1. claims' = Append(claims, c) /\ reports' = reports
    BY <1>1 DEF CommitClaim
  <2>2. c.report # p
    OBVIOUS
  <2> HIDE DEF c
  <2>3. PICK n \in Nat : n = Len(claims)
    BY LenProperties DEF IInv, TypeOK
  <2>4. /\ DOMAIN claims = 1..n /\ DOMAIN claims' = 1..(n + 1) /\ claims'[n + 1] = c
        /\ \A i \in 1..n : claims'[i] = claims[i]
    <3>1. claims \in Seq(Claims)
      BY DEF IInv, TypeOK, Claims
    <3>2. QED
      BY <2>1, <2>3, <3>1
  <2>5. QED
    BY <2>1, <2>2, <2>4 DEF ClaimsOf
<1>2. CASE CommitDecision(t)
  <2> DEFINE rows == tx[t].rows
  <2>1. /\ claims' = Decided(rows)
        /\ reports' = IF tx[t].op = "decide" THEN WithRow(tx[t].report, tx[t].row) ELSE reports
        /\ \A i \in DOMAIN rows : i \in ClaimsOf(tx[t].report)
    BY <1>2 DEF CommitDecision, OwnRows
  <2>2. DOMAIN reports' = DOMAIN reports /\ (p \in DOMAIN reports => reports'[p] = reports[p])
    BY <2>1 DEF WithRow
  <2> HIDE DEF rows
  <2>3. /\ DOMAIN claims' = DOMAIN claims
        /\ \A i \in DOMAIN claims : i \notin DOMAIN rows => claims'[i] = claims[i]
    BY <2>1 DEF Decided
  <2>4. ASSUME NEW i \in DOMAIN rows
        PROVE  claims[i].report # p /\ claims'[i].report # p
    <3>1. i \in DOMAIN claims /\ claims[i].report = tx[t].report /\ claims[i] \in Claims
      BY <2>1, ClaimTyped DEF ClaimsOf
    <3>2. claims'[i] = [claims[i] EXCEPT !.status = rows[i]]
      BY <2>1, <3>1 DEF Decided
    <3>3. QED
      BY <3>1, <3>2 DEF Claims
  <2>5. QED
    BY <2>2, <2>3, <2>4 DEF ClaimsOf
<1>3. CASE CommitEdit(t)
  BY <1>3 DEF CommitEdit, WithRow, ClaimsOf
<1>4. CASE CommitDelete(t)
  BY <1>4 DEF CommitDelete, ClaimsOf
<1>5. QED
  BY <1>1, <1>2, <1>3, <1>4 DEF Commits

\* Claims keep their report, whatever is committed.
LEMMA ClaimsStay ==
  ASSUME IInv, NEW t \in Requests, Commits(t), NEW i \in DOMAIN claims
  PROVE  i \in DOMAIN claims' /\ claims'[i].report = claims[i].report
<1>1. CASE CommitClaim(t)
  <2>1. claims \in Seq(Claims)
    BY DEF IInv, TypeOK, Claims
  <2>2. QED
    BY <1>1, <2>1 DEF CommitClaim
<1>2. CASE CommitDecision(t)
  <2>1. claims' = Decided(tx[t].rows) /\ claims[i] \in Claims
    BY <1>2, ClaimTyped DEF CommitDecision
  <2>2. QED
    BY <2>1 DEF Decided, Claims
<1>3. CASE CommitEdit(t) \/ CommitDelete(t)
  BY <1>3 DEF CommitEdit, CommitDelete
<1>4. QED
  BY <1>1, <1>2, <1>3 DEF Commits

\* A commit overtakes the others on its report, and marks it if it was overtaken.
LEMMA CommitMarks ==
  ASSUME IInv, NEW t \in Requests, Commits(t)
  PROVE  /\ tx[t] # NULL /\ Exists(tx[t].report)
         /\ \A s \in Requests : tx'[s] = IF s = t THEN NULL ELSE tx[s]
         /\ \A s \in Requests : tx'[s] # NULL /\ s \notin late' =>
              s # t /\ tx[s] # NULL /\ s \notin late /\ tx[s].report # tx[t].report
         /\ \A p \in Reports : p \notin raced' => p \notin raced /\ (p = tx[t].report => t \notin late)
<1>1. tx[t] # NULL /\ Exists(tx[t].report) /\ End(t)
  BY DEF Commits, CommitClaim, CommitDecision, CommitEdit, CommitDelete
<1>2. DOMAIN tx = Requests
  BY DEF IInv, OpsTyped
<1>3. \A s \in Requests : tx'[s] = IF s = t THEN NULL ELSE tx[s]
  BY <1>1, <1>2 DEF End
<1>4. \A s \in Requests : tx'[s] # NULL /\ s \notin late' =>
        s # t /\ tx[s] # NULL /\ s \notin late /\ tx[s].report # tx[t].report
  BY <1>1, <1>3 DEF End
<1>5. \A p \in Reports : p \notin raced' => p \notin raced /\ (p = tx[t].report => t \notin late)
  BY <1>1 DEF End
<1>6. QED
  BY <1>1, <1>3, <1>4, <1>5

\* What others have checked stands after a commit on another report, and a report
\* stays sound unless the commit is that of an operation overtaken there.
LEMMA CommitKeepsRaceInv ==
  ASSUME IInv, RaceInv, NEW t \in Requests, Commits(t)
  PROVE  RaceInv'
<1>1. /\ tx[t] # NULL /\ Exists(tx[t].report)
      /\ \A s \in Requests : tx'[s] = IF s = t THEN NULL ELSE tx[s]
      /\ \A s \in Requests : tx'[s] # NULL /\ s \notin late' =>
           s # t /\ tx[s] # NULL /\ s \notin late /\ tx[s].report # tx[t].report
      /\ \A p \in Reports : p \notin raced' => p \notin raced /\ (p = tx[t].report => t \notin late)
  BY CommitMarks
<1>2. OwnRows'
  <2>1. ASSUME NEW s \in Requests, tx'[s] # NULL, tx'[s].op \in {"decide", "reject"},
               NEW i \in DOMAIN tx'[s].rows
        PROVE  i \in ClaimsOf(tx[s].report)' /\ tx'[s] = tx[s]
    <3>1. tx'[s] = tx[s] /\ i \in ClaimsOf(tx[s].report)
      BY <1>1, <2>1 DEF RaceInv, OwnRows
    <3>2. i \in DOMAIN claims /\ claims[i].report = tx[s].report
      BY <3>1 DEF ClaimsOf
    <3>3. i \in DOMAIN claims' /\ claims'[i].report = claims[i].report
      BY <3>2, ClaimsStay
    <3>4. QED
      BY <1>1, <2>1, <3>1, <3>2, <3>3 DEF ClaimsOf
  <2>2. QED
    BY <2>1 DEF OwnRows, ClaimsOf
<1>3. ASSUME NEW s \in Requests, tx'[s] # NULL, s \notin late'
      PROVE  Stands(s)'
  <2>1. PICK p \in Reports : p = tx[s].report
    BY <1>1, <1>3 DEF IInv, OpsTyped, OpTyped
  <2>2. tx'[s] = tx[s] /\ Stands(s) /\ p # tx[t].report
    BY <1>1, <1>3, <2>1 DEF RaceInv
  <2>3. p \in DOMAIN reports
    BY <2>1, <2>2 DEF Stands, Exists
  <2>4. /\ p \in DOMAIN reports' /\ reports'[p] = reports[p]
        /\ ClaimsOf(p)' = ClaimsOf(p) /\ \A i \in ClaimsOf(p) : claims'[i] = claims[i]
    BY <2>2, <2>3, Elsewhere DEF RaceInv
  <2>5. \A C : C = ClaimsOf(p) => C = ClaimsOf(tx[s].report)
    BY <2>1
  <2>6. ClaimsOf(tx[s].report)' = ClaimsOf(p) /\ ClaimsOf(tx[s].report) = ClaimsOf(p)
    BY <2>1, <2>2, <2>4 DEF ClaimsOf
  <2>7. QED
    BY <2>1, <2>2, <2>3, <2>4, <2>6 DEF Stands, Exists
<1>4. ASSUME NEW p \in DOMAIN reports', p \notin raced'
      PROVE  ClaimedOnce(p)' /\ ActiveOnce(p)'
  <2>1. CASE p # tx[t].report
    <3>1. /\ p \in DOMAIN reports /\ reports'[p] = reports[p]
          /\ ClaimsOf(p)' = ClaimsOf(p) /\ \A i \in ClaimsOf(p) : claims'[i] = claims[i]
      BY <1>4, <2>1, Elsewhere DEF RaceInv
    <3>2. p \notin raced
      BY <1>1, <1>4, <3>1 DEF IInv, TypeOK
    <3>3. ClaimedOnce(p) /\ ActiveOnce(p)
      BY <3>1, <3>2 DEF RaceInv
    <3>4. QED
      BY <3>1, <3>3 DEF ClaimedOnce, ActiveOnce
  <2>2. CASE p = tx[t].report
    <3>1. p \in DOMAIN reports /\ p \in Reports
      BY <1>1, <2>2 DEF Exists, IInv, TypeOK
    <3>2. Stands(t) /\ ClaimedOnce(p) /\ ActiveOnce(p)
      BY <1>1, <1>4, <2>2, <3>1 DEF RaceInv
    <3>3. ~CommitDelete(t)
      BY <1>4, <2>2 DEF CommitDelete
    <3>4. QED
      BY <2>2, <3>1, <3>2, <3>3, ClaimPreserves, DecisionPreserves, EditPreserves DEF Commits
  <2>3. QED
    BY <2>1, <2>2
<1>5. QED
  BY <1>2, <1>3, <1>4 DEF RaceInv

\* Checks and rollbacks touch neither reports nor claims.
LEMMA ChecksKeepRaceInv ==
  ASSUME IInv, RaceInv, NEW t \in Requests, Checks(t) \/ RollBack(t)
  PROVE  RaceInv'
<1>1. /\ UNCHANGED <<reports, claims, raced>>
      /\ \A s \in Requests : s # t => tx'[s] = tx[s] /\ (s \notin late' => s \notin late)
  BY DEF Checks, CreateClaim, EditReport, CloseReport, DeleteReport, Delist, Restore,
         ApproveClaim, RejectClaim, Begin, RollBack, IInv, OpsTyped
<1>2. tx'[t] # NULL => Stands(t)'
  <2>1. CASE Checks(t)
    BY <2>1, ChecksStand
  <2>2. CASE RollBack(t)
    BY <2>2 DEF RollBack, IInv, OpsTyped
  <2>3. QED
    BY <2>1, <2>2
<1>3. ASSUME NEW s \in Requests, s # t, tx'[s] # NULL, s \notin late'
      PROVE  Stands(s)'
  <2>1. Stands(s) /\ tx'[s] = tx[s]
    BY <1>1, <1>3 DEF RaceInv
  <2>2. QED
    BY <1>1, <2>1 DEF Stands, Exists, ClaimsOf
<1>4. OwnRows'
  <2>1. ASSUME NEW s \in Requests, tx'[s] # NULL, tx'[s].op \in {"decide", "reject"},
               NEW i \in DOMAIN tx'[s].rows
        PROVE  i \in DOMAIN claims' /\ claims'[i].report = tx'[s].report
    <3>1. CASE s = t
      BY <1>2, <2>1, <3>1 DEF Stands, ClaimsOf
    <3>2. CASE s # t
      BY <1>1, <2>1, <3>2 DEF RaceInv, OwnRows, ClaimsOf
    <3>3. QED
      BY <3>1, <3>2
  <2>2. QED
    BY <2>1 DEF OwnRows, ClaimsOf
<1>5. \A p \in DOMAIN reports' \ raced' : ClaimedOnce(p)' /\ ActiveOnce(p)'
  BY <1>1 DEF RaceInv, ClaimedOnce, ActiveOnce, ClaimsOf
<1>6. QED
  BY <1>2, <1>3, <1>4, <1>5 DEF RaceInv

LEMMA RaceInvPreserved == IInv /\ RaceInv /\ [Next]_vars => RaceInv'
<1> SUFFICES ASSUME IInv, RaceInv, [Next]_vars PROVE RaceInv'
  OBVIOUS
<1>1. CASE UNCHANGED vars
  BY <1>1 DEF vars, RaceInv, OwnRows, Stands, ClaimedOnce, ActiveOnce, Exists, ClaimsOf
<1>2. CASE Next
  <2>1. PICK t \in Requests : Checks(t) \/ Commits(t) \/ RollBack(t)
    BY <1>2 DEF Next, Checks, Commits
  <2>2. QED
    BY <2>1, CommitKeepsRaceInv, ChecksKeepRaceInv
<1>3. QED
  BY <1>1, <1>2

\* A claim that was decided is not touched again but by an operation that was
\* overtaken on its report.
LEMMA DecisionKept ==
  ASSUME IInv, RaceInv, [Next]_vars, NEW i \in DOMAIN claims,
         claims[i].status # "SUBMITTED", claims[i].report \notin raced'
  PROVE  claims'[i].status = claims[i].status
<1>1. ASSUME NEW t \in Requests, CommitClaim(t)
      PROVE  claims'[i].status = claims[i].status
  <2>1. claims \in Seq(Claims)
    BY DEF IInv, TypeOK, Claims
  <2>2. QED
    BY <1>1, <2>1 DEF CommitClaim
<1>2. ASSUME NEW t \in Requests, CommitDecision(t)
      PROVE  claims'[i].status = claims[i].status
  <2>1. PICK p \in Reports : p = claims[i].report
    BY ClaimTyped DEF Claims
  <2>2. CASE p = tx[t].report
    <3>1. Commits(t)
      BY <1>2 DEF Commits
    <3>2. t \notin late /\ tx[t] # NULL
      BY <2>1, <2>2, <3>1, CommitMarks
    <3>3. Stands(t)
      BY <3>2 DEF RaceInv
    <3>4. QED
      BY <1>2, <3>3, DecisionsAreFinal
  <2>3. CASE p # tx[t].report
    <3>1. Commits(t) /\ i \in ClaimsOf(p)
      BY <1>2, <2>1 DEF Commits, ClaimsOf
    <3>2. claims'[i] = claims[i]
      BY <2>3, <3>1, Elsewhere DEF RaceInv
    <3>3. QED
      BY <3>2
  <2>4. QED
    BY <2>2, <2>3
<1>3. QED
  BY <1>1, <1>2 DEF Next, CreateClaim, EditReport, CloseReport, DeleteReport, Delist, Restore,
       ApproveClaim, RejectClaim, Begin, CommitEdit, CommitDelete, RollBack, vars

\* The invariant, from the initial state on.
LEMMA Races == Spec => []RaceInv
<1>1. Init => RaceInv
  BY DEF Init, RaceInv, OwnRows, ClaimedOnce, ActiveOnce, ClaimsOf
<1>2. QED
  BY <1>1, RaceInvPreserved, Invariant, PTL DEF Spec

\* For any number of users, reports and overlapping operations: where no
\* operation that had been overtaken was committed, a report with an approved
\* claim is claimed, by that claim alone.
THEOREM ApprovedAreClaimed == Spec => []ClaimedUnlessOvertaken
<1>1. RaceInv => ClaimedUnlessOvertaken
  BY DEF RaceInv, ClaimedUnlessOvertaken
<1>2. QED
  BY <1>1, Races, PTL

\* There, a user has one active claim on a report.
THEOREM ClaimsAreSingle == Spec => []OneActiveClaim
<1>1. RaceInv => OneActiveClaim
  BY DEF RaceInv, OneActiveClaim, ActiveOnce
<1>2. QED
  BY <1>1, Races, PTL

\* There, a decision on a claim is final.
THEOREM DecisionsHold == Spec => DecisionFinal
<1>1. IInv /\ RaceInv /\ [Next]_vars =>
        [\A i \in DOMAIN claims :
           claims[i].status # "SUBMITTED" /\ claims[i].report \notin raced' =>
             claims'[i].status = claims[i].status]_vars
  BY DecisionKept
<1>2. QED
  BY <1>1, Races, Invariant, PTL DEF Spec, DecisionFinal

(***************************************************************************)
(* A conversation with the agent                                           *)
(***************************************************************************)

\* The parts of a message or of a guess, as parts of the context.
PartValues == [by: 0..MaxTurns, ok: BOOLEAN]

\* What the context c of an answer to m holds, read with guess: every part was
\* told or guessed no earlier than the user last told it well, what he tells well
\* now is there, and the intent is the user's.
Reads(m, guess, c) ==
  /\ c.parts \in [Parts -> PartValues] /\ c.parts["report"].ok
  /\ \A p \in ToldWell(m, guess) : c.parts[p].by = turns /\ c.parts[p].ok
  /\ \A p \in Parts : c.parts[p].by = 0 \/ c.parts[p].by = turns \/ c.parts[p].by >= heard[p]
  /\ m.intent # NULL => c.intent = m.intent
  /\ m.intent = NULL /\ ctx.intent # NULL => c.intent = ctx.intent

\* Parts that are read are told this turn.
LEMMA FieldsType ==
  ASSUME DeskInv, NEW news, DOMAIN news \subseteq Parts,
         \A p \in DOMAIN news : news[p] \in PartValues /\ news[p].by = turns,
         "report" \in DOMAIN news => news["report"].ok,
         NEW parts \in [Parts -> PartValues], parts["report"].ok
  PROVE  /\ Updated(parts, news) \in [Parts -> PartValues] /\ Updated(parts, news)["report"].ok
         /\ \A p \in Parts : Updated(parts, news)[p] = IF p \in DOMAIN news THEN news[p] ELSE parts[p]
<1>1. "report" \in Parts
  BY DEF Parts
<1>2. \A p \in Parts : Updated(parts, news)[p] = IF p \in DOMAIN news THEN news[p] ELSE parts[p]
  BY DEF Updated
<1>3. Updated(parts, news) \in [Parts -> PartValues]
  BY DEF Updated
<1>4. QED
  BY <1>1, <1>2, <1>3

\* handle: the rules read the message, the model may add to it.
LEMMA MergedReads ==
  ASSUME DeskInv, NEW m \in topic.messages, NEW guess \in topic.guesses \cup {NULL}
  PROVE  Reads(m, guess, Merged(ctx, m, guess))
<1> DEFINE c == Merged(ctx, m, guess)
           told1 == ExtractFields(m, IntentOf(ctx, m, guess))
           read == InterpretedFields(guess)
           parts1 == Updated(ctx.parts, told1)
<1>1. /\ ctx.parts \in [Parts -> PartValues] /\ ctx.parts["report"].ok
      /\ turns \in 0..MaxTurns /\ topic \in Topics
      /\ \A p \in Parts : ctx.parts[p].by = 0 \/ ctx.parts[p].by >= heard[p]
      /\ \A p \in Parts : heard[p] \in 0..MaxTurns /\ heard[p] <= turns
  BY DEF DeskInv, DeskTypes, Latest, PartValues
<1>2. GoodParts(m.parts) /\ (guess # NULL => GoodParts(guess.parts))
  BY <1>1, TopicsAssumption
<1>3. c.parts = Updated(parts1, read) /\ c.intent = IntentOf(ctx, m, guess)
  BY DEF Merged
<1>4. /\ DOMAIN told1 \subseteq Parts /\ DOMAIN m.parts \subseteq DOMAIN told1
      /\ \A p \in DOMAIN told1 : told1[p] \in PartValues /\ told1[p].by = turns
      /\ "report" \in DOMAIN told1 => told1["report"].ok
  <2> DEFINE D == DOMAIN m.parts \cup
                    (IF /\ IntentOf(ctx, m, guess) \in {"report_lost", "report_found"} /\ m.long
                        /\ "item" \notin DOMAIN m.parts
                     THEN {"description"} ELSE {})
             Good(p) == IF p \in DOMAIN m.parts THEN m.parts[p] ELSE TRUE
  <2>1. told1 = [p \in D |-> [by |-> turns, ok |-> Good(p)]]
    BY DEF ExtractFields
  <2>2. D \subseteq Parts /\ DOMAIN m.parts \subseteq D /\ ("report" \in D => "report" \in DOMAIN m.parts)
    BY <1>2 DEF GoodParts, Parts
  <2> HIDE DEF D
  <2>3. \A p \in D : Good(p) \in BOOLEAN
    BY <1>2 DEF GoodParts
  <2>4. "report" \in D => Good("report") = TRUE
    BY <1>2, <2>2 DEF GoodParts
  <2> HIDE DEF Good
  <2>5. ASSUME NEW p \in D
        PROVE  told1[p] \in PartValues /\ told1[p].by = turns
    <3>1. told1[p] = [by |-> turns, ok |-> Good(p)]
      BY <2>1
    <3>2. QED
      BY <1>1, <2>3, <3>1 DEF PartValues
  <2>6. "report" \in D => told1["report"].ok
    BY <2>1, <2>4
  <2>7. QED
    BY <2>1, <2>2, <2>5, <2>6
<1>5. /\ DOMAIN read \subseteq Parts
      /\ \A p \in DOMAIN read : read[p] \in PartValues /\ read[p].by = turns
      /\ "report" \in DOMAIN read => read["report"].ok
  <2>1. CASE guess = NULL
    BY <2>1 DEF InterpretedFields
  <2>2. CASE guess # NULL
    <3>1. read = [p \in DOMAIN guess.parts |-> [by |-> turns, ok |-> guess.parts[p]]]
      BY <2>2 DEF InterpretedFields
    <3>2. GoodParts(guess.parts)
      BY <1>2, <2>2
    <3>3. QED
      BY <1>1, <3>1, <3>2 DEF GoodParts, PartValues
  <2>3. QED
    BY <2>1, <2>2
<1> HIDE DEF told1, read, c
<1>6. /\ parts1 \in [Parts -> PartValues] /\ parts1["report"].ok
      /\ \A p \in Parts : parts1[p] = IF p \in DOMAIN told1 THEN told1[p] ELSE ctx.parts[p]
  BY <1>1, <1>4, FieldsType
<1> HIDE DEF parts1
<1>7. /\ c.parts \in [Parts -> PartValues] /\ c.parts["report"].ok
      /\ \A p \in Parts : c.parts[p] = IF p \in DOMAIN read THEN read[p] ELSE parts1[p]
  BY <1>3, <1>5, <1>6, FieldsType
<1>8. ASSUME NEW p \in Parts
      PROVE  c.parts[p].by = 0 \/ c.parts[p].by = turns \/ c.parts[p].by >= heard[p]
  BY <1>1, <1>4, <1>5, <1>6, <1>7
<1>11. ASSUME NEW p \in ToldWell(m, guess)
       PROVE  c.parts[p].by = turns /\ c.parts[p].ok
  <2>1. /\ p \in DOMAIN m.parts /\ p \in DOMAIN told1 /\ p \in Parts
        /\ told1[p] = [by |-> turns, ok |-> m.parts[p]] /\ m.parts[p]
    BY <1>4 DEF ToldWell, told1, ExtractFields
  <2>2. CASE p \in DOMAIN read
    <3>1. guess # NULL /\ p \in DOMAIN guess.parts /\ read[p] = [by |-> turns, ok |-> guess.parts[p]]
      BY <2>2 DEF read, InterpretedFields
    <3>2. guess.parts[p]
      BY <3>1 DEF ToldWell
    <3>3. QED
      BY <1>7, <2>1, <2>2, <3>1, <3>2
  <2>3. CASE p \notin DOMAIN read
    BY <1>6, <1>7, <2>1, <2>3
  <2>4. QED
    BY <2>2, <2>3
<1>9. /\ m.intent # NULL => c.intent = m.intent
      /\ m.intent = NULL /\ ctx.intent # NULL => c.intent = ctx.intent
  BY <1>3 DEF IntentOf
<1>10. QED
  BY <1>7, <1>8, <1>9, <1>11 DEF Reads, c

\* drop_invalid_fields takes away what it does not keep, and nothing told well.
LEMMA DropReads ==
  ASSUME NEW m, NEW guess, NEW c0, NEW i, NEW ps, c0 = [intent |-> i, parts |-> ps],
         Reads(m, guess, c0), GoodParts(m.parts), turns \in Nat
  PROVE  LET c == DropInvalidFields(c0)
         IN /\ Reads(m, guess, c) /\ c.intent = c0.intent
            /\ \A p \in Required.report_lost : Has(c, p) => c.parts[p].ok
<1> DEFINE c == DropInvalidFields(c0)
           kept == [p \in Parts |-> IF p \in Required.report_lost /\ ~ps[p].ok THEN Missing ELSE ps[p]]
<1>1. c.intent = c0.intent /\ c.parts = kept /\ c0.parts = ps
  BY DEF DropInvalidFields
<1>2. /\ ps \in [Parts -> PartValues] /\ ps["report"].ok
      /\ \A p \in ToldWell(m, guess) : ps[p].by = turns /\ ps[p].ok
      /\ \A p \in Parts : ps[p].by = 0 \/ ps[p].by = turns \/ ps[p].by >= heard[p]
  BY <1>1 DEF Reads
<1>3. Missing \in PartValues \/ MaxTurns \notin Nat
  BY DEF Missing, PartValues
<1>4. /\ Missing.by = 0 /\ "report" \notin Required.report_lost /\ Required.report_lost \subseteq Parts
      /\ "report" \in Parts /\ ToldWell(m, guess) \subseteq Parts
  BY DEF Missing, Required, Parts, ToldWell, GoodParts
<1>5. kept \in [Parts -> PartValues]
  BY <1>2, <1>3, AgentAssumption
<1>6. \A p \in Parts : kept[p] = IF p \in Required.report_lost /\ ~ps[p].ok THEN Missing ELSE ps[p]
  OBVIOUS
<1> HIDE DEF kept, c
<1>7. kept["report"].ok
  BY <1>2, <1>4, <1>6
<1>8. \A p \in Parts : kept[p].by = 0 \/ kept[p].by = turns \/ kept[p].by >= heard[p]
  BY <1>2, <1>4, <1>6
<1>9. \A p \in Required.report_lost : kept[p].by > 0 => kept[p].ok
  BY <1>4, <1>6
<1>10. \A p \in ToldWell(m, guess) : kept[p].by = turns /\ kept[p].ok
  BY <1>2, <1>4, <1>6
<1>11. Reads(m, guess, c)
  BY <1>1, <1>5, <1>7, <1>8, <1>10 DEF Reads
<1>12. QED
  BY <1>1, <1>9, <1>11 DEF Has, c

\* Nothing is known, asked or sent at first.
LEMMA DeskInitEstablishes == DeskInit => DeskInv
<1> SUFFICES ASSUME DeskInit PROVE DeskInv
  OBVIOUS
<1>1. /\ now = 0 /\ turns = 0 /\ topic \in Topics /\ pending = {} /\ wanted = NULL
      /\ ctx = EmptyContext /\ calls = [s \in Slots |-> NULL]
      /\ heard = [p \in Parts |-> 0] /\ asked = <<>> /\ sent = <<>>
  BY DEF DeskInit
<1>2. /\ MaxTime \in Nat /\ MaxTurns \in Nat
      /\ asked \in Seq(Questions) /\ sent \in Seq([id: Nat, payload: Payloads])
      /\ DOMAIN asked = {} /\ DOMAIN sent = {}
  BY <1>1, AgentAssumption, EmptySeq
<1>3. /\ ctx.parts \in [Parts -> [by: 0..MaxTurns, ok: BOOLEAN]] /\ ctx.parts["report"].ok
      /\ \A p \in Parts : ctx.parts[p].by = 0
  BY <1>1, <1>2 DEF EmptyContext, Missing, Parts
<1>4. DeskTypes
  BY <1>1, <1>2, <1>3 DEF DeskTypes
<1>5. Once /\ Latest /\ Wanted
  BY <1>1, <1>2, <1>3 DEF Once, Latest, Wanted, Due
<1>6. QED
  BY <1>4, <1>5 DEF DeskInv

\* Questions that are added, confirmations that are dropped and calls that end or
\* move on send nothing twice.
LEMMA OnceKept ==
  ASSUME Once, sent' = sent,
         \A i \in DOMAIN asked : i \in DOMAIN asked' /\ asked'[i] = asked[i],
         \A i \in DOMAIN asked : i \in pending' => i \in pending,
         \A r \in Slots : calls'[r] = calls[r] \/ calls'[r] = NULL \/ calls'[r].pc # "calling"
  PROVE  Once'
<1>1. \A r \in Slots : Due(r)' => Due(r) /\ calls'[r] = calls[r]
  BY DEF Due
<1>2. QED
  BY <1>1 DEF Once

\* A step that changes nothing the user was asked or told, and sends nothing.
LEMMA QuietPreserves ==
  ASSUME DeskInv, UNCHANGED <<topic, ctx, asked, heard, wanted, sent>>,
         now' \in 0..MaxTime, turns' \in 0..MaxTurns, turns' >= turns,
         pending' \subseteq pending, DOMAIN calls' = Slots,
         \A r \in Slots : \/ calls'[r] = NULL \/ calls'[r] = calls[r]
                          \/ calls'[r].pc = "reading" /\ calls'[r].msg \in topic.messages
                          \/ calls'[r].pc = "created"
                          \/ calls'[r].pc = "claiming" /\ calls'[r].tx \in Requests
  PROVE  DeskInv'
<1>1. \A p \in Parts : heard[p] <= turns'
  BY DEF DeskInv, DeskTypes
<1>2. ASSUME NEW r \in Slots, calls'[r] # NULL
      PROVE  /\ calls'[r].pc \in {"reading", "calling", "created", "claiming"}
             /\ calls'[r].pc = "reading" => calls'[r].msg \in topic.messages
             /\ calls'[r].pc = "claiming" => calls'[r].tx \in Requests
  BY <1>2 DEF DeskInv, DeskTypes
<1>3. DeskTypes'
  BY <1>1, <1>2 DEF DeskInv, DeskTypes
<1>4. Once'
  BY OnceKept DEF DeskInv
<1>5. Latest' /\ Wanted'
  BY DEF DeskInv, Latest, Wanted
<1>6. QED
  BY <1>3, <1>4, <1>5 DEF DeskInv

\* The context after an answer: with what it lacks as it was before.
LEMMA AnswersHear ==
  ASSUME DeskInv, NEW s \in Slots, Reading(s), NEW guess, NEW c,
         Reads(calls[s].msg, guess, c), Hears(calls[s].msg, guess), Answers(s, c)
  PROVE  /\ UNCHANGED <<now, topic, turns, sent>>
         /\ ctx'.parts \in [Parts -> [by: 0..MaxTurns, ok: BOOLEAN]]
         /\ ctx'.parts["report"].ok
         /\ DOMAIN calls' = Slots /\ \A r \in Slots : calls'[r] = IF r = s THEN NULL ELSE calls[r]
         /\ heard' \in [Parts -> 0..MaxTurns] /\ \A p \in Parts : heard'[p] <= turns
         /\ Latest' /\ Wanted'
<1> DEFINE m == calls[s].msg
           well == ToldWell(m, guess)
<1>1. /\ UNCHANGED <<now, topic, turns, sent>> /\ ctx' = Kept(c)
      /\ heard' = [p \in Parts |-> IF p \in well THEN turns ELSE heard[p]]
      /\ wanted' = IF m.intent # NULL THEN m.intent ELSE wanted
      /\ calls' = [calls EXCEPT ![s] = NULL]
  BY DEF Answers, EndCall, Hears
<1>2. /\ DOMAIN calls = Slots /\ heard \in [Parts -> 0..MaxTurns] /\ turns \in 0..MaxTurns
      /\ \A p \in Parts : heard[p] <= turns
      /\ ctx.parts \in [Parts -> PartValues] /\ ctx.parts["report"].ok
      /\ \A p \in Parts : ctx.parts[p].by = 0 \/ ctx.parts[p].by >= heard[p]
  BY DEF DeskInv, DeskTypes, Latest, PartValues
<1> HIDE DEF m, well
<1>3. /\ c.parts \in [Parts -> PartValues] /\ c.parts["report"].ok
      /\ \A p \in well : c.parts[p].by = turns
      /\ \A p \in Parts : c.parts[p].by = 0 \/ c.parts[p].by = turns \/ c.parts[p].by >= heard[p]
      /\ m.intent # NULL => c.intent = m.intent
      /\ m.intent = NULL /\ ctx.intent # NULL => c.intent = ctx.intent
  BY DEF Reads, m, well
<1>4. heard' \in [Parts -> 0..MaxTurns] /\ \A p \in Parts : heard'[p] <= turns
  BY <1>1, <1>2
<1>5. /\ ctx'.intent = c.intent
      /\ ctx'.parts = [p \in Parts |-> IF c.parts[p].by > 0 THEN c.parts[p] ELSE ctx.parts[p]]
  BY <1>1 DEF Kept, Has
<1>6. ctx'.parts \in [Parts -> PartValues] /\ ctx'.parts["report"].ok
  <2>1. "report" \in Parts
    BY DEF Parts
  <2>2. QED
    BY <1>2, <1>3, <1>5, <2>1
<1>7. Latest'
  <2>1. ASSUME NEW p \in Parts
        PROVE  ctx'.parts[p].by = 0 \/ ctx'.parts[p].by >= heard'[p]
    <3>1. c.parts[p].by \in 0..MaxTurns /\ ctx.parts[p].by \in 0..MaxTurns /\ heard[p] \in 0..MaxTurns
      BY <1>2, <1>3 DEF PartValues
    <3>2. MaxTurns \in Nat
      BY AgentAssumption
    <3>3. ctx'.parts[p] = IF c.parts[p].by > 0 THEN c.parts[p] ELSE ctx.parts[p]
      BY <1>5
    <3>4. CASE p \in well
      <4>1. heard'[p] = turns /\ c.parts[p].by = turns
        BY <1>1, <1>3, <3>4
      <4>2. QED
        BY <1>2, <3>1, <3>2, <3>3, <4>1
    <3>5. CASE p \notin well
      <4>1. heard'[p] = heard[p]
        BY <1>1, <3>5
      <4>2. QED
        BY <1>2, <1>3, <3>1, <3>2, <3>3, <4>1
    <3>6. QED
      BY <3>4, <3>5
  <2>2. QED
    BY <2>1 DEF Latest
<1>8. Wanted'
  BY <1>1, <1>3, <1>5 DEF DeskInv, Wanted
<1>9. DOMAIN calls' = Slots /\ \A r \in Slots : calls'[r] = IF r = s THEN NULL ELSE calls[r]
  BY <1>1, <1>2
<1>10. QED
  BY <1>1, <1>4, <1>6, <1>7, <1>8, <1>9 DEF PartValues

\* An answer without a question.
LEMMA RepliesPreserve ==
  ASSUME DeskInv, NEW s \in Slots, Reading(s), NEW guess, NEW c,
         Reads(calls[s].msg, guess, c), Hears(calls[s].msg, guess), Answers(s, c),
         UNCHANGED <<asked, pending>>
  PROVE  DeskInv'
<1>1. /\ UNCHANGED <<now, topic, turns, sent>>
      /\ ctx'.parts \in [Parts -> [by: 0..MaxTurns, ok: BOOLEAN]]
      /\ ctx'.parts["report"].ok
      /\ DOMAIN calls' = Slots /\ \A r \in Slots : calls'[r] = IF r = s THEN NULL ELSE calls[r]
      /\ heard' \in [Parts -> 0..MaxTurns] /\ \A p \in Parts : heard'[p] <= turns
      /\ Latest' /\ Wanted'
  BY AnswersHear
<1>2. Once'
  BY <1>1, OnceKept DEF DeskInv
<1>3. DeskTypes'
  BY <1>1 DEF DeskInv, DeskTypes
<1>4. QED
  BY <1>1, <1>2, <1>3 DEF DeskInv

\* An answer that asks: what it shows is complete and valid.
LEMMA AsksPreserves ==
  ASSUME DeskInv, NEW s \in Slots, Reading(s), NEW guess, NEW c,
         Reads(calls[s].msg, guess, c), Hears(calls[s].msg, guess),
         NEW w \in Writes, Asks(s, c, w), \A p \in Required[w] : Has(c, p) /\ c.parts[p].ok
  PROVE  DeskInv'
<1> DEFINE q == [action |-> w, expires |-> now + ConfirmTTL,
                 payload |-> [p \in Required[w] |-> c.parts[p]]]
<1>1. /\ UNCHANGED <<now, topic, turns, sent>>
      /\ ctx'.parts \in [Parts -> [by: 0..MaxTurns, ok: BOOLEAN]]
      /\ ctx'.parts["report"].ok
      /\ DOMAIN calls' = Slots /\ \A r \in Slots : calls'[r] = IF r = s THEN NULL ELSE calls[r]
      /\ heard' \in [Parts -> 0..MaxTurns] /\ \A p \in Parts : heard'[p] <= turns
      /\ Latest' /\ Wanted'
  BY AnswersHear DEF Asks
<1>2. asked' = Append(asked, q) /\ pending' = pending \cup {Len(asked) + 1}
  BY DEF Asks
<1>3. [p \in Required[w] |-> c.parts[p]] \in [Required[w] -> [by: 1..MaxTurns, ok: {TRUE}]]
  <2>1. ASSUME NEW p \in Required[w]
        PROVE  c.parts[p] \in [by: 1..MaxTurns, ok: {TRUE}]
    <3>1. Required[w] \subseteq Parts
      BY DEF Writes, Required, Parts
    <3>2. c.parts[p] \in PartValues /\ c.parts[p].by > 0 /\ c.parts[p].ok
      BY <3>1 DEF Reads, Has
    <3>3. MaxTurns \in Nat
      BY AgentAssumption
    <3>4. c.parts[p].by \in 1..MaxTurns /\ c.parts[p].ok = TRUE
      BY <3>2, <3>3 DEF PartValues
    <3>5. c.parts[p] = [by |-> c.parts[p].by, ok |-> c.parts[p].ok]
      BY <3>2 DEF PartValues
    <3>6. QED
      BY <3>4, <3>5
  <2>2. QED
    BY <2>1
<1>4. q \in Questions
  <2>1. now + ConfirmTTL \in Nat
    BY AgentAssumption DEF DeskInv, DeskTypes
  <2>2. [p \in Required[w] |-> c.parts[p]] \in Payloads
    BY <1>3 DEF Payloads
  <2>3. QED
    BY <2>1, <2>2 DEF Questions
<1> HIDE DEF q
<1>5. asked \in Seq(Questions) /\ pending \subseteq DOMAIN asked
  BY DEF DeskInv, DeskTypes
<1>6. /\ asked' \in Seq(Questions) /\ pending' \subseteq DOMAIN asked'
      /\ \A i \in DOMAIN asked : i \in DOMAIN asked' /\ asked'[i] = asked[i]
      /\ \A i \in DOMAIN asked : i \in pending' => i \in pending
  BY <1>2, <1>4, <1>5
<1>7. Once'
  BY <1>1, <1>6, OnceKept DEF DeskInv
<1>8. DeskTypes'
  BY <1>1, <1>6 DEF DeskInv, DeskTypes
<1>9. QED
  BY <1>1, <1>7, <1>8 DEF DeskInv

\* handle, with the answers and questions it ends in.
LEMMA HandleAnswers ==
  ASSUME DeskInv, NEW s \in Slots, Handle(s)
  PROVE  /\ Reading(s)
         /\ \E guess, c :
              /\ Reads(calls[s].msg, guess, c) /\ Hears(calls[s].msg, guess) /\ Answers(s, c)
              /\ \/ UNCHANGED <<asked, pending>>
                     \/ \E w \in Writes : /\ w = c.intent /\ Asks(s, c, w)
                                          /\ \A p \in Required[w] : Has(c, p) /\ c.parts[p].ok
<1>1. Reading(s) /\ calls[s].msg \in topic.messages
  BY DEF Handle, Reading, DeskInv, DeskTypes
<1> DEFINE m == calls[s].msg
<1>2. PICK guess \in topic.guesses \cup {NULL} :
        LET c == Merged(ctx, m, guess)
        IN /\ Hears(m, guess)
           /\ CASE c.intent \in {"report_lost", "report_found"} -> PrepareReport(s, c)
             [] c.intent = "claim_item" -> PrepareClaim(s, c)
             [] c.intent = "get_item_detail" -> Detail(s, c)
             [] OTHER -> Search(s, c)
  BY DEF Handle
<1> DEFINE c0 == Merged(ctx, m, guess)
<1>3. Reads(m, guess, c0) /\ Hears(m, guess)
  BY <1>1, <1>2, MergedReads
<1>4. \E i, ps : c0 = [intent |-> i, parts |-> ps]
  BY DEF Merged
<1>5. Writes = {"report_lost", "report_found", "claim_item"}
  BY DEF Writes, Required
<1> HIDE DEF c0
<1> DEFINE Goal(c) == /\ Reads(m, guess, c) /\ Hears(m, guess) /\ Answers(s, c)
                      /\ \/ UNCHANGED <<asked, pending>>
                         \/ \E w \in Writes : /\ w = c.intent /\ Asks(s, c, w)
                                              /\ \A p \in Required[w] : Has(c, p) /\ c.parts[p].ok
<1>6. CASE c0.intent \in {"report_lost", "report_found"}
  <2> DEFINE c == DropInvalidFields(c0)
  <2>1. PrepareReport(s, c0)
    BY <1>2, <1>6 DEF c0
  <2>2. /\ Reads(m, guess, c) /\ c.intent = c0.intent
        /\ \A p \in Required.report_lost : Has(c, p) => c.parts[p].ok
    <3>1. GoodParts(m.parts) /\ turns \in Nat
      BY <1>1, TopicsAssumption, AgentAssumption DEF DeskInv, DeskTypes
    <3>2. QED
      BY <1>3, <1>4, <3>1, DropReads
  <2>3. IF \A p \in Required[c.intent] : Has(c, p) THEN Asks(s, c, c.intent) ELSE Replies(s, c)
    BY <2>1 DEF PrepareReport
  <2> HIDE DEF c
  <2>4. Required[c.intent] = Required.report_lost /\ c.intent \in Writes
    BY <1>5, <1>6, <2>2 DEF Required
  <2>5. ASSUME \A p \in Required[c.intent] : Has(c, p)
        PROVE  Goal(c)
    <3>1. Asks(s, c, c.intent) /\ Answers(s, c)
      BY <2>3, <2>5 DEF Asks
    <3>2. \A p \in Required[c.intent] : Has(c, p) /\ c.parts[p].ok
      BY <2>2, <2>4, <2>5
    <3>3. QED
      BY <1>3, <2>2, <2>4, <3>1, <3>2
  <2>6. ASSUME ~\A p \in Required[c.intent] : Has(c, p)
        PROVE  Goal(c)
    BY <1>3, <2>2, <2>3, <2>6 DEF Replies
  <2>7. Goal(c)
    BY <2>5, <2>6
  <2>8. QED
    BY <1>1, <2>7
<1>7. CASE c0.intent = "claim_item"
  <2>1. IF Has(c0, "report") /\ Has(c0, "proof") /\ c0.parts["proof"].ok
        THEN Asks(s, c0, "claim_item") ELSE Replies(s, c0)
    BY <1>2, <1>7 DEF c0, PrepareClaim
  <2>2. c0.parts["report"].ok
    BY <1>3 DEF Reads
  <2>3. Required["claim_item"] = {"report", "proof"}
    BY DEF Required
  <2>4. CASE Has(c0, "report") /\ Has(c0, "proof") /\ c0.parts["proof"].ok
    <3>1. Asks(s, c0, "claim_item") /\ Answers(s, c0)
      BY <2>1, <2>4 DEF Asks
    <3>2. \A p \in Required["claim_item"] : Has(c0, p) /\ c0.parts[p].ok
      BY <2>2, <2>3, <2>4
    <3>3. QED
      BY <1>1, <1>3, <1>5, <1>7, <3>1, <3>2
  <2>5. CASE ~(Has(c0, "report") /\ Has(c0, "proof") /\ c0.parts["proof"].ok)
    BY <1>1, <1>3, <2>1, <2>5 DEF Replies
  <2>6. QED
    BY <2>4, <2>5
<1>8. CASE c0.intent \notin {"report_lost", "report_found", "claim_item"}
  <2>1. Detail(s, c0) \/ Search(s, c0)
    BY <1>2, <1>8 DEF c0
  <2>2. Answers(s, c0) /\ UNCHANGED <<asked, pending>>
    BY <2>1 DEF Detail, Search, Replies
  <2>3. QED
    BY <1>1, <1>3, <2>2
<1>9. QED
  BY <1>6, <1>7, <1>8

\* So does the invariant.
LEMMA HandlePreserves ==
  ASSUME DeskInv, NEW s \in Slots, Handle(s)
  PROVE  DeskInv'
  BY HandleAnswers, RepliesPreserve, AsksPreserves

\* A confirmation that is consumed is due in one slot.
LEMMA ConfirmPreserves ==
  ASSUME DeskInv, NEW s \in Slots, NEW i \in DOMAIN asked, Confirm(s, i)
  PROVE  DeskInv'
<1>1. /\ UNCHANGED <<now, topic, ctx, asked, turns, heard, wanted, sent>>
      /\ DOMAIN calls = Slots /\ turns \in 0..MaxTurns /\ now \in 0..MaxTime
  BY DEF Confirm, DeskInv, DeskTypes
<1>2. CASE ~(i \in pending /\ asked[i].expires > now)
  <2>1. pending' = pending /\ calls' = calls
    BY <1>2 DEF Confirm
  <2>2. QED
    BY <1>1, <2>1, QuietPreserves
<1>3. CASE i \in pending /\ asked[i].expires > now
  <2> DEFINE v == [pc |-> "calling", id |-> i]
  <2>1. pending' = pending \ {i} /\ calls' = [calls EXCEPT ![s] = v]
    BY <1>3 DEF Confirm, Consume
  <2>2. v.pc = "calling" /\ v.id = i
    OBVIOUS
  <2> HIDE DEF v
  <2>3. DOMAIN calls' = Slots /\ \A r \in Slots : calls'[r] = IF r = s THEN v ELSE calls[r]
    BY <1>1, <2>1
  <2>4. DeskTypes'
    BY <1>1, <2>1, <2>2, <2>3 DEF DeskInv, DeskTypes
  <2>5. \A r \in Slots : Due(r)' /\ r # s => Due(r) /\ calls'[r] = calls[r]
    BY <2>3 DEF Due
  <2>6. /\ calls'[s].id = i /\ \A j \in DOMAIN sent : sent[j].id # i
        /\ \A r \in Slots : Due(r) => calls[r].id # i
    BY <1>3, <2>2, <2>3 DEF DeskInv, Once
  <2>7. Once'
    BY <1>1, <2>1, <2>5, <2>6 DEF DeskInv, Once
  <2>8. Latest' /\ Wanted'
    BY <1>1 DEF DeskInv, Latest, Wanted
  <2>9. QED
    BY <2>4, <2>7, <2>8 DEF DeskInv
<1>4. QED
  BY <1>2, <1>3

\* What is due is sent once, and then is not due any longer.
LEMMA SendPreserves ==
  ASSUME DeskInv, NEW s \in Slots, Due(s), Sends(s), NEW v,
         calls' = [calls EXCEPT ![s] = v],
         v.pc = "created" \/ (v.pc = "claiming" /\ v.tx \in Requests),
         UNCHANGED <<now, topic, ctx, asked, pending, turns, heard, wanted>>
  PROVE  DeskInv'
<1> DEFINE k == calls[s].id
           w == [id |-> k, payload |-> asked[k].payload]
<1>1. /\ k \in DOMAIN asked /\ k \notin pending /\ \A j \in DOMAIN sent : sent[j].id # k
      /\ \A r \in Slots : Due(r) /\ calls[r].id = k => r = s
  BY DEF DeskInv, Once
<1>2. /\ DOMAIN calls = Slots /\ asked \in Seq(Questions)
      /\ sent \in Seq([id: Nat, payload: Payloads])
  BY DEF DeskInv, DeskTypes
<1>3. sent' = Append(sent, w)
  BY DEF Sends, Payload
<1> HIDE DEF k
<1>4. k \in Nat /\ asked[k].payload \in Payloads
  <2>1. k \in Nat /\ asked[k] \in Questions
    BY <1>1, <1>2
  <2>2. QED
    BY <2>1 DEF Questions
<1>5. w \in [id: Nat, payload: Payloads] /\ w.id = k /\ w.payload = asked[k].payload
  BY <1>4
<1> HIDE DEF w
<1>6. PICK n \in Nat : n = Len(sent)
  BY <1>2, LenProperties
<1>7. /\ sent' \in Seq([id: Nat, payload: Payloads])
      /\ DOMAIN sent = 1..n /\ DOMAIN sent' = 1..(n + 1) /\ sent'[n + 1] = w
      /\ \A j \in 1..n : sent'[j] = sent[j]
  BY <1>2, <1>3, <1>5, <1>6
<1>8. DOMAIN calls' = Slots /\ \A r \in Slots : calls'[r] = IF r = s THEN v ELSE calls[r]
  BY <1>2
<1>9. ASSUME NEW r \in Slots, calls'[r] # NULL
      PROVE  /\ calls'[r].pc \in {"reading", "calling", "created", "claiming"}
             /\ calls'[r].pc = "reading" => calls'[r].msg \in topic.messages
             /\ calls'[r].pc = "claiming" => calls'[r].tx \in Requests
  BY <1>8, <1>9 DEF DeskInv, DeskTypes
<1>10. DeskTypes'
  BY <1>7, <1>8, <1>9 DEF DeskInv, DeskTypes
<1>11. \A r \in Slots : Due(r)' => r # s /\ Due(r) /\ calls'[r] = calls[r]
  BY <1>8 DEF Due
<1>12. \A j, l \in DOMAIN sent' : sent'[j].id = sent'[l].id => j = l
  <2>1. \A j \in 1..n : sent[j].id # k
    BY <1>1, <1>7
  <2>2. \A j, l \in 1..n : sent[j].id = sent[l].id => j = l
    BY <1>7 DEF DeskInv, Once
  <2>3. 1..(n + 1) = 1..n \cup {n + 1}
    OBVIOUS
  <2>4. QED
    BY <1>5, <1>7, <2>1, <2>2, <2>3
<1>13. \A j \in DOMAIN sent' : /\ sent'[j].id \in DOMAIN asked \ pending
                             /\ sent'[j].payload = asked[sent'[j].id].payload
  <2>1. \A j \in 1..n : /\ sent[j].id \in DOMAIN asked \ pending
                      /\ sent[j].payload = asked[sent[j].id].payload
    BY <1>7 DEF DeskInv, Once
  <2>2. 1..(n + 1) = 1..n \cup {n + 1}
    OBVIOUS
  <2>3. QED
    BY <1>1, <1>5, <1>7, <2>1, <2>2
<1>14. ASSUME NEW r \in Slots, Due(r)'
       PROVE  /\ calls'[r].id \in DOMAIN asked \ pending
              /\ \A j \in DOMAIN sent' : sent'[j].id # calls'[r].id
              /\ \A q \in Slots : Due(q)' /\ calls'[q].id = calls'[r].id => q = r
  <2>1. r # s /\ Due(r) /\ calls'[r] = calls[r]
    BY <1>11, <1>14
  <2>2. /\ calls[r].id \in DOMAIN asked \ pending /\ calls[r].id # k
        /\ \A j \in DOMAIN sent : sent[j].id # calls[r].id
        /\ \A q \in Slots : Due(q) /\ calls[q].id = calls[r].id => q = r
    BY <1>1, <2>1 DEF DeskInv, Once
  <2>3. 1..(n + 1) = 1..n \cup {n + 1}
    OBVIOUS
  <2>4. \A j \in DOMAIN sent' : sent'[j].id # calls[r].id
    BY <1>5, <1>7, <2>2, <2>3
  <2>5. QED
    BY <1>11, <2>1, <2>2, <2>4
<1>15. Once'
  BY <1>12, <1>13, <1>14 DEF Once
<1>16. Latest' /\ Wanted'
  BY DEF DeskInv, Latest, Wanted
<1>17. QED
  BY <1>10, <1>15, <1>16 DEF DeskInv

\* What a conversation is about names requests of the instance.
LEMMA TopicRequests == DeskInv => topic.requests \subseteq Requests
  BY TopicsAssumption DEF DeskInv, DeskTypes

\* Everything else leaves the questions alone: a call ends, a message arrives, the
\* process starts again, time passes, or others act.
LEMMA DeskNextPreserves == DeskInv /\ [DeskNext]_deskVars => DeskInv'
<1> SUFFICES ASSUME DeskInv, [DeskNext]_deskVars
             PROVE  DeskInv'
  OBVIOUS
<1> DEFINE quiet == <<topic, ctx, asked, heard, wanted, sent>>
<1>1. /\ now \in 0..MaxTime /\ turns \in 0..MaxTurns /\ MaxTime \in Nat /\ MaxTurns \in Nat
      /\ DOMAIN calls = Slots
  BY AgentAssumption DEF DeskInv, DeskTypes
<1>2. CASE UNCHANGED deskVars \/ OthersAct
  <2>1. UNCHANGED agentVars
    BY <1>2 DEF deskVars, OthersAct
  <2>2. QED
    BY <1>1, <2>1, QuietPreserves DEF agentVars
<1>3. ASSUME NEW m \in topic.messages, Say(m)
      PROVE  DeskInv'
  <2>1. /\ UNCHANGED quiet /\ now' = now /\ pending' = pending /\ turns' = turns + 1 /\ turns < MaxTurns
        /\ \/ calls' = [calls EXCEPT ![1] = [pc |-> "reading", msg |-> m]]
           \/ calls' = calls
    BY <1>3 DEF Say
  <2>2. /\ DOMAIN calls' = Slots
        /\ \A r \in Slots : \/ calls'[r] = calls[r]
                            \/ calls'[r].pc = "reading" /\ calls'[r].msg \in topic.messages
    BY <1>1, <2>1
  <2>3. QED
    BY <1>1, <2>1, <2>2, QuietPreserves
<1>4. ASSUME NEW s \in Slots, Failed(s) \/ MatchReport(s)
      PROVE  DeskInv'
  <2>1. /\ UNCHANGED quiet /\ now' = now /\ pending' = pending /\ turns' = turns
        /\ calls' = [calls EXCEPT ![s] = NULL]
    BY <1>4 DEF Failed, MatchReport, EndCall
  <2>2. DOMAIN calls' = Slots /\ \A r \in Slots : calls'[r] = calls[r] \/ calls'[r] = NULL
    BY <1>1, <2>1
  <2>3. QED
    BY <1>1, <2>1, <2>2, QuietPreserves
<1>5. ASSUME NEW s \in Slots, SendReport(s)
      PROVE  DeskInv'
  <2> DEFINE v == [pc |-> "created", id |-> calls[s].id]
  <2>1. v.pc = "created"
    OBVIOUS
  <2>2. /\ Due(s) /\ Sends(s) /\ calls' = [calls EXCEPT ![s] = v]
        /\ UNCHANGED <<now, topic, ctx, asked, pending, turns, heard, wanted>>
    BY <1>5 DEF SendReport, Calling, Due
  <2> HIDE DEF v
  <2>3. QED
    BY <2>1, <2>2, SendPreserves
<1>6. ASSUME NEW s \in Slots, NEW t \in Requests, SendClaim(s, t)
      PROVE  DeskInv'
  <2> DEFINE v == [pc |-> "claiming", id |-> calls[s].id, tx |-> t]
  <2>1. v.pc = "claiming" /\ v.tx = t
    OBVIOUS
  <2>2. /\ Due(s) /\ Sends(s) /\ calls' = [calls EXCEPT ![s] = v]
        /\ UNCHANGED <<now, topic, ctx, asked, pending, turns, heard, wanted>>
    BY <1>6 DEF SendClaim, Calling, Due
  <2> HIDE DEF v
  <2>3. QED
    BY <2>1, <2>2, SendPreserves
<1>7. CASE Tick
  <2>1. /\ UNCHANGED quiet /\ now' = now + 1 /\ now < MaxTime /\ pending' = pending
        /\ turns' = turns /\ calls' = calls
    BY <1>7 DEF Tick
  <2>2. QED
    BY <1>1, <2>1, QuietPreserves
<1>8. CASE Restart
  <2>1. /\ UNCHANGED quiet /\ now' = now /\ pending' = {} /\ turns' = turns
        /\ calls' = [s \in Slots |-> NULL]
    BY <1>8 DEF Restart
  <2>2. QED
    BY <1>1, <2>1, QuietPreserves
<1>9. ASSUME NEW s \in Slots, HandleFails(s) \/ CallFails(s) \/ ClaimEnds(s)
      PROVE  Failed(s)
  BY <1>9 DEF HandleFails, CallFails, ClaimEnds
<1>10. QED
  BY <1>2, <1>3, <1>4, <1>5, <1>6, <1>7, <1>8, <1>9, HandlePreserves, ConfirmPreserves,
     TopicRequests DEF DeskNext

\* So it holds throughout a conversation.
THEOREM DeskInvariant == DeskSpec => []DeskInv
  BY DeskInitEstablishes, DeskNextPreserves, PTL DEF DeskSpec

(***************************************************************************)
(* What a conversation keeps                                               *)
(***************************************************************************)

\* A conversation makes claims only as the backend of LostFoundClaims does, so that
\* everything above holds of it.
LEMMA DeskStepMakesClaims == DeskInv /\ [DeskNext]_deskVars => [Next]_vars
<1> SUFFICES ASSUME DeskInv, DeskNext
             PROVE  Next \/ UNCHANGED vars
  BY DEF deskVars
<1>1. ASSUME NEW s \in Slots, NEW t \in Requests, SendClaim(s, t)
      PROVE  Next
  <2>1. PICK p \in topic.reports : CreateClaim(t, p, User)
    BY <1>1 DEF SendClaim
  <2>2. p \in Reports /\ User \in Users
    BY TopicsAssumption, AgentAssumption DEF DeskInv, DeskTypes
  <2>3. QED
    BY <2>1, <2>2 DEF Next
<1>2. ASSUME NEW s \in Slots, ClaimEnds(s)
      PROVE  Next
  <2>1. calls[s].tx \in Requests /\ (CommitClaim(calls[s].tx) \/ RollBack(calls[s].tx))
    BY <1>2 DEF ClaimEnds, Claiming, DeskInv, DeskTypes
  <2>2. QED
    BY <2>1 DEF Next
<1>3. CASE OthersAct
  <2>1. \A p \in topic.reports : p \in Reports
    BY TopicsAssumption DEF DeskInv, DeskTypes
  <2>2. QED
    BY <1>3, <2>1, TopicRequests DEF OthersAct, Next
<1>4. ASSUME NEW s \in Slots,
             \/ Handle(s) \/ HandleFails(s) \/ SendReport(s) \/ MatchReport(s) \/ CallFails(s)
             \/ \E i \in DOMAIN asked : Confirm(s, i)
      PROVE  UNCHANGED vars
  BY <1>4 DEF Handle, HandleFails, SendReport, MatchReport, CallFails, Confirm
<1>5. CASE Tick \/ Restart \/ \E m \in topic.messages : Say(m)
  BY <1>5 DEF Tick, Restart, Say
<1>6. QED
  BY <1>1, <1>2, <1>3, <1>4, <1>5, TopicRequests DEF DeskNext

THEOREM DeskMakesClaims == DeskSpec => Spec
<1>1. DeskInit => Init
  BY DEF DeskInit
<1>2. QED
  BY <1>1, DeskStepMakesClaims, DeskInvariant, PTL DEF DeskSpec, Spec

\* The conversation stays well typed, and whatever the user is asked to confirm is
\* complete and valid.
THEOREM DeskTypeCorrect == DeskSpec => []DeskTypeOK
<1>1. DeskInv /\ TypeOK => DeskTypeOK
  <2> SUFFICES ASSUME DeskInv, TypeOK
               PROVE  DeskTypeOK
    OBVIOUS
  <2>1. /\ now \in 0..MaxTime /\ topic \in Topics /\ turns \in 0..MaxTurns
        /\ ctx.parts \in [Parts -> [by: 0..MaxTurns, ok: BOOLEAN]]
        /\ pending \subseteq DOMAIN asked /\ asked \in Seq(Questions)
    BY DEF DeskInv, DeskTypes
  <2>2. ASSUME NEW i \in DOMAIN asked
        PROVE  /\ asked[i].action \in Writes
               /\ \A p \in DOMAIN asked[i].payload :
                    asked[i].payload[p].by > 0 /\ asked[i].payload[p].ok
    <3>1. asked[i] \in Questions
      BY <2>1
    <3>2. asked[i].action \in Writes /\ asked[i].payload \in Payloads
      BY <3>1 DEF Questions
    <3>3. PICK w \in Writes : asked[i].payload \in [Required[w] -> [by: 1..MaxTurns, ok: {TRUE}]]
      BY <3>2 DEF Payloads
    <3>4. \A p \in DOMAIN asked[i].payload : asked[i].payload[p] \in [by: 1..MaxTurns, ok: {TRUE}]
      BY <3>3
    <3>5. MaxTurns \in Nat
      BY AgentAssumption
    <3>6. \A p \in DOMAIN asked[i].payload :
            asked[i].payload[p].by \in 1..MaxTurns /\ asked[i].payload[p].ok = TRUE
      BY <3>4
    <3>7. \A k \in 1..MaxTurns : k > 0
      BY <3>5
    <3>8. \A p \in DOMAIN asked[i].payload : asked[i].payload[p].by > 0
      BY <3>6, <3>7
    <3>9. QED
      BY <3>2, <3>6, <3>8
  <2>3. QED
    BY <2>1, <2>2 DEF DeskTypeOK
<1>2. QED
  BY <1>1, DeskInvariant, DeskMakesClaims, TypeCorrect, PTL

\* However the user repeats a confirmation, and whenever the agent fails or starts
\* again, the backend hears of it once at most, with what the user saw.
THEOREM ConfirmationsAreSentOnce == DeskSpec => []SentOnceAsShown
<1>1. DeskInv => SentOnceAsShown
  BY DEF DeskInv, Once, SentOnceAsShown
<1>2. QED
  BY <1>1, DeskInvariant, PTL

\* Only handle asks, with the context it answers with.
LEMMA OnlyHandleAsks ==
  ASSUME DeskInv, DeskNext, asked' # asked
  PROVE  \E s \in Slots : Handle(s)
<1>1. ASSUME NEW s \in Slots,
             \/ HandleFails(s) \/ SendReport(s) \/ MatchReport(s) \/ CallFails(s) \/ ClaimEnds(s)
             \/ \E i \in DOMAIN asked : Confirm(s, i)
             \/ \E t \in Requests : SendClaim(s, t)
      PROVE  FALSE
  BY <1>1 DEF HandleFails, SendReport, MatchReport, CallFails, ClaimEnds, Confirm, SendClaim, Failed
<1>2. ASSUME Tick \/ Restart \/ OthersAct \/ \E m \in topic.messages : Say(m)
      PROVE  FALSE
  BY <1>2 DEF Tick, Restart, OthersAct, Say, agentVars
<1>3. QED
  BY <1>1, <1>2, TopicRequests DEF DeskNext

\* What handle newly asks.
LEMMA NewQuestion ==
  ASSUME DeskInv, NEW s \in Slots, Handle(s), NEW i \in DOMAIN asked' \ DOMAIN asked
  PROVE  /\ wanted' # NULL => asked'[i].action = wanted'
         /\ \A p \in DOMAIN asked'[i].payload : asked'[i].payload[p].by >= heard'[p]
<1> DEFINE m == calls[s].msg
<1>1. PICK guess, c :
        /\ Reads(m, guess, c) /\ Hears(m, guess) /\ Answers(s, c)
        /\ \/ UNCHANGED <<asked, pending>>
           \/ \E w \in Writes : /\ w = c.intent /\ Asks(s, c, w)
                                /\ \A p \in Required[w] : Has(c, p) /\ c.parts[p].ok
  BY HandleAnswers
<1>2. PICK w \in Writes : /\ w = c.intent /\ Asks(s, c, w)
                          /\ \A p \in Required[w] : Has(c, p) /\ c.parts[p].ok
  BY <1>1
<1> DEFINE q == [action |-> w, expires |-> now + ConfirmTTL,
                 payload |-> [p \in Required[w] |-> c.parts[p]]]
<1>3. asked' = Append(asked, q)
  BY <1>2 DEF Asks
<1>4. /\ q.action = w /\ DOMAIN q.payload = Required[w] /\ Required[w] \subseteq Parts
      /\ \A p \in Required[w] : q.payload[p] = c.parts[p]
  BY DEF Writes, Required, Parts
<1> HIDE DEF q
<1>5. asked'[i] = q
  <2>1. asked \in Seq(Questions)
    BY DEF DeskInv, DeskTypes
  <2>2. QED
    BY <1>3, <2>1
<1>6. /\ heard' = [p \in Parts |-> IF p \in ToldWell(m, guess) THEN turns ELSE heard[p]]
      /\ wanted' = IF m.intent # NULL THEN m.intent ELSE wanted
  BY <1>1 DEF Hears
<1>7. wanted' # NULL => w = wanted'
  BY <1>1, <1>2, <1>6 DEF Reads, DeskInv, Wanted
<1>8. ASSUME NEW p \in Required[w]
      PROVE  c.parts[p].by >= heard'[p]
  <2>1. p \in Parts /\ c.parts[p].by > 0
    BY <1>2, <1>4 DEF Has
  <2>2. /\ p \in ToldWell(m, guess) => c.parts[p].by = turns
        /\ c.parts[p].by = turns \/ c.parts[p].by >= heard[p]
    BY <1>1, <2>1 DEF Reads
  <2>3. turns >= heard[p] /\ turns >= turns
    BY <2>1 DEF DeskInv, DeskTypes
  <2>4. QED
    BY <1>6, <2>1, <2>2, <2>3
<1>9. QED
  BY <1>4, <1>5, <1>7, <1>8

\* The user confirms, of every part, what he last told well or a later guess.
THEOREM AskedIsLatest == DeskSpec => FieldsAreLatest
<1>1. DeskInv /\ [DeskNext]_deskVars =>
        [\A i \in DOMAIN asked' \ DOMAIN asked :
           \A p \in DOMAIN asked'[i].payload : asked'[i].payload[p].by >= heard'[p]]_asked
  BY OnlyHandleAsks, NewQuestion DEF deskVars, agentVars
<1>2. QED
  BY <1>1, DeskInvariant, PTL DEF DeskSpec, FieldsAreLatest

\* The user is asked only for the write he expressed last.
THEOREM AskedIsWanted == DeskSpec => WriteIsWanted
<1>1. DeskInv /\ [DeskNext]_deskVars =>
        [\A i \in DOMAIN asked' \ DOMAIN asked :
           wanted' # NULL => asked'[i].action = wanted']_asked
  BY OnlyHandleAsks, NewQuestion DEF deskVars, agentVars
<1>2. QED
  BY <1>1, DeskInvariant, PTL DEF DeskSpec, WriteIsWanted
=============================================================================
