----------------------- MODULE FacilitiesAgentProofs -----------------------
(***************************************************************************)
(* What the workflow of maintenance tickets keeps without a lock, and what *)
(* it loses only to updates that overlap; then what the conversation       *)
(* with the agent keeps, whatever the planner, the tools and the clock do. *)
(***************************************************************************)
EXTENDS FacilitiesAgent, SequenceTheorems, TLAPS

\* There is no ticket at first.
LEMMA InitEstablishes == Init => IInv
  BY DEF Init, IInv, TypeOK, Recorded, ResolvedWasInProgress

\* A new ticket joins the others.
LEMMA SubmitPreserves ==
  ASSUME IInv, Submit
  PROVE  IInv'
<1> DEFINE n == Len(status)
<1>1. /\ status \in Seq(Status) /\ seen \in Seq(SUBSET Status) /\ Len(seen) = n
      /\ UNCHANGED update
  BY DEF IInv, TypeOK, Recorded, Submit
<1>2. /\ DOMAIN status' = DOMAIN status \cup {n + 1} /\ DOMAIN seen' = DOMAIN status'
      /\ status'[n + 1] = "SUBMITTED" /\ seen'[n + 1] = {"SUBMITTED"}
      /\ \A i \in DOMAIN status : status'[i] = status[i] /\ seen'[i] = seen[i]
      /\ status' \in Seq(Status) /\ seen' \in Seq(SUBSET Status)
  BY <1>1 DEF Submit, Status
<1> HIDE DEF n
<1>3. TypeOK'
  BY <1>1, <1>2 DEF IInv, TypeOK
<1>4. ASSUME NEW r \in Requests, update[r] # NULL
      PROVE  update[r].id \in DOMAIN status
  BY <1>4 DEF IInv, TypeOK
<1>5. Recorded'
  BY <1>1, <1>2, <1>4 DEF IInv, Recorded
<1>6. ResolvedWasInProgress'
  BY <1>2 DEF IInv, ResolvedWasInProgress
<1>7. QED
  BY <1>3, <1>5, <1>6 DEF IInv

\* Whoever passes the check for RESOLVED has read IN_PROGRESS.
LEMMA CheckPreserves ==
  ASSUME IInv, NEW r \in Requests, NEW i \in DOMAIN status, NEW target \in Status,
         CheckUpdate(r, i, target)
  PROVE  IInv'
<1> DEFINE u == [id |-> i, from |-> status[i], target |-> target]
<1>1. UNCHANGED <<status, seen>> /\ update' = [update EXCEPT ![r] = u]
  BY DEF CheckUpdate
<1>2. \A q \in Requests : update'[q] = IF q = r THEN u ELSE update[q]
  BY <1>1 DEF IInv, TypeOK
<1>3. TypeOK'
  BY <1>1 DEF IInv, TypeOK
<1>4. target = "RESOLVED" => status[i] = "IN_PROGRESS"
  BY DEF CheckUpdate, Transitions, IInv, TypeOK, Status
<1>5. Recorded'
  BY <1>1, <1>2, <1>4 DEF IInv, Recorded
<1>6. ResolvedWasInProgress'
  BY <1>1 DEF IInv, ResolvedWasInProgress
<1>7. QED
  BY <1>3, <1>5, <1>6 DEF IInv

\* The history only grows, so what the check relied on is still recorded.
LEMMA CommitPreserves ==
  ASSUME IInv, NEW r \in Requests, CommitUpdate(r)
  PROVE  IInv'
<1> DEFINE i == update[r].id
           s == update[r].target
<1>1. i \in DOMAIN status /\ s \in Status /\ update[r] # NULL
  BY DEF CommitUpdate, IInv, TypeOK
<1>2. /\ status' = [status EXCEPT ![i] = s] /\ seen' = [seen EXCEPT ![i] = @ \cup {s}]
      /\ update' = [update EXCEPT ![r] = NULL]
  BY DEF CommitUpdate
<1>3. s = "RESOLVED" => "IN_PROGRESS" \in seen[i]
  BY <1>1 DEF IInv, Recorded
<1> HIDE DEF i, s
<1>4. /\ DOMAIN status' = DOMAIN status /\ DOMAIN seen' = DOMAIN status
      /\ \A k \in DOMAIN status : /\ status'[k] = IF k = i THEN s ELSE status[k]
                                 /\ seen'[k] = IF k = i THEN seen[i] \cup {s} ELSE seen[k]
      /\ \A q \in Requests : update'[q] = IF q = r THEN NULL ELSE update[q]
      /\ status' \in Seq(Status) /\ seen' \in Seq(SUBSET Status)
  BY <1>1, <1>2 DEF IInv, TypeOK, Recorded
<1>5. TypeOK'
  BY <1>2, <1>4 DEF IInv, TypeOK
<1>6. \A q \in Requests : update[q] # NULL => update[q].id \in DOMAIN status
  BY DEF IInv, TypeOK
<1>7. Recorded'
  BY <1>1, <1>4, <1>6 DEF IInv, Recorded
<1>8. ResolvedWasInProgress'
  BY <1>1, <1>3, <1>4 DEF IInv, ResolvedWasInProgress
<1>9. QED
  BY <1>5, <1>7, <1>8 DEF IInv

\* A failed update changes no ticket.
LEMMA RollBackPreserves ==
  ASSUME IInv, NEW r \in Requests, RollBack(r)
  PROVE  IInv'
<1>1. UNCHANGED <<status, seen>> /\ update' = [update EXCEPT ![r] = NULL]
  BY DEF RollBack
<1>2. \A q \in Requests : update'[q] = IF q = r THEN NULL ELSE update[q]
  BY <1>1 DEF IInv, TypeOK
<1>3. TypeOK'
  BY <1>1 DEF IInv, TypeOK
<1>4. Recorded' /\ ResolvedWasInProgress'
  BY <1>1, <1>2 DEF IInv, Recorded, ResolvedWasInProgress
<1>5. QED
  BY <1>3, <1>4 DEF IInv

\* The inductive invariant holds in every reachable state.
THEOREM Invariant == Spec => []IInv
<1>1. IInv /\ [Next]_vars => IInv'
  <2> SUFFICES ASSUME IInv, [Next]_vars PROVE IInv'
    OBVIOUS
  <2>1. CASE UNCHANGED vars
    BY <2>1 DEF vars, IInv, TypeOK, Recorded, ResolvedWasInProgress
  <2>2. QED
    BY <2>1, SubmitPreserves, CheckPreserves, CommitPreserves, RollBackPreserves DEF Next
<1>2. QED
  BY <1>1, InitEstablishes, PTL DEF Spec

\* However many administrators update the tickets at once, a ticket that was
\* ever resolved was in progress before.
THEOREM ResolvedAfterWork == Spec => []ResolvedWasInProgress
<1>1. IInv => ResolvedWasInProgress
  BY DEF IInv
<1>2. QED
  BY <1>1, Invariant, PTL

(***************************************************************************)
(* Updates that overlap                                                    *)
(***************************************************************************)
\* What an update writes is allowed after what it read.
Checked ==
  \A r \in Requests :
    update[r] # NULL => update[r].target \in Transitions[update[r].from]

LEMMA CheckedPreserved ==
  ASSUME IInv, Checked, [Next]_vars
  PROVE  Checked'
<1>1. CASE Submit \/ UNCHANGED vars
  BY <1>1 DEF Submit, vars, Checked
<1>2. ASSUME NEW r \in Requests, NEW i \in DOMAIN status, NEW target \in Status,
             CheckUpdate(r, i, target)
      PROVE  Checked'
  <2>1. \A q \in Requests :
          update'[q] = IF q = r THEN [id |-> i, from |-> status[i], target |-> target]
                       ELSE update[q]
    BY <1>2 DEF CheckUpdate, IInv, TypeOK
  <2>2. QED
    BY <1>2, <2>1 DEF Checked, CheckUpdate
<1>3. ASSUME NEW r \in Requests, CommitUpdate(r) \/ RollBack(r)
      PROVE  Checked'
  <2>1. \A q \in Requests : update'[q] = IF q = r THEN NULL ELSE update[q]
    BY <1>3 DEF CommitUpdate, RollBack, IInv, TypeOK
  <2>2. QED
    BY <2>1 DEF Checked
<1>4. QED
  BY <1>1, <1>2, <1>3 DEF Next

\* Only the commit of an update changes the status of a ticket.
LEMMA FinalLost ==
  ASSUME IInv, Checked, [Next]_vars, NEW i \in DOMAIN status,
         status[i] \in Final, status'[i] # status[i]
  PROVE  \E r \in Requests : /\ update[r] # NULL /\ update'[r] = NULL
                             /\ update[r].id = i /\ update[r].from \notin Final
<1>1. status \in Seq(Status)
  BY DEF IInv, TypeOK
<1>2. ~Submit
  BY <1>1 DEF Submit
<1>3. PICK r \in Requests : CommitUpdate(r)
  BY <1>2 DEF Next, CheckUpdate, RollBack, vars
<1>4. update[r] # NULL /\ update'[r] = NULL
  BY <1>3 DEF CommitUpdate, IInv, TypeOK
<1>5. update[r].id = i
  BY <1>3 DEF CommitUpdate
<1>6. update[r].from \notin Final
  BY <1>4 DEF Checked, Transitions, Final
<1>7. QED
  BY <1>4, <1>5, <1>6

\* However updates interleave, a resolved or cancelled ticket loses its status
\* only to an update that had read it before.
THEOREM FinalIsLostToOverlap == Spec => FinalLostOnlyToOverlap
<1>1. Init => Checked
  BY DEF Init, Checked
<1>2. IInv /\ Checked /\ [Next]_vars => Checked'
  BY CheckedPreserved
<1>3. IInv /\ Checked /\ [Next]_vars =>
        [\A i \in DOMAIN status : status[i] \in Final /\ status'[i] # status[i] =>
           \E r \in Requests : /\ update[r] # NULL /\ update'[r] = NULL
                               /\ update[r].id = i /\ update[r].from \notin Final]_vars
  BY FinalLost
<1>4. QED
  BY <1>1, <1>2, <1>3, Invariant, PTL DEF Spec, FinalLostOnlyToOverlap

(***************************************************************************)
(* The conversation and the tickets                                        *)
(***************************************************************************)
\* A step of the conversation or of an administrator is a step of the workflow
\* or none of its business.
LEMMA DeskStepMovesTickets ==
  ASSUME [DeskNext]_deskVars
  PROVE  [Next]_vars
<1>1. CASE UNCHANGED deskVars
  BY <1>1 DEF deskVars
<1>2. CASE CallSubmit
  BY <1>2 DEF CallSubmit, Next
<1>3. CASE AdminStep
  BY <1>3 DEF AdminStep, Next
<1>4. CASE Continue \/ PlanBooking \/ PlanOther \/ TurnFails
  BY <1>4 DEF Continue, PlanBooking, PlanOther, Handles, Processing, TurnFails
<1>5. CASE \E m \in topic.messages : Say(m) \/ SayElsewhere(m)
  BY <1>5 DEF Say, SayElsewhere
<1>6. CASE Confirm \/ Cancel \/ CallCreate \/ CallCancel \/ Tick \/ Restart
  BY <1>6 DEF Confirm, Cancel, CallCreate, CallCancel, Tick, Restart, desk
<1>7. QED
  BY <1>1, <1>2, <1>3, <1>4, <1>5, <1>6 DEF DeskNext

\* Whatever the conversation does, the tickets follow the workflow.
THEOREM DeskMovesTickets == DeskSpec => Spec
<1>1. DeskInit => Init
  BY DEF DeskInit
<1>2. QED
  BY <1>1, DeskStepMovesTickets, PTL DEF DeskSpec, Spec

(***************************************************************************)
(* The context                                                             *)
(***************************************************************************)
\* What the constants are.
LEMMA Bounds ==
  /\ NULL \notin Nat /\ NULL \notin Spaces /\ NULL \notin Slots /\ Slots \subseteq Nat
  /\ {ConfirmTTL, DraftTTL, SearchTTL, MaxTime, MaxTurns, MaxBookings} \subseteq Nat
  /\ DayLength \in Nat \ {0} /\ Turns \subseteq Nat /\ NULL \notin Opens
<1>1. DayLength \in Nat \ {0} /\ Slots \subseteq 0..DayLength-1 /\ MaxTurns \in Nat
  BY DeskAssumption
<1>2. Slots \subseteq Nat /\ Turns \subseteq Nat
  BY <1>1 DEF Turns
<1>3. Opens \subseteq [since: Nat, at: Nat]
  BY <1>2 DEF Opens
<1>4. QED
  BY <1>1, <1>2, <1>3, DeskAssumption, ConversationAssumption

\* Today is a date.
LEMMA TodayIsADate ==
  ASSUME now \in Nat
  PROVE  Today \in Nat
  BY Bounds DEF Today

\* Dropping the draft leaves the rest.
LEMMA Clearing ==
  ASSUME NEW c \in Contexts, NEW id, NEW t, Remembers(c, id, t)
  PROVE  /\ ClearPendingBooking(c) \in Contexts /\ ClearPendingBooking(c).draft = NULL
         /\ Remembers(ClearPendingBooking(c), id, t)
<1> DEFINE e == ClearPendingBooking(c)
<1>1. e \in Contexts /\ e.draft = NULL
  BY DEF ClearPendingBooking, Contexts
<1>2. /\ e.results = c.results /\ e.selected = c.selected /\ e.listed = c.listed
      /\ e.lastBooking = c.lastBooking /\ e.ticket = c.ticket
  BY DEF ClearPendingBooking, Contexts
<1> HIDE DEF e
<1>3. Remembers(e, id, t)
  BY <1>2 DEF Remembers, Chosen, Mentions, OfOneProblem
<1>4. QED
  BY <1>1, <1>3 DEF e

\* Without a draft there is no request to be of.
LEMMA NothingPending ==
  ASSUME NEW c, c.draft = NULL, NEW t
  PROVE  OfRequest(c, NULL, t)
  BY DEF OfRequest

\* A draft that is read is alive.
LEMMA Getting ==
  ASSUME NEW c \in Contexts, NEW o, NEW t, OfRequest(c, o, t), now \in Nat,
         NEW id, NEW r, Remembers(c, id, r)
  PROVE  /\ GetPendingBooking(c) \in Contexts /\ Remembers(GetPendingBooking(c), id, r)
         /\ OfRequest(GetPendingBooking(c), o, t)
         /\ GetPendingBooking(c).draft # NULL => now < GetPendingBooking(c).draft.expires
<1>1. CASE c.draft # NULL /\ c.draft.expires <= now
  BY <1>1, Clearing DEF GetPendingBooking, OfRequest
<1>2. CASE ~(c.draft # NULL /\ c.draft.expires <= now)
  <2>1. GetPendingBooking(c) = c
    BY <1>2 DEF GetPendingBooking
  <2>2. c.draft # NULL => c.draft.expires \in Nat
    BY DEF Contexts, Drafts
  <2>3. QED
    BY <1>2, <2>1, <2>2
<1>3. QED
  BY <1>1, <1>2

\* A draft that is set expires with its request, begun or continued now.
LEMMA Setting ==
  ASSUME NEW c \in Contexts, NEW id, NEW r, Remembers(c, id, r), now \in Nat,
         NEW d \in Drafts, ~Complete(d), NEW s \in Turns, NEW t \in Turns, s <= t,
         TakenBetween(d, s, t)
  PROVE  /\ SetPendingBooking(c, d) \in Contexts /\ Remembers(SetPendingBooking(c, d), id, r)
         /\ OfRequest(SetPendingBooking(c, d), [since |-> s, at |-> now], t)
<1> DEFINE n == now + DraftTTL
           f == [d EXCEPT !.expires = n]
           e == [c EXCEPT !.draft = f]
           o == [since |-> s, at |-> now]
<1>1. n \in Nat /\ o.since = s /\ o.at = now /\ o # NULL
  BY Bounds DEF Opens
<1>2. /\ f \in Drafts /\ f.expires = n /\ f.space = d.space /\ f.date = d.date
      /\ f.slot = d.slot /\ f.by = d.by
  BY <1>1 DEF Drafts
<1> HIDE DEF f
<1>3. /\ e \in Contexts /\ e.draft = f
      /\ e.results = c.results /\ e.selected = c.selected /\ e.listed = c.listed
      /\ e.lastBooking = c.lastBooking /\ e.ticket = c.ticket
  BY <1>2 DEF Contexts
<1>4. e = SetPendingBooking(c, d)
  BY DEF SetPendingBooking, f
<1> HIDE DEF e, o
<1>5. Remembers(e, id, r)
  BY <1>3 DEF Remembers, Chosen, Mentions, OfOneProblem
<1>6. TakenBetween(f, s, t) /\ ~Complete(f)
  BY <1>2 DEF TakenBetween, Complete
<1>7. OfRequest(e, o, t)
  BY <1>1, <1>2, <1>3, <1>6 DEF OfRequest
<1>8. QED
  BY <1>3, <1>4, <1>5, <1>7 DEF o

\* A space that is chosen is one of the results, or named by its id.
LEMMA Choosing ==
  ASSUME NEW c \in Contexts, NEW id, NEW t, Remembers(c, id, t), NEW ref \in Refs
  PROVE  /\ ResolveSpace(c, ref).space \in {NULL} \cup Spaces
         /\ ResolveSpace(c, ref).ctx \in Contexts
         /\ ResolveSpace(c, ref).ctx.draft = c.draft
         /\ Remembers(ResolveSpace(c, ref).ctx, id, t)
<1> DEFINE f == ResolveSpace(c, ref)
<1>1. CASE ref[1] = "id"
  <2>1. ref \in {"id"} \X Spaces
    BY <1>1 DEF Refs, NoRef
  <2>2. f = [space |-> ref[2], ctx |-> c]
    BY <1>1 DEF ResolveSpace
  <2>3. QED
    BY <2>1, <2>2
<1>2. CASE ref[1] = "rank"
  <2>1. ref \in {"rank"} \X (1..5)
    BY <1>2 DEF Refs, NoRef
  <2>2. f = ResolveSpaceRank(c, ref[2])
    BY <1>2 DEF ResolveSpace
  <2> DEFINE k == ref[2]
             p == c.results.spaces[k]
             e == [c EXCEPT !.selected = p]
  <2>3. k \in 1..5
    BY <2>1
  <2>4. CASE SearchIsExpired(c) \/ k > Len(c.results.spaces)
    BY <2>2, <2>4 DEF ResolveSpaceRank
  <2>5. CASE ~(SearchIsExpired(c) \/ k > Len(c.results.spaces))
    <3>1. c.results \in Results /\ c.results # NULL
      BY <2>5 DEF SearchIsExpired, Contexts
    <3>2. c.results.spaces \in Seq(Spaces) /\ k \in DOMAIN c.results.spaces
      BY <2>3, <2>5, <3>1 DEF Results
    <3>3. p \in Spaces /\ p \in ToSet(c.results.spaces)
      BY <3>2 DEF ToSet
    <3>4. f = [space |-> p, ctx |-> e]
      BY <2>2, <2>5 DEF ResolveSpaceRank
    <3> HIDE DEF p
    <3>5. /\ e \in Contexts /\ e.draft = c.draft /\ e.results = c.results /\ e.selected = p
          /\ e.listed = c.listed /\ e.lastBooking = c.lastBooking /\ e.ticket = c.ticket
      BY <3>3 DEF Contexts
    <3> HIDE DEF e
    <3>6. Remembers(e, id, t)
      BY <3>1, <3>3, <3>5 DEF Remembers, Chosen, Mentions, OfOneProblem
    <3>7. f.space = p /\ f.ctx = e
      BY <3>4
    <3>8. QED
      BY <3>3, <3>5, <3>6, <3>7
  <2>6. QED
    BY <2>4, <2>5
<1>3. CASE ref[1] \notin {"id", "rank"}
  <2> DEFINE q == IF c.selected # NULL THEN c.selected
                  ELSE IF c.results # NULL /\ Len(c.results.spaces) = 1
                       THEN c.results.spaces[1] ELSE NULL
  <2>1. f = [space |-> q, ctx |-> c]
    BY <1>3 DEF ResolveSpace
  <2>2. c.selected \in {NULL} \cup Spaces /\ (c.results # NULL => c.results.spaces \in Seq(Spaces))
    BY DEF Contexts, Results
  <2>3. q \in {NULL} \cup Spaces
    BY <2>2
  <2>4. QED
    BY <2>1, <2>3
<1>4. QED
  BY <1>1, <1>2, <1>3

(***************************************************************************)
(* A booking request                                                       *)
(***************************************************************************)
\* What a message or the planner tells is taken now; what it contradicts is
\* dropped.
LEMMA MergingTime ==
  ASSUME NEW d \in Drafts, NEW time, NEW s \in Turns, now \in Nat,
         time.date \in {NULL} \cup Nat, time.slot \in {NULL} \cup Slots,
         turns \in Turns, turns > 0, s <= turns, TakenBetween(d, s, turns)
  PROVE  MergeTime(d, time) \in Drafts /\ TakenBetween(MergeTime(d, time), s, turns)
<1> DEFINE date == IF time.date # NULL THEN time.date ELSE d.date
           day == ParseDate(date)
           dated == IF time.kind # "text" \/ time.date = NULL THEN d
                    ELSE [d EXCEPT !.date = date, !.by.date = turns, !.slot = NULL, !.by.slot = 0]
           told == [dated EXCEPT !.slot = time.slot, !.by.slot = turns, !.date = day,
                                 !.by.date = IF time.date # NULL \/ date = NULL THEN turns ELSE @]
<1>1. MergeTime(d, time) = IF ~UsableRange(time, day) THEN dated ELSE told
  BY DEF MergeTime
<1>2. /\ s \in Nat /\ turns \in Nat /\ 0 \in Turns
      /\ time.date \in {NULL} \cup Nat /\ time.slot \in {NULL} \cup Slots
  BY Bounds DEF Turns
<1>3. dated \in Drafts /\ TakenBetween(dated, s, turns)
  <2>1. CASE time.kind # "text" \/ time.date = NULL
    BY <2>1
  <2>2. CASE ~(time.kind # "text" \/ time.date = NULL)
    <3>1. /\ dated \in Drafts /\ dated.space = d.space /\ dated.slot = NULL
          /\ dated.by = [d.by EXCEPT !["date"] = turns, !["slot"] = 0]
      BY <1>2, <2>2 DEF Drafts
    <3> HIDE DEF dated
    <3>2. d.by \in [{"space", "date", "slot"} -> Turns]
      BY DEF Drafts
    <3>3. dated.by["space"] = d.by["space"] /\ dated.by["date"] = turns /\ dated.by["slot"] = 0
      BY <3>1, <3>2
    <3>4. QED
      BY <1>2, <3>1, <3>3 DEF TakenBetween
  <2>3. QED
    BY <2>1, <2>2
<1>4. ASSUME UsableRange(time, day)
      PROVE  told \in Drafts /\ TakenBetween(told, s, turns)
  <2>1. day \in Nat /\ time.slot \in Slots
    <3>1. date \in {NULL} \cup Nat
      BY <1>2 DEF Drafts
    <3>2. QED
      BY <1>2, <1>4, <3>1, TodayIsADate DEF UsableRange, ParseDate
  <2> HIDE DEF day, date, dated
  <2>2. dated.by \in [{"space", "date", "slot"} -> Turns] /\ dated \in Drafts
    BY <1>3 DEF Drafts
  <2>3. /\ told \in Drafts /\ told.space = dated.space /\ told.slot = time.slot
        /\ told.by = [dated.by EXCEPT !["slot"] = turns,
                                      !["date"] = IF time.date # NULL \/ date = NULL THEN turns ELSE @]
    BY <2>1, <2>2 DEF Drafts
  <2> HIDE DEF told
  <2>4. /\ told.by["space"] = dated.by["space"] /\ told.by["slot"] = turns
        /\ told.by["date"] \in {dated.by["date"], turns}
    BY <2>2, <2>3
  <2>5. TakenBetween(dated, s, turns)
    BY <1>3
  <2>6. QED
    BY <1>2, <2>2, <2>3, <2>4, <2>5, Bounds DEF TakenBetween
<1>5. QED
  BY <1>1, <1>3, <1>4

\* The window of a search is taken over now.
LEMMA InheritingTheWindow ==
  ASSUME NEW c \in Contexts, NEW d \in Drafts, NEW time, NEW ref, NEW s \in Turns,
         turns \in Turns, turns > 0, s <= turns, TakenBetween(d, s, turns)
  PROVE  /\ InheritWindow(c, d, time, ref) \in Drafts
         /\ TakenBetween(InheritWindow(c, d, time, ref), s, turns)
<1> DEFINE w == c.results.window
           e == [d EXCEPT !.date = w.date, !.slot = w.slot, !.by.date = turns, !.by.slot = turns]
<1>1. ASSUME InheritWindow(c, d, time, ref) # d
      PROVE  InheritWindow(c, d, time, ref) = e /\ w \in Periods
  <2>1. InheritWindow(c, d, time, ref) = e /\ c.results # NULL /\ w # NULL
    BY <1>1 DEF InheritWindow
  <2>2. c.results \in Results
    BY <2>1 DEF Contexts
  <2>3. QED
    BY <2>1, <2>2 DEF Results
<1>2. ASSUME w \in Periods
      PROVE  e \in Drafts /\ TakenBetween(e, s, turns)
  <2>1. w.date \in Nat /\ w.slot \in Slots
    BY <1>2 DEF Periods
  <2> HIDE DEF w
  <2>2. d.by \in [{"space", "date", "slot"} -> Turns]
    BY DEF Drafts
  <2>3. /\ e \in Drafts /\ e.space = d.space /\ e.slot = w.slot
        /\ e.by = [d.by EXCEPT !["date"] = turns, !["slot"] = turns]
    BY <2>1, <2>2 DEF Drafts
  <2> HIDE DEF e
  <2>4. e.by["space"] = d.by["space"] /\ e.by["date"] = turns /\ e.by["slot"] = turns
    BY <2>2, <2>3
  <2>5. s \in Nat /\ turns \in Nat
    BY Bounds
  <2>6. QED
    BY <2>3, <2>4, <2>5 DEF TakenBetween
<1>3. QED
  BY <1>1, <1>2

\* The space is put into the draft; it counts as told if the user referred to it.
LEMMA PlacingTheSpace ==
  ASSUME NEW d \in Drafts, NEW p \in {NULL} \cup Spaces, NEW s \in Turns,
         turns \in Turns, turns > 0, s <= turns, TakenBetween(d, s, turns)
  PROVE  LET e == [d EXCEPT !.space = p, !.by.space = IF p # NULL THEN turns ELSE 0]
         IN e \in Drafts /\ TakenBetween(e, s, turns)
<1> DEFINE b == IF p # NULL THEN turns ELSE 0
           e == [d EXCEPT !.space = p, !.by.space = b]
<1>1. s \in Nat /\ turns \in Nat /\ 0 \in Turns /\ b \in Turns
  BY Bounds DEF Turns
<1>2. d.by \in [{"space", "date", "slot"} -> Turns]
  BY DEF Drafts
<1>3. /\ e \in Drafts /\ e.space = p /\ e.slot = d.slot
      /\ e.by = [d.by EXCEPT !["space"] = b]
  BY <1>1, <1>2 DEF Drafts
<1> HIDE DEF e
<1>4. e.by["space"] = b /\ e.by["date"] = d.by["date"] /\ e.by["slot"] = d.by["slot"]
  BY <1>2, <1>3
<1>5. TakenBetween(e, s, turns)
  BY <1>1, <1>3, <1>4 DEF TakenBetween
<1>6. QED
  BY <1>3, <1>5 DEF e

(***************************************************************************)
(* The answers                                                             *)
(***************************************************************************)
\* The orchestration takes over a context that is of the request in progress.
LEMMA AnsweredKeeps ==
  ASSUME DeskInv, NEW c \in Contexts, NEW o \in {NULL} \cup Opens, NEW id,
         Answered(c), open' = o, named' = id, UNCHANGED <<now, topic, bookings, reported>>,
         turns' \in Turns, turns <= turns',
         OfRequest(c, o, turns'), Remembers(c, id, reported),
         screen' # NULL => Orderly(screen'.action),
         PartsOfOneRequest', TicketOfOneProblem',
         Asked("cancel_booking")' /\ screen'.action.how = "vague" => screen'.action.id = id
  PROVE  DeskInv'
<1>1. ctx' = c /\ turn' = NULL /\ ~Thinking'
  BY DEF Answered, Thinking
<1>2. DeskTypes'
  BY <1>1 DEF DeskInv, DeskTypes
<1>3. reported' \in 0..turns'
  BY Bounds DEF DeskInv, DeskTypes
<1>4. Asked("cancel_booking")' /\ screen'.action.how = "vague" => screen'.action.id = named'
  OBVIOUS
<1>5. QED
  BY <1>1, <1>2, <1>3, <1>4 DEF DeskInv

\* An answer that leaves nothing pending.
LEMMA ToldKeeps ==
  ASSUME DeskInv, NEW c \in Contexts, c.draft = NULL, Remembers(c, named, reported),
         screen = NULL, Told(c), UNCHANGED <<now, topic, bookings>>,
         turns' \in Turns, turns <= turns'
  PROVE  DeskInv'
<1>1. /\ Answered(c) /\ open' = NULL /\ UNCHANGED <<screen, named, reported>> /\ screen' = NULL
  BY DEF Told
<1>2. OfRequest(c, NULL, turns')
  BY NothingPending
<1>3. PartsOfOneRequest' /\ TicketOfOneProblem' /\ ~Asked("cancel_booking")'
  BY <1>1 DEF PartsOfOneRequest, TicketOfOneProblem, Asked
<1>4. QED
  BY <1>1, <1>2, <1>3, AnsweredKeeps

\* An answer about a booking, or about none or several.
LEMMA AboutKeeps ==
  ASSUME DeskInv, NEW c \in Contexts, c.draft = NULL, NEW id, Remembers(c, id, reported),
         screen = NULL, AboutBooking(c, id), UNCHANGED <<now, topic, bookings, turns>>
  PROVE  DeskInv'
<1>1. Answered(c) /\ open' = NULL /\ named' = id /\ UNCHANGED <<screen, reported>> /\ screen' = NULL
  BY DEF AboutBooking
<1>2. OfRequest(c, NULL, turns') /\ turns' \in Turns /\ turns <= turns'
  BY NothingPending, Bounds DEF DeskInv, DeskTypes
<1>3. PartsOfOneRequest' /\ TicketOfOneProblem' /\ ~Asked("cancel_booking")'
  BY <1>1 DEF PartsOfOneRequest, TicketOfOneProblem, Asked
<1>4. QED
  BY <1>1, <1>2, <1>3, AnsweredKeeps

\* A question the user may be asked.
LEMMA AsksKeeps ==
  ASSUME DeskInv, NEW c \in Contexts, c.draft = NULL, Remembers(c, named, reported),
         NEW a, Asks(c, a), UNCHANGED <<now, topic, bookings, turns>>,
         Orderly(a),
         a.tool = "create_booking" =>
           /\ a.by.space # 0 /\ a.by.slot >= a.by.date
           /\ \A p \in {"space", "date", "slot"} : a.by[p] = 0 \/ a.by[p] >= a.since,
         a.tool = "submit_maintenance_request" => \A p \in Parts : a.parts[p] > reported,
         a.tool = "cancel_booking" /\ a.how = "vague" => a.id = named
  PROVE  DeskInv'
<1>1. /\ Answered(c) /\ open' = NULL /\ UNCHANGED <<named, reported>>
      /\ screen'.action = a
  BY DEF Asks
<1>2. OfRequest(c, NULL, turns') /\ turns' \in Turns /\ turns <= turns'
  BY NothingPending, Bounds DEF DeskInv, DeskTypes
<1>3. PartsOfOneRequest' /\ TicketOfOneProblem'
  BY <1>1 DEF PartsOfOneRequest, TicketOfOneProblem, Asked
<1>4. Asked("cancel_booking")' /\ screen'.action.how = "vague" => screen'.action.id = named
  BY <1>1 DEF Asked
<1>5. QED
  BY <1>1, <1>2, <1>3, <1>4, AnsweredKeeps

\* What a call in progress works with.
LEMMA AtWork ==
  ASSUME DeskInv, Thinking
  PROVE  /\ turn.ctx \in Contexts /\ turn.open \in {NULL} \cup Opens /\ turn.msg \in Messages
         /\ OfRequest(turn.ctx, turn.open, turns) /\ Remembers(turn.ctx, named, reported)
         /\ turns \in Turns /\ turns \in Nat /\ turns > 0 /\ now \in Nat
         /\ reported \in Nat /\ reported < turns /\ screen = NULL
<1>1. /\ turn.ctx \in Contexts /\ turn.open \in {NULL} \cup Opens /\ turn.msg \in topic.messages
      /\ topic \in Topics /\ turns \in Turns /\ now \in 0..MaxTime
  BY DEF DeskInv, DeskTypes
<1>2. turn.msg \in Messages
  BY <1>1, ConversationAssumption
<1>3. turns \in Nat /\ now \in Nat
  BY <1>1, Bounds
<1>4. reported \in 0..turns /\ reported < turns /\ screen = NULL
  BY DEF DeskInv, Thinking
<1>5. OfRequest(turn.ctx, turn.open, turns) /\ Remembers(turn.ctx, named, reported)
  BY DEF DeskInv
<1>6. QED
  BY <1>1, <1>2, <1>3, <1>4, <1>5

\* The empty draft is a draft, and nothing it holds was told outside a period.
LEMMA NothingTold ==
  /\ NoDraft \in Drafts
  /\ \A t0 : \A t \in Nat : TakenBetween(NoDraft, t0, t)
<1>1. 0 \in Turns
  BY Bounds DEF Turns
<1>2. NoDraft \in Drafts
  BY <1>1 DEF NoDraft, Drafts
<1>3. /\ NoDraft.space = NULL /\ NoDraft.slot = NULL
      /\ \A p \in {"space", "date", "slot"} : NoDraft.by[p] = 0
  BY DEF NoDraft
<1>4. QED
  BY <1>2, <1>3 DEF TakenBetween

\* _book_space: whatever space and time the message adds to whatever draft is
\* still alive, the parts are of one request.
LEMMA BookSpacePreserves ==
  ASSUME DeskInv, Thinking, UNCHANGED <<now, topic, bookings, turns>>,
         NEW ref \in Refs, ref # NoRef => RefersToSpace(turn.msg), NEW free \in BOOLEAN,
         NEW time, time.date \in {NULL} \cup Nat, time.slot \in {NULL} \cup Slots,
         BookSpace(turn.ctx, turn.msg, ref, time, free, turn.open)
  PROVE  DeskInv'
<1> DEFINE m == turn.msg
           o == turn.open
           c1 == GetPendingBooking(turn.ctx)
           found == IF ref = NoRef THEN [space |-> NULL, ctx |-> c1] ELSE ResolveSpace(c1, ref)
           c == found.ctx
           old == IF c.draft = NULL THEN NoDraft ELSE c.draft
           placed == IF ref = NoRef THEN old
                     ELSE [old EXCEPT !.space = found.space,
                                      !.by.space = IF RefersToSpace(m) /\ found.space # NULL
                                                   THEN turns ELSE 0]
           merged == MergeTime(placed, time)
           d == InheritWindow(c, merged, time, ref)
           since == IF o # NULL /\ now < o.at + DraftTTL THEN o.since ELSE turns
<1>1. /\ c1 \in Contexts /\ Remembers(c1, named, reported) /\ OfRequest(c1, o, turns)
      /\ c1.draft # NULL => now < c1.draft.expires
  BY AtWork, Getting
<1>2. /\ c \in Contexts /\ Remembers(c, named, reported) /\ c.draft = c1.draft
      /\ found.space \in {NULL} \cup Spaces
  <2>1. CASE ref = NoRef
    BY <1>1, <2>1
  <2>2. CASE ref # NoRef
    <3> HIDE DEF c1
    <3>1. QED
      BY <1>1, <2>2, Choosing
  <2>3. QED
    BY <2>1, <2>2
<1>3. since \in Turns /\ since <= turns
  <2>1. turns \in Turns /\ turns \in Nat /\ o \in {NULL} \cup Opens
    BY AtWork
  <2>2. CASE o # NULL /\ now < o.at + DraftTTL
    <3>1. o.since \in Turns /\ since = o.since
      BY <2>1, <2>2 DEF Opens
    <3>2. o.since <= turns
      BY <2>2, AtWork DEF OfRequest
    <3>3. QED
      BY <3>1, <3>2
  <2>3. QED
    BY <2>1, <2>2
<1>4. old \in Drafts /\ TakenBetween(old, since, turns)
  <2>1. CASE c.draft = NULL
    <3>1. old = NoDraft /\ turns \in Nat
      BY <2>1, AtWork
    <3> HIDE DEF old
    <3>2. QED
      BY <3>1, NothingTold
  <2>2. CASE c.draft # NULL
    <3>1. old = c1.draft /\ c1.draft # NULL /\ now < c1.draft.expires
      BY <1>1, <1>2, <2>2
    <3>2. /\ o # NULL /\ c1.draft.expires = o.at + DraftTTL
          /\ TakenBetween(c1.draft, o.since, turns)
      BY <1>1, <3>1 DEF OfRequest
    <3>3. since = o.since
      BY <3>1, <3>2
    <3>4. c1.draft \in Drafts
      BY <1>1, <3>1 DEF Contexts
    <3>5. QED
      BY <3>1, <3>2, <3>3, <3>4
  <2>3. QED
    BY <2>1, <2>2
<1>5. BookSpace(turn.ctx, turn.msg, ref, time, free, turn.open) =
        IF ~Complete(d)
        THEN /\ Answered(SetPendingBooking(c, d))
             /\ open' = [since |-> since, at |-> now]
             /\ UNCHANGED <<screen, stored, named, reported>>
        ELSE IF ~free THEN Told(ClearPendingBooking(c))
        ELSE Asks(ClearPendingBooking(c),
                  [tool |-> "create_booking", space |-> d.space, date |-> d.date, slot |-> d.slot,
                   by |-> d.by, since |-> since])
  BY Zenon DEF BookSpace
<1> HIDE DEF c1, c, old, since
<1>6. placed \in Drafts /\ TakenBetween(placed, since, turns)
  <2>1. CASE ref = NoRef
    BY <1>4, <2>1
  <2>2. CASE ref # NoRef
    <3> DEFINE p == found.space
    <3>1. placed = [old EXCEPT !.space = p, !.by.space = IF p # NULL THEN turns ELSE 0]
      BY <2>2
    <3>2. p \in {NULL} \cup Spaces
      BY <1>2
    <3> HIDE DEF p
    <3>3. QED
      BY <1>3, <1>4, <3>1, <3>2, AtWork, PlacingTheSpace
  <2>3. QED
    BY <2>1, <2>2
<1> HIDE DEF placed
<1>7. merged \in Drafts /\ TakenBetween(merged, since, turns)
  BY <1>3, <1>6, AtWork, MergingTime
<1> HIDE DEF merged
<1>8. d \in Drafts /\ TakenBetween(d, since, turns)
  BY <1>2, <1>3, <1>7, AtWork, InheritingTheWindow
<1> HIDE DEF d, found, m, o
<1>9. CASE ~Complete(d)
  <2> DEFINE e == SetPendingBooking(c, d)
             q == [since |-> since, at |-> now]
  <2>1. /\ e \in Contexts /\ Remembers(e, named, reported) /\ OfRequest(e, q, turns)
    BY <1>2, <1>3, <1>8, <1>9, AtWork, Setting
  <2>2. q \in Opens
    BY <1>3, AtWork DEF Opens
  <2>3. Answered(e) /\ open' = q /\ UNCHANGED <<screen, stored, named, reported>>
    BY <1>5, <1>9
  <2>4. screen' = NULL /\ turns' \in Turns /\ turns <= turns'
    BY <2>3, AtWork
  <2>5. PartsOfOneRequest' /\ TicketOfOneProblem' /\ ~Asked("cancel_booking")'
    BY <2>4 DEF PartsOfOneRequest, TicketOfOneProblem, Asked
  <2> HIDE DEF e, q
  <2>6. QED
    BY <2>1, <2>2, <2>3, <2>4, <2>5, AnsweredKeeps
<1> DEFINE e == ClearPendingBooking(c)
<1>10. e \in Contexts /\ e.draft = NULL /\ Remembers(e, named, reported)
  BY <1>2, Clearing
<1>11. CASE Complete(d) /\ ~free
  <2>1. Told(e)
    BY <1>5, <1>11
  <2> HIDE DEF e
  <2>2. QED
    BY <1>10, <2>1, AtWork, ToldKeeps
<1>12. CASE Complete(d) /\ free
  <2> DEFINE a == [tool |-> "create_booking", space |-> d.space, date |-> d.date,
                   slot |-> d.slot, by |-> d.by, since |-> since]
  <2>1. Asks(e, a)
    BY <1>5, <1>12
  <2>2. d.date \in Nat /\ d.slot \in Slots /\ d.space # NULL /\ d.slot # NULL
    BY <1>8, <1>12 DEF Complete, Drafts
  <2>3. Orderly(a)
    BY <2>2 DEF Orderly
  <2>4. /\ d.by.space # 0 /\ d.by.date <= d.by.slot
        /\ \A p \in {"space", "date", "slot"} : d.by[p] = 0 \/ since <= d.by[p]
    BY <1>8, <2>2 DEF TakenBetween
  <2>5. d.by \in [{"space", "date", "slot"} -> Nat] /\ since \in Nat
    BY <1>3, <1>8, Bounds DEF Drafts
  <2>6. a.tool = "create_booking" /\ a.by = d.by /\ a.since = since
    OBVIOUS
  <2> HIDE DEF a, e
  <2>7. /\ a.by.space # 0 /\ a.by.slot >= a.by.date
        /\ \A p \in {"space", "date", "slot"} : a.by[p] = 0 \/ a.by[p] >= a.since
    BY <2>4, <2>5, <2>6
  <2>8. QED
    BY <1>10, <2>1, <2>3, <2>6, <2>7, AsksKeeps
<1>13. QED
  BY <1>9, <1>11, <1>12

\* A message continues a draft with what it refers to itself.
LEMMA ContinuePreserves ==
  ASSUME DeskInv, Continue
  PROVE  DeskInv'
<1> DEFINE ref == IF GivesReference(turn.msg) THEN turn.msg.ref ELSE NoRef
<1>1. Thinking /\ UNCHANGED <<now, topic, bookings, turns>>
  BY DEF Continue, Processing, Thinking
<1>2. PICK free \in BOOLEAN :
        BookSpace(turn.ctx, turn.msg, ref, TimeOf(turn.msg), free, turn.open)
  BY DEF Continue
<1>3. ref \in Refs
  BY <1>1, AtWork DEF Messages, Refs
<1>4. ref # NoRef => RefersToSpace(turn.msg)
  BY DEF RefersToSpace
<1> HIDE DEF ref
<1> DEFINE time == TimeOf(turn.msg)
<1>5. time.date \in {NULL} \cup Nat /\ time.slot \in {NULL} \cup Slots
  BY <1>1, AtWork DEF Messages, TimeOf, NoTime
<1> HIDE DEF time
<1>6. QED
  BY <1>1, <1>2, <1>3, <1>4, <1>5, BookSpacePreserves DEF time

\* What the planner may name.
LEMMA Planned ==
  ASSUME DeskInv
  PROVE  /\ topic.refs \subseteq Refs
         /\ \A time \in topic.times :
              time.date \in {NULL} \cup Nat /\ time.slot \in {NULL} \cup Slots
<1>1. topic.refs \subseteq PlannerRefs /\ topic.times \subseteq PlannerTimes
  BY ConversationAssumption DEF DeskInv, DeskTypes
<1>2. PlannerRefs \subseteq Refs
  BY DEF PlannerRefs, Refs
<1>3. \A time \in PlannerTimes :
        time.date \in {NULL} \cup Nat /\ time.slot \in {NULL} \cup Slots
  BY DEF PlannerTimes, NoTime
<1>4. QED
  BY <1>1, <1>2, <1>3

\* The planner's space counts only where the message refers to one.
LEMMA PlanBookingPreserves ==
  ASSUME DeskInv, PlanBooking
  PROVE  DeskInv'
<1>1. Thinking /\ UNCHANGED <<now, topic, bookings, turns>>
  BY DEF PlanBooking, Processing, Thinking
<1>2. PICK guess \in topic.refs, time \in topic.times, free \in BOOLEAN :
        BookSpace(turn.ctx, turn.msg, PlannedRef(turn.ctx, turn.msg, guess), time, free, turn.open)
  BY DEF PlanBooking
<1> DEFINE ref == PlannedRef(turn.ctx, turn.msg, guess)
<1>3. guess \in Refs /\ NoRef \in Refs
  BY Planned DEF Refs
<1>4. turn.msg.ref \in Refs
  BY <1>1, AtWork DEF Messages
<1>5. GivesReference(turn.msg) => RefersToSpace(turn.msg)
  BY DEF GivesReference, RefersToSpace, NoRef
<1>6. ref \in Refs /\ (ref # NoRef => RefersToSpace(turn.msg))
  BY <1>3, <1>4, <1>5 DEF PlannedRef
<1> HIDE DEF ref
<1>7. QED
  BY <1>1, <1>2, <1>6, Planned, BookSpacePreserves DEF ref

(***************************************************************************)
(* The other intents                                                       *)
(***************************************************************************)
\* Every other intent starts from a context without a draft.
LEMMA ClearedContext ==
  ASSUME DeskInv, Thinking
  PROVE  Cleared \in Contexts /\ Cleared.draft = NULL /\ Remembers(Cleared, named, reported)
  BY AtWork, Clearing DEF Cleared

\* What an answer tells of the turn.
LEMMA TellsAtWork ==
  ASSUME DeskInv, Thinking, UNCHANGED <<now, topic, bookings, turns>>,
         NEW c \in Contexts, c.draft = NULL, Remembers(c, named, reported), Told(c)
  PROVE  DeskInv'
<1>1. screen = NULL /\ turns' \in Turns /\ turns <= turns'
  BY AtWork
<1>2. QED
  BY <1>1, ToldKeeps

\* New results forget the space chosen among the old ones.
LEMMA Replacing ==
  ASSUME NEW c \in Contexts, c.draft = NULL, NEW id, NEW t, Remembers(c, id, t), now \in Nat,
         NEW list \in Seq(Spaces), NEW w \in {NULL} \cup Periods
  PROVE  LET e == ReplaceSearchResults(c, list, w)
         IN e \in Contexts /\ e.draft = NULL /\ Remembers(e, id, t)
<1> DEFINE n == now + SearchTTL
           f == [spaces |-> list, window |-> w, expires |-> n]
           e == [c EXCEPT !.results = f, !.selected = NULL]
<1>1. f \in Results
  BY Bounds DEF Results
<1> HIDE DEF f
<1>2. /\ e \in Contexts /\ e.draft = NULL /\ e.selected = NULL
      /\ e.listed = c.listed /\ e.lastBooking = c.lastBooking /\ e.ticket = c.ticket
  BY <1>1 DEF Contexts
<1> HIDE DEF e
<1>3. Remembers(e, id, t)
  BY <1>2 DEF Remembers, Chosen, Mentions, OfOneProblem
<1>4. QED
  BY <1>2, <1>3 DEF ReplaceSearchResults, e, f

LEMMA SearchPreserves ==
  ASSUME DeskInv, Thinking, UNCHANGED <<now, topic, bookings, turns>>,
         NEW list \in Lists, NEW time \in topic.times, SearchSpaces(Cleared, time, list)
  PROVE  DeskInv'
<1> DEFINE day == ParseDate(time.date)
           w == [date |-> day, slot |-> time.slot]
<1>1. list \in Seq(Spaces)
  BY ConversationAssumption
<1>2. now \in Nat
  BY AtWork
<1>3. day \in Nat /\ time.slot \in {NULL} \cup Slots
  BY <1>2, Planned, TodayIsADate DEF ParseDate
<1> HIDE DEF day
<1>4. CASE time = NoTime
  <2> DEFINE e == ReplaceSearchResults(Cleared, list, NULL)
  <2>1. Told(e)
    BY <1>4 DEF SearchSpaces
  <2>2. e \in Contexts /\ e.draft = NULL /\ Remembers(e, named, reported)
    BY <1>1, <1>2, ClearedContext, Replacing
  <2> HIDE DEF e
  <2>3. QED
    BY <2>1, <2>2, TellsAtWork
<1>5. CASE time # NoTime /\ ~UsableRange(time, day)
  <2>1. Told(Cleared)
    BY <1>5 DEF SearchSpaces, day
  <2>2. QED
    BY <2>1, ClearedContext, TellsAtWork
<1>6. CASE time # NoTime /\ UsableRange(time, day)
  <2> DEFINE e == ReplaceSearchResults(Cleared, list, w)
  <2>1. Told(e)
    BY <1>6 DEF SearchSpaces, day
  <2>2. w \in Periods
    BY <1>3, <1>6 DEF UsableRange, Periods
  <2> HIDE DEF w
  <2>3. e \in Contexts /\ e.draft = NULL /\ Remembers(e, named, reported)
    BY <1>1, <1>2, <2>2, ClearedContext, Replacing
  <2> HIDE DEF e
  <2>4. QED
    BY <2>1, <2>3, TellsAtWork
<1>7. QED
  BY <1>4, <1>5, <1>6

LEMMA ConsultPreserves ==
  ASSUME DeskInv, Thinking, UNCHANGED <<now, topic, bookings, turns>>,
         NEW ref \in topic.refs, ConsultSpace(Cleared, ref)
  PROVE  DeskInv'
<1> DEFINE e == IF ref # NoRef THEN ResolveSpace(Cleared, ref).ctx ELSE Cleared
<1>1. Told(e)
  BY DEF ConsultSpace
<1>2. ref \in Refs
  BY Planned
<1>3. e \in Contexts /\ e.draft = NULL /\ Remembers(e, named, reported)
  BY <1>2, ClearedContext, Choosing
<1> HIDE DEF e
<1>4. QED
  BY <1>1, <1>3, TellsAtWork

\* A booking is remembered as the last one.
LEMMA Remembering ==
  ASSUME NEW c \in Contexts, NEW id \in Nat, NEW old, NEW t, Remembers(c, old, t)
  PROVE  /\ SetLastBooking(c, id) \in Contexts /\ SetLastBooking(c, id).draft = c.draft
         /\ Remembers(SetLastBooking(c, id), id, t)
<1> DEFINE e == [c EXCEPT !.lastBooking = id]
<1>1. /\ e \in Contexts /\ e.draft = c.draft /\ e.lastBooking = id
      /\ e.results = c.results /\ e.selected = c.selected /\ e.ticket = c.ticket
  BY DEF Contexts
<1>2. id # NULL
  BY Bounds
<1> HIDE DEF e
<1>3. Remembers(e, id, t)
  BY <1>1, <1>2 DEF Remembers, Chosen, Mentions, OfOneProblem
<1>4. QED
  BY <1>1, <1>3 DEF SetLastBooking, e

\* A list of several bookings leaves none to be "that booking".
LEMMA ListBookingsPreserves ==
  ASSUME DeskInv, Thinking, UNCHANGED <<now, topic, bookings, turns>>, ListBookings(Cleared)
  PROVE  DeskInv'
<1> DEFINE ids == [i \in DOMAIN bookings |-> i]
           id == IF Len(ids) = 1 THEN ids[1] ELSE NULL
           c == Cleared
           e == [c EXCEPT !.listed = ids, !.lastBooking = id]
<1>1. AboutBooking(e, id)
  BY DEF ListBookings, ReplaceBookingCandidates
<1>2. c \in Contexts /\ c.draft = NULL /\ Remembers(c, named, reported)
  BY ClearedContext
<1>3. ids \in Seq(Nat)
  <2>1. bookings \in Seq(Bookings)
    BY DEF DeskInv, DeskTypes
  <2>2. DOMAIN bookings = 1..Len(bookings) /\ Len(bookings) \in Nat
    BY <2>1
  <2>3. QED
    BY <2>2
<1> HIDE DEF c, ids
<1>4. id \in {NULL} \cup Nat /\ (id = NULL => Len(ids) # 1)
  <2>1. Len(ids) = 1 => ids[1] \in Nat
    BY <1>3, SMTT(30)
  <2>2. CASE Len(ids) = 1
    <3>1. id = ids[1] /\ id \in Nat
      BY <2>1, <2>2
    <3>2. NULL \notin Nat
      BY Bounds
    <3>3. QED
      BY <3>1, <3>2
  <2>3. CASE Len(ids) # 1
    BY <2>3
  <2>4. QED
    BY <2>2, <2>3
<1> HIDE DEF id
<1>5. /\ e \in Contexts /\ e.draft = NULL /\ e.listed = ids /\ e.lastBooking = id
      /\ e.results = c.results /\ e.selected = c.selected /\ e.ticket = c.ticket
  BY <1>2, <1>3, <1>4 DEF Contexts
<1> HIDE DEF e
<1>6. Remembers(e, id, reported)
  BY <1>2, <1>4, <1>5 DEF Remembers, Chosen, Mentions, OfOneProblem
<1>7. screen = NULL
  BY AtWork
<1>8. QED
  BY <1>1, <1>5, <1>6, <1>7, AboutKeeps

LEMMA BookingStatusPreserves ==
  ASSUME DeskInv, Thinking, UNCHANGED <<now, topic, bookings, turns>>,
         NEW i \in DOMAIN bookings, GetBookingStatus(Cleared, i)
  PROVE  DeskInv'
<1> DEFINE e == SetLastBooking(Cleared, i)
<1>1. bookings \in Seq(Bookings)
  BY DEF DeskInv, DeskTypes
<1>2. i \in Nat /\ i # NULL
  BY <1>1, Bounds
<1>3. AboutBooking(e, i)
  BY <1>2 DEF GetBookingStatus
<1>4. e \in Contexts /\ e.draft = NULL /\ Remembers(e, i, reported)
  BY <1>2, ClearedContext, Remembering
<1> HIDE DEF e
<1>5. screen = NULL
  BY AtWork
<1>6. QED
  BY <1>3, <1>4, <1>5, AboutKeeps

\* "That booking" is the one of the last answer.
LEMMA CancelPreserves ==
  ASSUME DeskInv, Thinking, UNCHANGED <<now, topic, bookings, turns>>,
         NEW id \in {NULL} \cup Nat, NEW how, how = "vague" => id \in {NULL, named},
         CancelBooking(Cleared, id, how)
  PROVE  DeskInv'
<1>1. CASE Told(Cleared)
  BY <1>1, ClearedContext, TellsAtWork
<1>2. CASE id # NULL /\ Asks(Cleared, [tool |-> "cancel_booking", id |-> id, how |-> how])
  <2> DEFINE a == [tool |-> "cancel_booking", id |-> id, how |-> how]
  <2>1. a.tool = "cancel_booking" /\ a.id = id /\ a.how = how /\ Orderly(a) /\ Asks(Cleared, a)
    BY <1>2 DEF Orderly
  <2> HIDE DEF a
  <2>2. QED
    BY <1>2, <2>1, ClearedContext, AsksKeeps
<1>3. QED
  BY <1>1, <1>2 DEF CancelBooking

LEMMA Resolving ==
  ASSUME DeskInv, Thinking, NEW ref \in {<<"vague">>, <<"rank", 1>>, <<"rank", 2>>}
  PROVE  /\ BookingRef(ref) \in {NULL} \cup Nat
         /\ ref[1] = "vague" => BookingRef(ref) \in {NULL, named}
<1> DEFINE c == Cleared
<1>1. c \in Contexts /\ Mentions(c, named)
  BY ClearedContext DEF Remembers
<1>2. c.listed \in Seq(Nat) /\ c.lastBooking \in {NULL} \cup Nat
  BY <1>1 DEF Contexts
<1>3. BookingRef(ref) = ResolveBookingReference(c, ref)
  BY DEF BookingRef
<1> HIDE DEF c
<1>4. CASE ref[1] = "rank"
  <2>1. ref[2] \in {1, 2}
    BY <1>4
  <2>2. QED
    BY <1>2, <1>3, <1>4, <2>1 DEF ResolveBookingReference
<1>5. CASE ref[1] # "rank"
  <2>1. c.lastBooking = NULL => Len(c.listed) # 1
    BY <1>1 DEF Mentions
  <2>2. ResolveBookingReference(c, ref) = c.lastBooking
    BY <1>5, <2>1 DEF ResolveBookingReference
  <2>3. c.lastBooking \in {NULL, named}
    BY <1>1 DEF Mentions
  <2>4. QED
    BY <1>2, <1>3, <2>2, <2>3
<1>6. QED
  BY <1>4, <1>5

\* What is told of a ticket is told after the last one was reported.
LEMMA SubmitMaintenancePreserves ==
  ASSUME DeskInv, Thinking, UNCHANGED <<now, topic, bookings, turns>>,
         NEW given \in SUBSET Parts, NEW ambiguous \in BOOLEAN,
         SubmitMaintenance(Cleared, given, ambiguous)
  PROVE  DeskInv'
<1> DEFINE c == Cleared
           merged == [p \in Parts |-> IF p \in given THEN turns ELSE c.ticket[p]]
           e == [c EXCEPT !.ticket = merged]
           a == [tool |-> "submit_maintenance_request", parts |-> merged]
<1>1. c \in Contexts /\ c.draft = NULL /\ Remembers(c, named, reported)
  BY ClearedContext
<1>2. \/ Told(e)
      \/ (\A p \in Parts : merged[p] # 0) /\ Asks(c, a)
  BY DEF SubmitMaintenance, SetPendingMaintenance
<1> HIDE DEF c
<1>3. c.ticket \in [Parts -> Turns] /\ turns \in Turns
  BY <1>1, AtWork DEF Contexts
<1>4. merged \in [Parts -> Turns]
  BY <1>3
<1>5. \A p \in Parts : merged[p] = 0 \/ reported < merged[p]
  <2>1. OfOneProblem(c, reported) /\ reported < turns
    BY <1>1, AtWork DEF Remembers
  <2>2. QED
    BY <2>1 DEF OfOneProblem
<1> HIDE DEF merged
<1>6. /\ e \in Contexts /\ e.draft = NULL /\ e.ticket = merged
      /\ e.results = c.results /\ e.selected = c.selected /\ e.listed = c.listed
      /\ e.lastBooking = c.lastBooking
  BY <1>1, <1>4 DEF Contexts
<1> HIDE DEF e
<1>7. CASE Told(e)
  <2>1. Remembers(e, named, reported)
    BY <1>1, <1>5, <1>6 DEF Remembers, Chosen, Mentions, OfOneProblem
  <2>2. QED
    BY <1>6, <1>7, <2>1, TellsAtWork
<1>8. CASE (\A p \in Parts : merged[p] # 0) /\ Asks(c, a)
  <2>1. a.tool = "submit_maintenance_request" /\ a.parts = merged /\ Orderly(a)
    BY DEF Orderly
  <2>2. \A p \in Parts : merged[p] > reported
    BY <1>3, <1>4, <1>5, <1>8, AtWork, Bounds
  <2> HIDE DEF a
  <2>3. QED
    BY <1>1, <1>8, <2>1, <2>2, AsksKeeps
<1>9. QED
  BY <1>2, <1>7, <1>8

\* The answers about tickets keep everything but the ticket they are about.
LEMMA TicketAnswersPreserve ==
  ASSUME DeskInv, Thinking, UNCHANGED <<now, topic, bookings, turns>>,
         ListMaintenance(Cleared) \/ GetMaintenanceStatus(Cleared, turn.ctx.lastTicket)
  PROVE  DeskInv'
<1> DEFINE c == Cleared
           id == turn.ctx.lastTicket
           f == [c EXCEPT !.lastTicket = 1]
           g == [c EXCEPT !.lastTicket = id, !.ticket = EmptyContext.ticket]
<1>1. c \in Contexts /\ c.draft = NULL /\ Remembers(c, named, reported)
  BY ClearedContext
<1>2. id \in {NULL} \cup Nat
  BY AtWork DEF Contexts
<1>3. EmptyContext.ticket = [p \in Parts |-> 0] /\ 0 \in Turns
  BY Bounds DEF EmptyContext, Turns
<1>4. Told(c) \/ Told(f) \/ Told(g)
  BY DEF ListMaintenance, GetMaintenanceStatus, SetLastTicket
<1> HIDE DEF c, id
<1>5. CASE Told(f)
  <2>1. /\ f \in Contexts /\ f.draft = NULL /\ f.ticket = c.ticket
        /\ f.results = c.results /\ f.selected = c.selected /\ f.listed = c.listed
        /\ f.lastBooking = c.lastBooking
    BY <1>1 DEF Contexts
  <2> HIDE DEF f
  <2>2. Remembers(f, named, reported)
    BY <1>1, <2>1 DEF Remembers, Chosen, Mentions, OfOneProblem
  <2>3. QED
    BY <1>5, <2>1, <2>2, TellsAtWork
<1>6. CASE Told(g)
  <2>1. /\ g \in Contexts /\ g.draft = NULL /\ g.ticket = [p \in Parts |-> 0]
        /\ g.results = c.results /\ g.selected = c.selected /\ g.listed = c.listed
        /\ g.lastBooking = c.lastBooking
    BY <1>1, <1>2, <1>3 DEF Contexts
  <2> HIDE DEF g
  <2>2. Remembers(g, named, reported)
    BY <1>1, <2>1 DEF Remembers, Chosen, Mentions, OfOneProblem
  <2>3. QED
    BY <1>6, <2>1, <2>2, TellsAtWork
<1>7. QED
  BY <1>1, <1>4, <1>5, <1>6, TellsAtWork

LEMMA PlanOtherPreserves ==
  ASSUME DeskInv, PlanOther
  PROVE  DeskInv'
<1>1. Thinking /\ UNCHANGED <<now, topic, bookings, turns>>
  BY DEF PlanOther, Handles, Processing, Thinking
<1>2. CASE \E time \in topic.times, list \in Lists : SearchSpaces(Cleared, time, list)
  BY <1>1, <1>2, SearchPreserves
<1>3. CASE \E ref \in topic.refs : ConsultSpace(Cleared, ref)
  BY <1>1, <1>3, ConsultPreserves
<1>4. CASE ListBookings(Cleared)
  BY <1>1, <1>4, ListBookingsPreserves
<1>5. CASE \E i \in DOMAIN bookings : GetBookingStatus(Cleared, i)
  BY <1>1, <1>5, BookingStatusPreserves
<1>6. CASE \E i \in DOMAIN bookings : CancelBooking(Cleared, i, "id")
  <2>1. PICK i \in DOMAIN bookings : CancelBooking(Cleared, i, "id")
    BY <1>6
  <2>2. bookings \in Seq(Bookings)
    BY DEF DeskInv, DeskTypes
  <2>3. i \in Nat
    BY <2>2
  <2>4. QED
    BY <1>1, <2>1, <2>3, CancelPreserves
<1>7. CASE \E ref \in {<<"vague">>, <<"rank", 1>>, <<"rank", 2>>} :
             CancelBooking(Cleared, BookingRef(ref), ref[1])
  <2>1. PICK ref \in {<<"vague">>, <<"rank", 1>>, <<"rank", 2>>} :
          CancelBooking(Cleared, BookingRef(ref), ref[1])
    BY <1>7
  <2> DEFINE id == BookingRef(ref)
             how == ref[1]
  <2>2. id \in {NULL} \cup Nat /\ (how = "vague" => id \in {NULL, named})
    BY <1>1, Resolving
  <2>3. CancelBooking(Cleared, id, how)
    BY <2>1
  <2> HIDE DEF id, how
  <2>4. QED
    BY <1>1, <2>2, <2>3, CancelPreserves
<1>8. CASE \E given \in SUBSET Parts, ambiguous \in BOOLEAN :
             SubmitMaintenance(Cleared, given, ambiguous)
  BY <1>1, <1>8, SubmitMaintenancePreserves
<1>9. CASE ListMaintenance(Cleared) \/ GetMaintenanceStatus(Cleared, turn.ctx.lastTicket)
  BY <1>1, <1>9, TicketAnswersPreserve
<1>10. CASE Told(Cleared)
  BY <1>1, <1>10, ClearedContext, TellsAtWork
<1>11. QED
  BY <1>2, <1>3, <1>4, <1>5, <1>6, <1>7, <1>8, <1>9, <1>10 DEF PlanOther

(***************************************************************************)
(* Messages, confirmations and calls                                       *)
(***************************************************************************)
\* An abandonment in the turn before ends the draft together with its request.
LEMMA SayPreserves ==
  ASSUME DeskInv, NEW m \in topic.messages, Say(m)
  PROVE  DeskInv'
<1> DEFINE heard == IF gaveUp THEN ClearPendingBooking(ctx) ELSE ctx
           c == GetPendingBooking(heard)
           o == IF gaveUp THEN NULL ELSE open
           n == turns + 1
           call == [pc |-> IF c.draft # NULL /\ IsBookingContinuation(m)
                           THEN "continuing" ELSE "planning",
                    msg |-> m, ctx |-> c, open |-> o]
<1>1. /\ ctx \in Contexts /\ open \in {NULL} \cup Opens /\ turns \in Turns /\ now \in 0..MaxTime
      /\ OfRequest(ctx, open, turns) /\ Remembers(ctx, named, reported) /\ reported \in 0..turns
  BY DEF DeskInv, DeskTypes
<1>2. /\ turn = NULL /\ screen = NULL /\ turns < MaxTurns /\ turns' = n
      /\ UNCHANGED <<now, topic, bookings>>
  BY DEF Say
<1>3. now \in Nat /\ turns \in Nat /\ n \in Turns /\ turns < n /\ MaxTurns \in Nat
  BY <1>1, <1>2, Bounds DEF Turns
<1>4. OfRequest(ctx, open, n)
  <2>1. CASE open = NULL
    BY <1>1, <2>1 DEF OfRequest
  <2>2. CASE open # NULL
    <3>1. open.since \in Nat /\ open.since <= turns
      BY <1>1, <2>2, Bounds DEF OfRequest, Opens
    <3>2. CASE ctx.draft = NULL
      BY <1>3, <3>1, <3>2 DEF OfRequest
    <3>3. CASE ctx.draft # NULL
      <4>1. ctx.draft \in Drafts
        BY <1>1, <3>3 DEF Contexts
      <4>2. \A p \in {"space", "date", "slot"} : ctx.draft.by[p] \in Nat
        BY <4>1, Bounds DEF Drafts
      <4>3. TakenBetween(ctx.draft, open.since, n)
        BY <1>1, <1>3, <3>3, <4>2 DEF OfRequest, TakenBetween
      <4>4. QED
        BY <1>1, <1>3, <3>1, <3>3, <4>3 DEF OfRequest
    <3>4. QED
      BY <3>2, <3>3
  <2>3. QED
    BY <2>1, <2>2
<1>5. heard \in Contexts /\ Remembers(heard, named, reported) /\ OfRequest(heard, o, n)
  BY <1>1, <1>4, Clearing, NothingPending
<1> HIDE DEF heard
<1>6. c \in Contexts /\ Remembers(c, named, reported) /\ OfRequest(c, o, n)
  BY <1>3, <1>5, Getting
<1>7. o \in {NULL} \cup Opens
  BY <1>1
<1>8. \/ Told(ClearPendingBooking(c))
      \/ turn' = call /\ UNCHANGED <<ctx, screen, stored, open, named, reported>>
  BY Zenon DEF Say, heard
<1> HIDE DEF c, o
<1>9. CASE Told(ClearPendingBooking(c))
  <2> DEFINE e == ClearPendingBooking(c)
  <2>1. e \in Contexts /\ e.draft = NULL /\ Remembers(e, named, reported)
    BY <1>6, Clearing
  <2>2. Told(e) /\ turns' \in Turns /\ turns <= turns'
    BY <1>2, <1>3, <1>9
  <2> HIDE DEF e
  <2>3. QED
    BY <1>2, <2>1, <2>2, ToldKeeps
<1>10. CASE turn' = call /\ UNCHANGED <<ctx, screen, stored, open, named, reported>>
  <2>1. /\ call.pc \in {"planning", "continuing"} /\ call.msg = m /\ call.ctx = c /\ call.open = o
    OBVIOUS
  <2> HIDE DEF call, n
  <2>2. /\ turn'.pc \in {"planning", "continuing"} /\ turn'.msg \in topic'.messages
        /\ turn'.ctx = c /\ turn'.open = o
    BY <1>2, <1>10, <2>1
  <2>3. DeskTypes'
    BY <1>2, <1>3, <1>6, <1>7, <1>10, <2>2 DEF DeskInv, DeskTypes
  <2>4. reported' \in 0..turns' /\ reported' < turns'
    <3>1. reported' = reported /\ turns' = n
      BY <1>2, <1>10
    <3>2. reported \in 0..turns /\ turns \in Nat /\ n \in Nat /\ turns < n
      BY <1>1, <1>3, Bounds
    <3>3. reported \in 0..n /\ reported < n
      BY <3>2
    <3>4. QED
      BY <3>1, <3>3
  <2>5. OfRequest(ctx', open', turns') /\ Remembers(ctx', named', reported')
    BY <1>1, <1>2, <1>4, <1>10
  <2>6. OfRequest(turn'.ctx, turn'.open, turns') /\ Remembers(turn'.ctx, named', reported')
    BY <1>2, <1>6, <1>10, <2>2
  <2>7. screen' = NULL /\ turn'.pc # "calling"
    BY <1>2, <1>10, <2>2
  <2>8. PartsOfOneRequest' /\ TicketOfOneProblem' /\ ~Asked("cancel_booking")'
    BY <2>7 DEF PartsOfOneRequest, TicketOfOneProblem, Asked
  <2>9. QED
    BY <2>3, <2>4, <2>5, <2>6, <2>7, <2>8 DEF DeskInv
<1>11. QED
  BY <1>8, <1>9, <1>10

\* A message to another agent, a failure or a decision of the user leaves the
\* context as it was.
LEMMA ContextKept ==
  ASSUME DeskInv, UNCHANGED <<topic, ctx, bookings, open, named, reported>>,
         now' \in 0..MaxTime, turns' \in Turns, turns <= turns',
         \/ turn' = NULL
         \/ UNCHANGED <<turn, turns>>
         \/ (turn'.pc = "calling" /\ Orderly(turn'.call)),
         \/ screen' = NULL
         \/ (UNCHANGED screen /\ (turn' # NULL => turn # NULL))
  PROVE  DeskInv'
<1>1. /\ ctx \in Contexts /\ open \in {NULL} \cup Opens /\ turns \in Turns
      /\ OfRequest(ctx, open, turns) /\ Remembers(ctx, named, reported) /\ reported \in 0..turns
  BY DEF DeskInv, DeskTypes
<1>2. turns \in Nat /\ turns' \in Nat
  BY <1>1, Bounds
<1>3. OfRequest(ctx, open, turns')
  <2>1. open # NULL => open.since \in Nat
    BY <1>1, Bounds DEF Opens
  <2>2. ctx.draft # NULL => \A p \in {"space", "date", "slot"} : ctx.draft.by[p] \in Nat
    BY <1>1, Bounds DEF Contexts, Drafts
  <2>3. QED
    BY <1>1, <1>2, <2>1, <2>2 DEF OfRequest, TakenBetween
<1>4. Thinking' => Thinking /\ UNCHANGED <<turn, turns>>
  BY DEF Thinking
<1>5. DeskTypes'
  BY <1>4 DEF DeskInv, DeskTypes
<1>6. reported' \in 0..turns' /\ (Thinking' => reported' < turns')
  BY <1>1, <1>2, <1>4 DEF DeskInv
<1>7. OfRequest(ctx', open', turns') /\ Remembers(ctx', named', reported')
  BY <1>1, <1>3
<1>8. Thinking' =>
        OfRequest(turn'.ctx, turn'.open, turns') /\ Remembers(turn'.ctx, named', reported')
  BY <1>4 DEF DeskInv
<1>9. /\ turn' # NULL => screen' = NULL
      /\ turn' # NULL /\ turn'.pc = "calling" => Orderly(turn'.call)
      /\ screen' # NULL => Orderly(screen'.action)
  BY DEF DeskInv
<1>10. /\ PartsOfOneRequest' /\ TicketOfOneProblem'
       /\ Asked("cancel_booking")' /\ screen'.action.how = "vague" => screen'.action.id = named'
  <2>1. CASE screen' = NULL
    BY <2>1 DEF PartsOfOneRequest, TicketOfOneProblem, Asked
  <2>2. CASE UNCHANGED screen
    BY <2>2 DEF DeskInv, PartsOfOneRequest, TicketOfOneProblem, Asked
  <2>3. QED
    BY <2>1, <2>2
<1>11. QED
  BY <1>5, <1>6, <1>7, <1>8, <1>9, <1>10 DEF DeskInv

LEMMA QuietStepPreserves ==
  ASSUME DeskInv,
         \/ \E m \in topic.messages : SayElsewhere(m)
         \/ TurnFails \/ Confirm \/ Cancel \/ Tick \/ Restart \/ AdminStep
  PROVE  DeskInv'
<1>1. now \in 0..MaxTime /\ turns \in 0..MaxTurns /\ MaxTime \in Nat /\ MaxTurns \in Nat
  BY Bounds DEF DeskInv, DeskTypes, Turns
<1>2. UNCHANGED turns => turns' \in Turns /\ turns <= turns'
  BY <1>1 DEF Turns
<1>3. CASE \E m \in topic.messages : SayElsewhere(m)
  <2>1. /\ turn' = NULL /\ screen' = NULL /\ turns' = turns + 1 /\ turns < MaxTurns
        /\ UNCHANGED <<now, topic, ctx, bookings, open, named, reported>>
    BY <1>3 DEF SayElsewhere
  <2>2. turns' \in Turns /\ turns <= turns'
    BY <1>1, <2>1 DEF Turns
  <2>3. QED
    BY <1>1, <2>1, <2>2, ContextKept
<1>4. CASE TurnFails
  BY <1>1, <1>2, <1>4, ContextKept DEF TurnFails, Failed, Answered
<1>5. CASE Confirm
  <2>1. screen # NULL => Orderly(screen.action)
    BY DEF DeskInv
  <2>2. /\ UNCHANGED <<now, topic, ctx, bookings, turns, open, named, reported>> /\ screen' = NULL
        /\ turn' = NULL \/ (turn'.pc = "calling" /\ Orderly(turn'.call))
    BY <1>5, <2>1 DEF Confirm
  <2>3. QED
    BY <1>1, <1>2, <2>2, ContextKept
<1>6. CASE Cancel
  BY <1>1, <1>2, <1>6, ContextKept DEF Cancel
<1>7. CASE Tick
  BY <1>1, <1>2, <1>7, ContextKept DEF Tick, desk
<1>8. CASE Restart \/ AdminStep
  BY <1>1, <1>2, <1>8, ContextKept DEF Restart, AdminStep, desk
<1>9. QED
  BY <1>3, <1>4, <1>5, <1>6, <1>7, <1>8

\* The answer of a call that was made, or its loss.
LEMMA CarriedKeeps ==
  ASSUME DeskInv, turn # NULL, NEW c \in Contexts, c.draft = ctx.draft, NEW id, NEW t,
         Carried(c, id, t), Remembers(c, id, t), t \in {reported, turns},
         bookings' \in Seq(Bookings)
  PROVE  DeskInv'
<1>1. /\ turn' = NULL /\ screen' = NULL /\ UNCHANGED <<now, topic, turns, open>>
      /\ \/ ctx' = c /\ named' = id /\ reported' = t
         \/ UNCHANGED <<ctx, named, reported>>
  BY DEF Carried, DeskInv
<1>2. /\ ctx \in Contexts /\ turns \in Turns /\ OfRequest(ctx, open, turns)
      /\ Remembers(ctx, named, reported) /\ reported \in 0..turns
  BY DEF DeskInv, DeskTypes
<1>3. OfRequest(c, open, turns)
  BY <1>2 DEF OfRequest
<1>4. OfRequest(ctx', open', turns') /\ Remembers(ctx', named', reported')
  BY <1>1, <1>2, <1>3
<1>5. DeskTypes' /\ ~Thinking'
  BY <1>1 DEF DeskInv, DeskTypes, Thinking
<1>6. turns \in Nat /\ reported' \in 0..turns'
  BY <1>1, <1>2, Bounds
<1>7. PartsOfOneRequest' /\ TicketOfOneProblem' /\ ~Asked("cancel_booking")'
  BY <1>1 DEF PartsOfOneRequest, TicketOfOneProblem, Asked
<1>8. QED
  BY <1>1, <1>4, <1>5, <1>6, <1>7 DEF DeskInv

LEMMA CallCreatePreserves ==
  ASSUME DeskInv, CallCreate
  PROVE  DeskInv'
<1> DEFINE n == Len(bookings) + 1
           b == [date |-> turn.call.date, slot |-> turn.call.slot, status |-> "CONFIRMED"]
           c == SetLastBooking(ctx, n)
<1>1. /\ ctx \in Contexts /\ Remembers(ctx, named, reported) /\ bookings \in Seq(Bookings)
  BY DEF DeskInv, DeskTypes
<1>2. turn # NULL /\ turn.pc = "calling" /\ turn.call.tool = "create_booking"
  BY DEF CallCreate, Calling
<1>3. turn.call.date \in Nat /\ turn.call.slot \in Slots
  BY <1>2 DEF DeskInv, Orderly
<1>4. b \in Bookings /\ n \in Nat
  BY <1>1, <1>3 DEF Bookings
<1>5. bookings' = Append(bookings, b) /\ Carried(c, n, reported)
  BY DEF CallCreate
<1> HIDE DEF b, n
<1>6. bookings' \in Seq(Bookings)
  BY <1>1, <1>4, <1>5
<1>7. c \in Contexts /\ c.draft = ctx.draft /\ Remembers(c, n, reported)
  BY <1>1, <1>4, Remembering
<1> HIDE DEF c
<1>8. QED
  BY <1>2, <1>5, <1>6, <1>7, CarriedKeeps

LEMMA CallCancelPreserves ==
  ASSUME DeskInv, CallCancel
  PROVE  DeskInv'
<1> DEFINE id == turn.call.id
           c == SetLastBooking(ctx, id)
<1>1. /\ ctx \in Contexts /\ Remembers(ctx, named, reported) /\ bookings \in Seq(Bookings)
  BY DEF DeskInv, DeskTypes
<1>2. turn # NULL /\ turn.pc = "calling" /\ turn.call.tool = "cancel_booking"
  BY DEF CallCancel, Calling
<1>3. id \in Nat
  BY <1>2 DEF DeskInv, Orderly
<1>4. bookings' = [bookings EXCEPT ![id].status = "CANCELLED"] /\ Carried(c, id, reported)
  BY DEF CallCancel
<1> HIDE DEF id
<1>5. bookings' \in Seq(Bookings)
  <2>1. /\ \A i \in DOMAIN bookings : bookings[i] \in Bookings
        /\ DOMAIN bookings = 1..Len(bookings) /\ Len(bookings) \in Nat
    BY <1>1
  <2>2. DOMAIN bookings' = 1..Len(bookings)
    BY <1>4, <2>1
  <2>3. \A i \in DOMAIN bookings :
          bookings'[i] = IF i = id THEN [bookings[i] EXCEPT !.status = "CANCELLED"] ELSE bookings[i]
    BY <1>4
  <2>4. \A i \in DOMAIN bookings : bookings'[i] \in Bookings
    BY <2>1, <2>3 DEF Bookings
  <2>5. bookings' \in [1..Len(bookings) -> Bookings]
    BY <1>4, <2>1, <2>2, <2>4
  <2>6. QED
    BY <2>1, <2>5
<1>6. c \in Contexts /\ c.draft = ctx.draft /\ Remembers(c, id, reported)
  BY <1>1, <1>3, Remembering
<1> HIDE DEF c
<1>7. QED
  BY <1>2, <1>4, <1>5, <1>6, CarriedKeeps

\* A reported ticket takes its details with it.
LEMMA CallSubmitPreserves ==
  ASSUME DeskInv, TypeOK, CallSubmit
  PROVE  DeskInv'
<1> DEFINE n == Len(status) + 1
           c == SetLastTicket(ctx, n)
<1>1. /\ ctx \in Contexts /\ Remembers(ctx, named, reported) /\ bookings \in Seq(Bookings)
      /\ status \in Seq(Status)
  BY DEF DeskInv, DeskTypes, TypeOK
<1>2. turn # NULL /\ UNCHANGED bookings /\ Carried(c, named, turns)
  BY DEF CallSubmit, Calling
<1>3. n \in Nat
  BY <1>1
<1>4. EmptyContext.ticket = [p \in Parts |-> 0] /\ 0 \in Turns
  BY Bounds DEF EmptyContext, Turns
<1> HIDE DEF n
<1>5. /\ c \in Contexts /\ c.draft = ctx.draft /\ c.ticket = [p \in Parts |-> 0]
      /\ c.results = ctx.results /\ c.selected = ctx.selected /\ c.listed = ctx.listed
      /\ c.lastBooking = ctx.lastBooking
  BY <1>1, <1>3, <1>4 DEF Contexts, SetLastTicket
<1> HIDE DEF c
<1>6. Remembers(c, named, turns)
  BY <1>1, <1>5 DEF Remembers, Chosen, Mentions, OfOneProblem
<1>7. QED
  BY <1>1, <1>2, <1>5, <1>6, CarriedKeeps

(***************************************************************************)
(* What the conversation keeps                                             *)
(***************************************************************************)
LEMMA DeskInitEstablishes == DeskInit => DeskInv
<1> SUFFICES ASSUME DeskInit PROVE DeskInv
  OBVIOUS
<1>1. /\ now = 0 /\ topic \in Topics /\ ctx = EmptyContext /\ turn = NULL /\ screen = NULL
      /\ bookings = <<>> /\ turns = 0 /\ open = NULL /\ reported = 0
  BY DEF DeskInit
<1>2. 0 \in Turns /\ 0 \in 0..MaxTime
  BY Bounds DEF Turns
<1>3. EmptyContext \in Contexts
  BY <1>2 DEF EmptyContext, Contexts
<1>4. DeskTypes /\ ~Thinking
  BY <1>1, <1>2, <1>3 DEF DeskTypes, Thinking
<1>5. OfRequest(ctx, open, turns) /\ Remembers(ctx, named, reported)
  BY <1>1 DEF EmptyContext, OfRequest, Remembers, Chosen, Mentions, OfOneProblem
<1>6. PartsOfOneRequest /\ TicketOfOneProblem /\ ~Asked("cancel_booking")
  BY <1>1 DEF PartsOfOneRequest, TicketOfOneProblem, Asked
<1>7. QED
  BY <1>1, <1>4, <1>5, <1>6 DEF DeskInv

LEMMA DeskNextPreserves ==
  ASSUME DeskInv, TypeOK, [DeskNext]_deskVars
  PROVE  DeskInv'
<1>1. CASE UNCHANGED deskVars
  BY <1>1 DEF deskVars, desk, DeskInv, DeskTypes, Thinking, PartsOfOneRequest, TicketOfOneProblem,
     Asked
<1>2. CASE DeskNext
  BY <1>2, SayPreserves, ContinuePreserves, PlanBookingPreserves, PlanOtherPreserves,
     QuietStepPreserves, CallCreatePreserves, CallCancelPreserves, CallSubmitPreserves
     DEF DeskNext
<1>3. QED
  BY <1>1, <1>2

\* The tickets stay those of the workflow while the conversation goes on.
LEMMA TicketsStayTyped == DeskSpec => []TypeOK
<1>1. IInv => TypeOK
  BY DEF IInv
<1>2. QED
  BY <1>1, DeskMovesTickets, Invariant, PTL

\* The inductive invariant of the conversation holds in every reachable state.
THEOREM DeskInvariant == DeskSpec => []DeskInv
  BY DeskInitEstablishes, DeskNextPreserves, TicketsStayTyped, PTL DEF DeskSpec

\* The conversation, the bookings and the tickets stay well typed, and a draft
\* that is complete is asked about at once.
THEOREM DeskTypeCorrect == DeskSpec => []DeskTypeOK
<1>1. DeskInv /\ TypeOK => DeskTypeOK
  <2> SUFFICES ASSUME DeskInv, TypeOK
               PROVE  DeskTypeOK
    OBVIOUS
  <2>1. DeskTypes /\ ctx \in Contexts /\ bookings \in Seq(Bookings)
    BY DEF DeskInv, DeskTypes
  <2>2. ctx.draft # NULL => ctx.draft \in Drafts /\ ~Complete(ctx.draft)
    BY <2>1 DEF DeskInv, OfRequest, Contexts
  <2>3. ctx.ticket \in [Parts -> Turns]
    BY <2>1 DEF Contexts
  <2>4. \A i \in DOMAIN bookings : bookings[i] \in Bookings
    BY <2>1
  <2>5. QED
    BY <2>1, <2>2, <2>3, <2>4 DEF DeskTypes, DeskTypeOK, Drafts, Bookings
<1>2. QED
  BY <1>1, DeskInvariant, TicketsStayTyped, PTL

\* Whatever fails, expires or is abandoned in between, every part of a booking
\* the user is asked to confirm was taken, from a message or from the planner,
\* since that request began; the space on the user's word.
THEOREM AskedIsOneRequest == DeskSpec => []PartsOfOneRequest
<1>1. DeskInv => PartsOfOneRequest
  BY DEF DeskInv
<1>2. QED
  BY <1>1, DeskInvariant, PTL

\* "That room" is one of the last results, "that booking" the one of the last
\* answer about bookings.
THEOREM RemembersTheLatest == DeskSpec => []ReferencesAreCurrent
<1>1. DeskInv => ReferencesAreCurrent
  BY DEF DeskInv, Remembers, Chosen, ReferencesAreCurrent
<1>2. QED
  BY <1>1, DeskInvariant, PTL

\* A ticket the user is asked to confirm holds nothing of the ticket before.
THEOREM AskedIsOneProblem == DeskSpec => []TicketOfOneProblem
<1>1. DeskInv => TicketOfOneProblem
  BY DEF DeskInv
<1>2. QED
  BY <1>1, DeskInvariant, PTL

\* What the administrators do while a conversation submits tickets: a ticket
\* that was ever resolved was in progress before.
THEOREM DeskResolvedAfterWork == DeskSpec => []ResolvedWasInProgress
  BY DeskMovesTickets, ResolvedAfterWork, PTL
=============================================================================
