-------------------------- MODULE FacilitiesAgent --------------------------
(***************************************************************************)
(* The facilities agent in one conversation with one user, and the backend *)
(* it calls.  The agent keeps nothing of its own but the confirmations: it *)
(* gets the conversation's context with every call and returns it changed, *)
(* and the orchestration keeps the returned context unless the call failed.*)
(*                                                                         *)
(* A message is reduced to what the rules look for in it: a reference to a *)
(* space, a date, a range of time, an abandonment.  The planner, a         *)
(* language model, may return any intent and name any space and any time:  *)
(* its spaces are held against the message, its times are not.  Time passes *)
(* while it plans, and between a question and its answer; whether a space  *)
(* is free is the backend's choice whenever it is asked.  Tickets are those *)
(* of MaintenanceWorkflow.                                                 *)
(***************************************************************************)
EXTENDS MaintenanceWorkflow, SequencesExt

CONSTANTS
  Spaces,
  Lists,        \* the lists of spaces a search may find
  Topics,       \* what a conversation may be about: messages; intents, spaces and times planned
  DayLength,    \* units of time in a day
  Slots,        \* the times of day that can be booked
  ConfirmTTL, DraftTTL, SearchTTL,
  MaxTime,      \* bound on the clock
  MaxTurns,     \* bound on the messages of the user
  MaxBookings   \* bound on the bookings made

ASSUME DeskAssumption ==
  /\ NULL \notin Spaces /\ NULL \notin Nat
  /\ DayLength \in Nat \ {0} /\ Slots \subseteq 0..DayLength-1
  /\ {ConfirmTTL, DraftTTL, SearchTTL, MaxTime, MaxTurns, MaxBookings} \subseteq Nat

VARIABLES
  now,       \* the clock
  topic,     \* what this conversation is about
  ctx,       \* FacilitiesSharedContext, as the orchestration keeps it
  turn,      \* the call in progress
  screen,    \* the confirmation the user is asked for
  stored,    \* the ConfirmationStore has it
  bookings,  \* the user's bookings in the backend; the id of a booking is its place
  turns,     \* messages so far
  gaveUp,    \* the last message of the user was an abandonment
  open,      \* history: the booking request the user has begun: its first turn, its last answer
  named,     \* history: the booking the last answer about bookings was about
  reported   \* history: the turn in which a ticket was last reported as submitted

desk == <<topic, ctx, turn, screen, stored, turns, gaveUp, open, named, reported>>
deskVars == <<now, bookings, desk, vars>>

Dates == 0..(MaxTime \div DayLength + 1)
Turns == 0..MaxTurns
Parts == {"facility", "description", "location"}
NoRef == <<"none">>
Today == now \div DayLength
StartOf(date, slot) == date * DayLength + slot
InFuture(date, slot) == StartOf(date, slot) > now

\* FacilitiesSharedContext.  by says in which turn each part was taken.
NoDraft == [space |-> NULL, date |-> NULL, slot |-> NULL,
            by |-> [space |-> 0, date |-> 0, slot |-> 0], expires |-> 0]
EmptyContext ==
  [results |-> NULL, selected |-> NULL, draft |-> NULL, listed |-> <<>>,
   lastBooking |-> NULL, lastTicket |-> NULL, ticket |-> [p \in Parts |-> 0]]

\* What the rules look for in a message: the regular expressions of
\* _booking_reference_arguments know the places one to five.
Refs == {NoRef, <<"vague">>, <<"named">>} \cup ({"id"} \X Spaces) \cup ({"rank"} \X (1..5))
Messages == [abandon: BOOLEAN, ref: Refs, date: {NULL} \cup Nat, slot: {NULL} \cup Slots]

\* The time in a booking's arguments: a text, as the user or the planner words
\* it, or a period of the planner's.
NoTime == [kind |-> "none", date |-> NULL, slot |-> NULL]

\* What a valid PlannerDecision may name: a space by its id, its place in a list
\* or as "that room", and any time; a text may tell nothing usable.
PlannerRefs == {NoRef, <<"vague">>} \cup ({"id"} \X Spaces) \cup ({"rank"} \X (1..5))
PlannerTimes ==
  {NoTime} \cup [kind: {"text"}, date: {NULL} \cup Nat, slot: {NULL} \cup Slots]
           \cup [kind: {"period"}, date: Nat, slot: Slots]

ASSUME ConversationAssumption ==
  /\ Lists \subseteq Seq(Spaces)
  /\ \A t \in Topics :
       t.messages \subseteq Messages /\ t.refs \subseteq PlannerRefs /\ t.times \subseteq PlannerTimes
  /\ NULL \notin [since: Nat, at: Nat]

DeskInit ==
  /\ Init /\ now = 0 /\ topic \in Topics /\ ctx = EmptyContext
  /\ turn = NULL /\ screen = NULL /\ stored = FALSE /\ bookings = <<>>
  /\ turns = 0 /\ gaveUp = FALSE /\ open = NULL /\ named = NULL /\ reported = 0

(***************************************************************************)
(* FacilitiesContextManager                                                *)
(***************************************************************************)
ClearPendingBooking(c) == [c EXCEPT !.draft = NULL]

\* get_pending_booking: a draft that has expired is dropped.
GetPendingBooking(c) ==
  IF c.draft # NULL /\ c.draft.expires <= now THEN ClearPendingBooking(c) ELSE c

SetPendingBooking(c, d) == [c EXCEPT !.draft = [d EXCEPT !.expires = now + DraftTTL]]

ReplaceSearchResults(c, list, window) ==
  [c EXCEPT !.results = [spaces |-> list, window |-> window, expires |-> now + SearchTTL],
            !.selected = NULL]

SearchIsExpired(c) == c.results = NULL \/ c.results.expires <= now

\* resolve_space_rank: the choice is remembered.
ResolveSpaceRank(c, k) ==
  IF SearchIsExpired(c) \/ k > Len(c.results.spaces) THEN [space |-> NULL, ctx |-> c]
  ELSE [space |-> c.results.spaces[k], ctx |-> [c EXCEPT !.selected = c.results.spaces[k]]]

\* Mutant: "that booking" survives a list of several.
ReplaceBookingCandidatesOnly(c, ids) ==
  [c EXCEPT !.listed = ids, !.lastBooking = IF Len(ids) = 1 THEN ids[1] ELSE @]

ReplaceBookingCandidates(c, ids) ==
  [c EXCEPT !.listed = ids, !.lastBooking = IF Len(ids) = 1 THEN ids[1] ELSE NULL]

\* resolve_booking_reference: a place in the last list, or "that booking".
ResolveBookingReference(c, ref) ==
  IF ref[1] = "rank" THEN IF ref[2] <= Len(c.listed) THEN c.listed[ref[2]] ELSE NULL
  ELSE IF c.lastBooking = NULL /\ Len(c.listed) = 1 THEN c.listed[1] ELSE c.lastBooking

SetLastBooking(c, id) == [c EXCEPT !.lastBooking = id]
SetPendingMaintenance(c, info) == [c EXCEPT !.ticket = info]

\* Mutant: the details of the ticket are kept.
SetLastTicketOnly(c, id) == [c EXCEPT !.lastTicket = id]

\* set_last_maintenance_ticket
SetLastTicket(c, id) == [c EXCEPT !.lastTicket = id, !.ticket = EmptyContext.ticket]

(***************************************************************************)
(* Answers                                                                 *)
(***************************************************************************)
Answered(c) == ctx' = c /\ turn' = NULL

\* map_technical_error and every other answer with status failed: the
\* orchestration keeps the context it had, pending draft included.
Failed == Answered(ctx) /\ UNCHANGED <<screen, stored, open, named, reported>>

\* _needs_more_info and _business_message outside a booking request.
Told(c) == Answered(c) /\ open' = NULL /\ UNCHANGED <<screen, stored, named, reported>>

\* _create_confirmation
Asks(c, action) ==
  /\ Answered(c) /\ open' = NULL
  /\ screen' = [action |-> action, expires |-> now + ConfirmTTL] /\ stored' = TRUE
  /\ UNCHANGED <<named, reported>>

(***************************************************************************)
(* Reading the message                                                     *)
(***************************************************************************)
\* _booking_reference_arguments: a place in a list, an id or "that room"; the
\* name of a room needs the planner to be understood.
GivesReference(m) == m.ref[1] \in {"rank", "id", "vague"}

\* _has_explicit_space_reference
RefersToSpace(m) == m.ref # NoRef

HasDatetime(m) == m.date # NULL \/ m.slot # NULL
IsBookingContinuation(m) == GivesReference(m) \/ HasDatetime(m)

\* _deterministic_booking_arguments: the message itself is the text.
TimeOf(m) == IF HasDatetime(m) THEN [kind |-> "text", date |-> m.date, slot |-> m.slot] ELSE NoTime

\* parse_date: without a date, today.
ParseDate(date) == IF date # NULL THEN date ELSE Today

\* parse and _normalized_time_range: a range counts if it is in the future.
UsableRange(time, day) == time.slot # NULL /\ InFuture(day, time.slot)

\* _resolve_space_id
ResolveSpace(c, ref) ==
  CASE ref[1] = "id" -> [space |-> ref[2], ctx |-> c]
    [] ref[1] = "rank" -> ResolveSpaceRank(c, ref[2])
    [] OTHER ->
       [space |-> IF c.selected # NULL THEN c.selected
                  ELSE IF c.results # NULL /\ Len(c.results.spaces) = 1
                       THEN c.results.spaces[1] ELSE NULL,
        ctx |-> c]

\* _candidate_for_space
IsCandidate(c, space) ==
  \/ space # NULL /\ c.selected = space
  \/ c.results # NULL /\ space \in ToSet(c.results.spaces)

\* _dispatch: what the message says overrides the planner, whose space counts
\* only if the message refers to a space at all.
PlannedRef(c, m, guess) ==
  IF GivesReference(m) /\ (m.ref[1] = "vague" => c.selected # NULL \/ ~SearchIsExpired(c))
  THEN m.ref
  ELSE IF RefersToSpace(m) THEN guess ELSE NoRef

\* _normalized_time_range and the merge of _book_space: a text's date drops the
\* times, a range without a date is of the draft's date or else of today, a
\* range that is not in the future is ignored.
MergeTime(d, time) ==
  LET date == IF time.date # NULL THEN time.date ELSE d.date
      day == ParseDate(date)
      dated == IF time.kind # "text" \/ time.date = NULL THEN d
               ELSE [d EXCEPT !.date = date, !.by.date = turns, !.slot = NULL, !.by.slot = 0]
  IN IF ~UsableRange(time, day) THEN dated
     ELSE [dated EXCEPT !.slot = time.slot, !.by.slot = turns, !.date = day,
                        !.by.date = IF time.date # NULL \/ date = NULL THEN turns ELSE @]

\* The window of the search, for a space chosen from its results.
InheritWindow(c, d, time, ref) ==
  IF /\ d.slot = NULL /\ time = NoTime /\ c.draft = NULL
     /\ IsCandidate(c, d.space) /\ ref[1] \in {"rank", "vague"}
     /\ c.results # NULL /\ c.results.window # NULL
     /\ InFuture(c.results.window.date, c.results.window.slot)
  THEN [d EXCEPT !.date = c.results.window.date, !.slot = c.results.window.slot,
                 !.by.date = turns, !.by.slot = turns]
  ELSE d

Complete(d) == d.space # NULL /\ d.date # NULL /\ d.slot # NULL

(***************************************************************************)
(* The handlers: what a call returns when no tool fails                    *)
(***************************************************************************)
\* _book_space for message m, with a reference and a time; o is the request it
\* may continue; free is FALSE if it looks up the availability and is refused.
BookSpace(c0, m, ref, time, free, o) ==
  LET c1 == GetPendingBooking(c0)
      found == IF ref = NoRef THEN [space |-> NULL, ctx |-> c1] ELSE ResolveSpace(c1, ref)
      c == found.ctx
      old == IF c.draft = NULL THEN NoDraft ELSE c.draft
      placed == IF ref = NoRef THEN old
                ELSE [old EXCEPT !.space = found.space,
                                 !.by.space = IF RefersToSpace(m) /\ found.space # NULL THEN turns ELSE 0]
      d == InheritWindow(c, MergeTime(placed, time), time, ref)
      since == IF o # NULL /\ now < o.at + DraftTTL THEN o.since ELSE turns
  IN IF ~Complete(d)
     THEN /\ Answered(SetPendingBooking(c, d))
          /\ open' = [since |-> since, at |-> now]
          /\ UNCHANGED <<screen, stored, named, reported>>
     ELSE IF ~free THEN Told(ClearPendingBooking(c))
     ELSE Asks(ClearPendingBooking(c),
               [tool |-> "create_booking", space |-> d.space, date |-> d.date, slot |-> d.slot,
                by |-> d.by, since |-> since])

\* _search_spaces: without a time it searches for any, without a usable one it
\* asks.
SearchSpaces(c, time, list) ==
  IF time = NoTime THEN Told(ReplaceSearchResults(c, list, NULL))
  ELSE IF ~UsableRange(time, ParseDate(time.date)) THEN Told(c)
  ELSE Told(ReplaceSearchResults(c, list, [date |-> ParseDate(time.date), slot |-> time.slot]))

\* _get_space_details and _check_availability read, and remember the choice.
ConsultSpace(c, ref) == Told(IF ref # NoRef THEN ResolveSpace(c, ref).ctx ELSE c)

\* An answer about one booking, NULL for none or several.
AboutBooking(c, id) ==
  Answered(c) /\ open' = NULL /\ named' = id /\ UNCHANGED <<screen, stored, reported>>

\* _list_bookings
ListBookings(c) ==
  LET ids == [i \in DOMAIN bookings |-> i]
  IN AboutBooking(ReplaceBookingCandidates(c, ids), IF Len(ids) = 1 THEN ids[1] ELSE NULL)

\* _get_booking_status; id is NULL when the reference could not be resolved.
GetBookingStatus(c, id) ==
  IF id = NULL THEN Told(c) ELSE AboutBooking(SetLastBooking(c, id), id)

\* _cancel_booking: looks at the booking, then asks.
CancelBooking(c, id, how) ==
  IF \/ id = NULL
     \/ bookings[id].status = "CANCELLED" \/ ~InFuture(bookings[id].date, bookings[id].slot)
  THEN Told(c)
  ELSE Asks(c, [tool |-> "cancel_booking", id |-> id, how |-> how])

\* _submit_maintenance: given are the parts the planner fills in.  A location
\* that fits several spaces is asked for again.
SubmitMaintenance(c, given, ambiguous) ==
  LET merged == [p \in Parts |-> IF p \in given THEN turns ELSE c.ticket[p]]
  IN IF ambiguous \/ \E p \in Parts : merged[p] = 0
     THEN Told(SetPendingMaintenance(c, merged))
     ELSE Asks(c, [tool |-> "submit_maintenance_request", parts |-> merged])

\* _list_maintenance
ListMaintenance(c) == Told(IF Len(status) = 1 THEN [c EXCEPT !.lastTicket = 1] ELSE c)

\* _get_maintenance_status; id is a ticket the user names or the last one.
GetMaintenanceStatus(c, id) == Told(IF id = NULL THEN c ELSE SetLastTicket(c, id))

(***************************************************************************)
(* invoke                                                                  *)
(***************************************************************************)
\* The user says m to the facilities agent.  An abandonment in the turn
\* before ends the draft, one in this turn is answered at once, and what
\* continues a draft needs no planner.
Say(m) ==
  /\ turn = NULL /\ screen = NULL /\ turns < MaxTurns
  /\ turns' = turns + 1 /\ gaveUp' = m.abandon
  /\ LET heard == IF gaveUp THEN ClearPendingBooking(ctx) ELSE ctx
         c == GetPendingBooking(heard)
         o == IF gaveUp THEN NULL ELSE open
     IN IF c.draft # NULL /\ m.abandon
        THEN Told(ClearPendingBooking(c))
        ELSE /\ turn' = [pc |-> IF c.draft # NULL /\ IsBookingContinuation(m)
                               THEN "continuing" ELSE "planning",
                         msg |-> m, ctx |-> c, open |-> o]
             /\ UNCHANGED <<ctx, screen, stored, open, named, reported>>
  /\ UNCHANGED <<now, topic, bookings, vars>>

\* The message goes to another agent.
SayElsewhere(m) ==
  /\ turn = NULL /\ screen = NULL /\ turns < MaxTurns
  /\ turns' = turns + 1 /\ gaveUp' = m.abandon
  /\ UNCHANGED <<now, topic, bookings, ctx, turn, screen, stored, open, named, reported, vars>>

Processing(pc) ==
  /\ turn # NULL /\ turn.pc = pc
  /\ UNCHANGED <<now, topic, bookings, turns, gaveUp, vars>>

Continue ==
  /\ Processing("continuing")
  /\ \E free \in BOOLEAN :
       BookSpace(turn.ctx, turn.msg, IF GivesReference(turn.msg) THEN turn.msg.ref ELSE NoRef,
                 TimeOf(turn.msg), free, turn.open)

PlanBooking ==
  /\ Processing("planning") /\ "create_booking" \in topic.intents
  /\ \E guess \in topic.refs, time \in topic.times, free \in BOOLEAN :
       BookSpace(turn.ctx, turn.msg, PlannedRef(turn.ctx, turn.msg, guess), time, free, turn.open)

\* Mutant: only a booking request ends a booking request.
ClearedNot == turn.ctx

\* _dispatch for every other intent: the draft is gone.
Cleared == ClearPendingBooking(turn.ctx)
Handles(intent) == Processing("planning") /\ intent \in topic.intents

BookingRef(ref) == ResolveBookingReference(Cleared, ref)

PlanOther ==
  \/ /\ Handles("search_spaces")
     /\ \E time \in topic.times, list \in Lists : SearchSpaces(Cleared, time, list)
  \/ Handles("check_availability") /\ \E ref \in topic.refs : ConsultSpace(Cleared, ref)
  \/ Handles("list_user_bookings") /\ ListBookings(Cleared)
  \/ Handles("get_booking_status") /\ \E i \in DOMAIN bookings : GetBookingStatus(Cleared, i)
  \/ /\ Handles("cancel_booking")
     /\ \/ \E i \in DOMAIN bookings : CancelBooking(Cleared, i, "id")
        \/ \E ref \in {<<"vague">>, <<"rank", 1>>, <<"rank", 2>>} :
             CancelBooking(Cleared, BookingRef(ref), ref[1])
  \/ /\ Handles("submit_maintenance_request")
     /\ \E given \in SUBSET Parts, ambiguous \in BOOLEAN : SubmitMaintenance(Cleared, given, ambiguous)
  \/ Handles("list_user_maintenance_requests") /\ ListMaintenance(Cleared)
  \/ Handles("get_maintenance_status") /\ GetMaintenanceStatus(Cleared, turn.ctx.lastTicket)
  \/ Handles("unsupported") /\ Told(Cleared)

\* The planner or a tool fails, the backend refuses a confirmed call, or the
\* agent is restarted meanwhile.
TurnFails ==
  /\ turn # NULL /\ Failed
  /\ UNCHANGED <<now, topic, bookings, turns, gaveUp, vars>>

(***************************************************************************)
(* Confirmations                                                           *)
(***************************************************************************)
\* _resume_confirmation up to the call: consumed at most once, in time.
Confirm ==
  /\ turn = NULL /\ screen # NULL
  /\ screen' = NULL /\ stored' = FALSE
  /\ turn' = IF stored /\ screen.expires > now THEN [pc |-> "calling", call |-> screen.action]
             ELSE NULL
  /\ UNCHANGED <<now, topic, ctx, bookings, turns, gaveUp, open, named, reported, vars>>

\* The user cancels: the agent does not hear of it.
Cancel ==
  /\ turn = NULL /\ screen # NULL
  /\ screen' = NULL /\ stored' = FALSE
  /\ UNCHANGED <<now, topic, ctx, turn, bookings, turns, gaveUp, open, named, reported, vars>>

\* _confirmed_success, or the answer is lost and the user hears of a failure.
Carried(c, id, ticketTurn) ==
  /\ \/ ctx' = c /\ named' = id /\ reported' = ticketTurn
     \/ UNCHANGED <<ctx, named, reported>>
  /\ turn' = NULL
  /\ UNCHANGED <<now, topic, screen, stored, turns, gaveUp, open>>

Calling(tool) == turn # NULL /\ turn.pc = "calling" /\ turn.call.tool = tool

CallCreate ==
  /\ Calling("create_booking") /\ Len(bookings) < MaxBookings
  /\ InFuture(turn.call.date, turn.call.slot)
  /\ bookings' = Append(bookings, [date |-> turn.call.date, slot |-> turn.call.slot,
                                   status |-> "CONFIRMED"])
  /\ Carried(SetLastBooking(ctx, Len(bookings) + 1), Len(bookings) + 1, reported)
  /\ UNCHANGED vars

\* Mutant: a status the frontends do not know.
CallCancelDeleting ==
  /\ Calling("cancel_booking")
  /\ bookings' = [bookings EXCEPT ![turn.call.id].status = "DELETED"]
  /\ Carried(SetLastBooking(ctx, turn.call.id), turn.call.id, reported)
  /\ UNCHANGED vars

CallCancel ==
  /\ Calling("cancel_booking")
  /\ InFuture(bookings[turn.call.id].date, bookings[turn.call.id].slot)
  /\ bookings' = [bookings EXCEPT ![turn.call.id].status = "CANCELLED"]
  /\ Carried(SetLastBooking(ctx, turn.call.id), turn.call.id, reported)
  /\ UNCHANGED vars

CallSubmit ==
  /\ Calling("submit_maintenance_request") /\ Submit
  /\ Carried(SetLastTicket(ctx, Len(status) + 1), named, turns)
  /\ UNCHANGED bookings

(***************************************************************************)
(* Others                                                                  *)
(***************************************************************************)
Tick ==
  /\ now < MaxTime /\ now' = now + 1
  /\ UNCHANGED <<bookings, desk, vars>>

\* The agent's process starts again, without its confirmations.
Restart ==
  /\ stored /\ stored' = FALSE
  /\ UNCHANGED <<now, bookings, topic, ctx, turn, screen, turns, gaveUp, open, named, reported, vars>>

\* Administrators work on tickets meanwhile.
AdminStep ==
  /\ \E r \in Requests :
       \/ \E i \in DOMAIN status, target \in Status : CheckUpdate(r, i, target)
       \/ CommitUpdate(r) \/ RollBack(r)
  /\ UNCHANGED <<now, bookings, desk>>

DeskNext ==
  \/ \E m \in topic.messages : Say(m) \/ SayElsewhere(m)
  \/ Continue \/ PlanBooking
  \/ PlanOther \/ TurnFails
  \/ Confirm \/ Cancel \/ CallCreate \/ CallCancel \/ CallSubmit
  \/ Tick \/ Restart \/ AdminStep

DeskSpec == DeskInit /\ [][DeskNext]_deskVars

(***************************************************************************)
(* Properties                                                              *)
(***************************************************************************)
\* The types of the variables.
DeskTypeOK ==
  /\ TypeOK
  /\ now \in 0..MaxTime /\ topic \in Topics /\ turns \in Turns
  /\ ctx.draft # NULL =>
       /\ ctx.draft.space \in Spaces \cup {NULL} /\ ctx.draft.slot \in Slots \cup {NULL}
       /\ ctx.draft.by \in [{"space", "date", "slot"} -> Turns]
       /\ ~Complete(ctx.draft)
  /\ ctx.ticket \in [Parts -> Turns]
  /\ turn # NULL => turn.pc \in {"planning", "continuing", "calling"}
  /\ \A i \in DOMAIN bookings : bookings[i].status \in {"CONFIRMED", "CANCELLED"}

Asked(tool) == screen # NULL /\ screen.action.tool = tool

\* _dispatch, _book_space: the space the user is asked to confirm was taken in a
\* turn whose message refers to a space, and the time was taken no earlier than
\* the date.  Every part of the booking was taken since that request began: the
\* agent keeps nothing of a request that was abandoned before it, answered
\* otherwise, followed by another intent or left for longer than the life of a
\* draft, whatever calls fail in between.  The date and the time are those of
\* the message only in a turn that continues a draft; in a turn that is planned
\* they are the planner's, which sees the earlier messages, and nothing holds
\* them against the message.
PartsOfOneRequest ==
  Asked("create_booking") =>
    LET by == screen.action.by
    IN /\ by.space # 0
       /\ by.slot >= by.date
       /\ \A p \in {"space", "date", "slot"} : by[p] = 0 \/ by[p] >= screen.action.since

\* However searches, lists, choices and failures follow each other, "that room"
\* is one of the results the user saw last, and "cancel that booking" asks about
\* the booking of the last answer, never one named before a list of several.
ReferencesAreCurrent ==
  /\ ctx.selected # NULL => ctx.results # NULL /\ ctx.selected \in ToSet(ctx.results.spaces)
  /\ Asked("cancel_booking") /\ screen.action.how = "vague" => screen.action.id = named

\* A ticket the user is asked to confirm holds nothing the agent took down before
\* the last ticket was reported as submitted.
TicketOfOneProblem ==
  Asked("submit_maintenance_request") => \A p \in Parts : screen.action.parts[p] > reported

(***************************************************************************)
(* The inductive invariant (FacilitiesAgentProofs)                             *)
(***************************************************************************)
Periods == [date: Nat, slot: Slots]
Results == [spaces: Seq(Spaces), window: {NULL} \cup Periods, expires: Nat]
Drafts == [space: {NULL} \cup Spaces, date: {NULL} \cup Nat, slot: {NULL} \cup Slots,
           by: [{"space", "date", "slot"} -> Turns], expires: Nat]
Contexts == [results: {NULL} \cup Results, selected: {NULL} \cup Spaces,
             draft: {NULL} \cup Drafts, listed: Seq(Nat), lastBooking: {NULL} \cup Nat,
             lastTicket: {NULL} \cup Nat, ticket: [Parts -> Turns]]
Opens == [since: Turns, at: Nat]
Bookings == [date: Nat, slot: Slots, status: {"CONFIRMED", "CANCELLED"}]

Thinking == turn # NULL /\ turn.pc \in {"planning", "continuing"}

DeskTypes ==
  /\ now \in 0..MaxTime /\ topic \in Topics /\ turns \in Turns
  /\ ctx \in Contexts /\ open \in {NULL} \cup Opens /\ bookings \in Seq(Bookings)
  /\ turn # NULL => turn.pc \in {"planning", "continuing", "calling"}
  /\ Thinking => turn.ctx \in Contexts /\ turn.open \in {NULL} \cup Opens /\ turn.msg \in topic.messages

\* Every part of a draft was taken between the turns t0 and t, its space on the
\* user's word, its time no earlier than its date.
TakenBetween(d, t0, t) ==
  /\ \A p \in {"space", "date", "slot"} : d.by[p] <= t /\ (d.by[p] = 0 \/ t0 <= d.by[p])
  /\ d.space # NULL => d.by.space # 0
  /\ d.slot # NULL => d.by.date <= d.by.slot

\* By turn t, a draft of context c is of the request o, which expires with it.
OfRequest(c, o, t) ==
  /\ o # NULL => o.since <= t
  /\ c.draft # NULL =>
       /\ o # NULL /\ c.draft.expires = o.at + DraftTTL
       /\ TakenBetween(c.draft, o.since, t) /\ ~Complete(c.draft)

\* What context c remembers is of its results, of the booking id, and of a
\* ticket begun after turn t.
Chosen(c) == c.selected # NULL => c.results # NULL /\ c.selected \in ToSet(c.results.spaces)
Mentions(c, id) ==
  IF c.lastBooking = NULL THEN Len(c.listed) # 1 ELSE c.lastBooking = id
OfOneProblem(c, t) == \A p \in Parts : c.ticket[p] = 0 \/ t < c.ticket[p]
Remembers(c, id, t) == Chosen(c) /\ Mentions(c, id) /\ OfOneProblem(c, t)

\* What may be asked and called.
Orderly(a) ==
  /\ a.tool = "create_booking" => a.date \in Nat /\ a.slot \in Slots
  /\ a.tool = "cancel_booking" => a.id \in Nat

\* The context the orchestration keeps and the one a call has changed are both
\* of the request in progress; nothing is asked while a call runs; a ticket is
\* reported only between two messages.
DeskInv ==
  /\ DeskTypes
  /\ OfRequest(ctx, open, turns) /\ Remembers(ctx, named, reported)
  /\ Thinking => OfRequest(turn.ctx, turn.open, turns) /\ Remembers(turn.ctx, named, reported)
  /\ reported \in 0..turns /\ (Thinking => reported < turns)
  /\ turn # NULL => screen = NULL
  /\ turn # NULL /\ turn.pc = "calling" => Orderly(turn.call)
  /\ screen # NULL => Orderly(screen.action)
  /\ PartsOfOneRequest /\ TicketOfOneProblem
  /\ Asked("cancel_booking") /\ screen.action.how = "vague" => screen.action.id = named
=============================================================================
