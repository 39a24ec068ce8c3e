------------------------- MODULE MCFacilitiesAgent -------------------------
(* A small instance of FacilitiesAgent: two spaces, two times on each of two *)
(* days, and a conversation about bookings or about tickets.                 *)
EXTENDS FacilitiesAgent, TLC

CONSTANTS s1, s2

Quiet == [abandon |-> FALSE, ref |-> NoRef, date |-> NULL, slot |-> NULL]

SomeMessages ==
  {Quiet, [Quiet EXCEPT !.abandon = TRUE],
   [Quiet EXCEPT !.date = 1], [Quiet EXCEPT !.slot = 1],
   [Quiet EXCEPT !.date = 1, !.slot = 0],
   [Quiet EXCEPT !.ref = <<"rank", 1>>], [Quiet EXCEPT !.ref = <<"vague">>],
   [Quiet EXCEPT !.ref = <<"named">>],
   [Quiet EXCEPT !.ref = <<"id", s2>>, !.slot = 1]}

\* What the planner may name for a booking: a space it is not asked for, a place
\* in the results; a date, a time, a wording without either, a period.
SomeRefs == {NoRef, <<"id", s2>>, <<"rank", 2>>}
Text == [kind |-> "text", date |-> NULL, slot |-> NULL]
SomeTimes == {NoTime, Text, [Text EXCEPT !.date = 1], [Text EXCEPT !.slot = 1],
              [kind |-> "period", date |-> 1, slot |-> 0]}

SomeLists == {<<s1>>, <<s2, s1>>}

BookingTopic == [messages |-> SomeMessages, refs |-> SomeRefs, times |-> SomeTimes,
  intents |-> {"create_booking", "search_spaces", "check_availability", "unsupported"}]
OwnBookingsTopic == [messages |-> {Quiet, [Quiet EXCEPT !.ref = <<"id", s2>>, !.slot = 1]},
  refs |-> {NoRef}, times |-> {NoTime, [Text EXCEPT !.slot = 1]},
  intents |-> {"create_booking", "list_user_bookings", "get_booking_status", "cancel_booking"}]
TicketTopic == [messages |-> {Quiet}, refs |-> {}, times |-> {},
  intents |-> {"submit_maintenance_request", "list_user_maintenance_requests", "get_maintenance_status"}]
SomeTopics == {BookingTopic, OwnBookingsTopic, TicketTopic}
=============================================================================
