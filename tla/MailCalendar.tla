---------------------------- MODULE MailCalendar ----------------------------
(***************************************************************************)
(* The calendar of the mail service (mail_agent/calendar_service.py), for  *)
(* one user: events written by hand, changed and deleted, and schedules    *)
(* that are proposed out of mail, by a model or by rules, shown to the     *)
(* user and imported.  The requests run on threads of their own: an update *)
(* checks what it read before it writes, and an import reads the calendar  *)
(* before it inserts.  A time is day * HoursPerDay + hour.                 *)
(***************************************************************************)
EXTENDS Integers, FiniteSets, SequencesExt

CONSTANTS
  Lines,          \* the lines of a message: sequence of [day, hours], day may be Null
  TitleOf,        \* the title its subject gives
  LlmItems,       \* what the model may answer: sets of [index, title, start, end, allDay]
  HoursPerDay,
  MaxPast, MaxFuture,   \* days around today that are looked at
  MaxLlmMessages, \* messages a prompt holds
  Importers, Editors,   \* requests of the user that may be under way at once
  MaxEvents,      \* bound of the runs on the events ever made
  Missing         \* no day, no end, no message, nothing under way

ASSUME HoursAssumption == HoursPerDay \in Nat \ {0} /\ MaxEvents \in Nat
ASSUME LlmItemsAssumption ==
  \A items \in LlmItems : \A x \in items : x.start \in Int /\ x.end \in Int \cup {Missing}

VARIABLES
  events,         \* the rows of calendar_events
  proposals,      \* what the last extraction showed the user
  imports,        \* an import that has read the calendar, or Missing
  updates,        \* an update that has read its event, or Missing
  made            \* the number of the last event made: numbers follow the order, as the code's ids do not

calendarVars == <<events, proposals, imports, updates, made>>

\* An event.  via, missed, updated and raced are history: who made it, the events
\* its import could not see, whether it was updated, and whether another update
\* came between the check of one and its write.
Event(id, email, title, start, end, via, missed) ==
  [id |-> id, email |-> email, title |-> title, start |-> start, end |-> end,
   via |-> via, missed |-> missed, updated |-> FALSE, raced |-> FALSE]

\* What is under way misses the events made, and the changes made, meanwhile.
Missed(ids) ==
  imports' = [i \in Importers |-> IF imports[i] = Missing THEN Missing
                                  ELSE [imports[i] EXCEPT !.missed = @ \cup ids]]
Overtaken(id) ==
  updates' = [k \in Editors |-> IF updates[k] # Missing /\ updates[k].id = id
                                THEN [updates[k] EXCEPT !.overtaken = TRUE] ELSE updates[k]]

CreateEvent(title, start, end) ==
  /\ made < MaxEvents
  /\ end >= start
  /\ made' = made + 1
  /\ events' = events \cup {Event(made', Missing, title, start, end, "hand", {})}
  /\ Missed({made'})
  /\ UNCHANGED <<proposals, updates>>

Given(patch, field, current) == IF patch[field] = Missing THEN current ELSE patch[field]

\* The order of the times as they would be after the update.
Checked(e, patch) == Given(patch, "end", e.end) >= Given(patch, "start", e.start)

BeginUpdate(k, e, patch) ==
  /\ updates[k] = Missing
  /\ e \in events
  /\ Checked(e, patch)
  /\ updates' = [updates EXCEPT ![k] = [id |-> e.id, patch |-> patch, overtaken |-> FALSE]]
  /\ UNCHANGED <<events, proposals, imports, made>>

EndUpdate(k) ==
  /\ updates[k] # Missing
  /\ LET w == updates[k] IN
     /\ events' = {IF e.id # w.id THEN e
                   ELSE [e EXCEPT !.title = Given(w.patch, "title", @),
                                  !.start = Given(w.patch, "start", @),
                                  !.end = Given(w.patch, "end", @),
                                  !.updated = TRUE,
                                  !.raced = @ \/ w.overtaken] : e \in events}
     /\ updates' = [j \in Editors |->
                      IF j = k THEN Missing
                      ELSE IF updates[j] # Missing /\ updates[j].id = w.id
                           THEN [updates[j] EXCEPT !.overtaken = TRUE] ELSE updates[j]]
  /\ UNCHANGED <<proposals, imports, made>>

DeleteEvent(e) ==
  /\ e \in events
  /\ events' = events \ {e}
  /\ Overtaken(e.id)
  /\ UNCHANGED <<proposals, imports, made>>

-----------------------------------------------------------------------------
(* Proposals: [email, title, start, end].                                  *)

InWindow(day, today) == day \in (today - MaxPast)..(today + MaxFuture)

\* A line with a day and no hour lasts the day, with one hour an hour, and with
\* two from the one to the other, on the same day whatever their order.
ScheduleOf(m, line) ==
  LET start == line.day * HoursPerDay + (IF line.hours = <<>> THEN 0 ELSE line.hours[1])
  IN [email |-> m, title |-> TitleOf[m], start |-> start, by |-> "rules",
      end |-> CASE Len(line.hours) = 0 -> start + HoursPerDay
                [] Len(line.hours) = 1 -> start + 1
                [] OTHER -> line.day * HoursPerDay + line.hours[2]]

\* Of the lines of a message that start at the same time the first counts.
ParseSchedule(m, today) ==
  LET found(i) == ScheduleOf(m, Lines[m][i])
      dated    == {i \in DOMAIN Lines[m] : /\ Lines[m][i].day # Missing
                                          /\ InWindow(Lines[m][i].day, today)}
  IN {found(i) : i \in {j \in dated : \A n \in dated : n < j => found(n).start # found(j).start}}

\* Of the messages with the same title and start the last counts.
ExtractWithRules(ms, today) ==
  LET later(i) == UNION {ParseSchedule(ms[j], today) : j \in (i + 1)..Len(ms)}
  IN UNION {{p \in ParseSchedule(ms[i], today) :
               ~\E n \in later(i) : n.title = p.title /\ n.start = p.start} : i \in DOMAIN ms}

\* A missing end, or one that is not later than the start, becomes an hour.
ExtractWithLlm(ms, items, today) ==
  LET batch == SubSeq(ms, 1, IF Len(ms) < MaxLlmMessages THEN Len(ms) ELSE MaxLlmMessages)
      email(x) == IF x.index \in DOMAIN batch THEN batch[x.index] ELSE Missing
      day(x) == x.start \div HoursPerDay
      end(x) == IF x.allDay THEN (day(x) + 1) * HoursPerDay
                ELSE IF x.end = Missing \/ x.end <= x.start THEN x.start + 1 ELSE x.end
  IN {[email |-> email(x), title |-> x.title, start |-> x.start, end |-> end(x), by |-> "model"] :
        x \in {y \in items : InWindow(day(y), today)}}

\* The model is asked unless the mode is "rules"; in mode "auto" its failure and
\* an empty answer leave the mail to the rules.
ExtractSchedules(ms, mode, answers, items, today) ==
  LET byModel == IF answers /\ ms # <<>> THEN ExtractWithLlm(ms, items, today) ELSE {}
  IN IF mode # "rules" /\ (byModel # {} \/ (mode = "llm" /\ answers)) THEN byModel
     ELSE ExtractWithRules(ms, today)

\* In mode "llm" a failure is the request's failure.
Extract(ms, mode, answers, items, today) ==
  /\ mode = "llm" => answers
  /\ proposals' = ExtractSchedules(ms, mode, answers, items, today)
  /\ UNCHANGED <<events, imports, updates, made>>

BeginImport(i, chosen) ==
  /\ imports[i] = Missing
  /\ chosen # <<>> /\ IsInjective(chosen) /\ ToSet(chosen) \subseteq proposals
  /\ made + Len(chosen) <= MaxEvents
  /\ imports' = [imports EXCEPT ![i] = [chosen |-> chosen, seen |-> events, missed |-> {}]]
  /\ UNCHANGED <<events, proposals, updates, made>>

\* Mutant: an event of another message at the same time is no other event.
PresentByTitle(p, es) == \E e \in es : e.title = p.title /\ e.start = p.start

\* In the calendar already: from the same message, or under the same title.
Present(p, es) == \E e \in es : e.start = p.start /\ (e.email = p.email \/ e.title = p.title)

\* Schedules are inserted in their order, each unless the calendar that was read
\* or an earlier one of the same import has it: kept are the places of those.
EndImport(i) ==
  /\ imports[i] # Missing
  /\ LET w == imports[i]
         before(n, kept) == w.seen \cup {w.chosen[j] : j \in {k \in kept : k < n}}
         inserted(n) == Event(made + n, w.chosen[n].email, w.chosen[n].title, w.chosen[n].start,
                              w.chosen[n].end, w.chosen[n].by, w.missed)
     IN \E kept \in SUBSET DOMAIN w.chosen :
          /\ \A n \in DOMAIN w.chosen : n \in kept <=> ~Present(w.chosen[n], before(n, kept))
          /\ events' = events \cup {inserted(n) : n \in kept}
          /\ made' = made + Len(w.chosen)
          /\ imports' = [j \in Importers |->
                           IF j = i \/ imports[j] = Missing THEN (IF j = i THEN Missing ELSE imports[j])
                           ELSE [imports[j] EXCEPT !.missed = @ \cup {made + n : n \in kept}]]
  /\ UNCHANGED <<proposals, updates>>

-----------------------------------------------------------------------------
CalendarInit ==
  /\ events = {}
  /\ proposals = {}
  /\ imports = [i \in Importers |-> Missing]
  /\ updates = [k \in Editors |-> Missing]
  /\ made = 0

\* No schedule comes into the calendar twice: an imported event shares its start
\* with an earlier one of the same message or title only when the earlier one was
\* made while its import was under way, or one of them was updated since.  And no
\* event ends before it starts, but for one the rules read so out of a line of
\* mail, or one whose update was overtaken by another after its check.
CalendarKept ==
  /\ \A e, f \in events :
       (/\ e.id < f.id /\ f.via # "hand"
        /\ ~e.updated /\ ~f.updated
        /\ e.start = f.start /\ (e.title = f.title \/ e.email = f.email))
       => e.id \in f.missed
  /\ \A e \in events : e.end >= e.start \/ e.raced \/ (e.via = "rules" /\ ~e.updated)
=============================================================================
