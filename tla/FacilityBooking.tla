-------------------------- MODULE FacilityBooking --------------------------
(***************************************************************************)
(* Booking and cancelling spaces in FacilitiesService.  A request is one   *)
(* database transaction: it validates its input, takes the row lock of the *)
(* space, looks for conflicting bookings, inserts and commits; a           *)
(* cancellation reads the booking and writes it back without a lock.       *)
(* Requests interleave at these points, and a transaction may be rolled    *)
(* back at any of them (a lock wait that times out, a lost connection, a   *)
(* crash of the backend).  The status of a space and its opening hours do  *)
(* not change: no operation of the service writes them.                    *)
(***************************************************************************)
EXTENDS Naturals, Sequences

CONSTANTS
  Users, Spaces,
  InService,     \* the spaces whose status is AVAILABLE
  Requests,      \* slots for requests in progress
  NULL,
  DayLength,     \* units of time in a day
  Opening, Closing,
  MaxDuration,   \* MAX_BOOKING_DURATION
  MaxAdvance,    \* MAX_BOOKING_DAYS_IN_ADVANCE
  MaxTime,       \* bound on the clock and on the times asked for
  MaxBookings    \* bound on the bookings made

ASSUME SpacesAssumption == InService \subseteq Spaces /\ NULL \notin Requests
ASSUME TimeAssumption ==
  /\ DayLength \in Nat \ {0} /\ Opening \in Nat /\ Closing \in Nat
  /\ MaxDuration \in Nat /\ MaxAdvance \in Nat /\ MaxTime \in Nat /\ MaxBookings \in Nat

Times == 0..MaxTime
Status == {"CONFIRMED", "CANCELLED"}
Bookings == [user: Users, space: Spaces, start: Times, end: Times, status: Status]

VARIABLES
  now,       \* LocalDateTime.now()
  bookings,  \* the committed bookings; the id of a booking is its place
  lock,      \* per space, the transaction that holds its row
  tx         \* per request, its transaction

vars == <<now, bookings, lock, tx>>

Idle == [pc |-> "idle"]
Creating(u, p, s, e) ==
  [pc |-> "locking", user |-> u, space |-> p, start |-> s, end |-> e]

Init ==
  /\ now = 0 /\ bookings = <<>>
  /\ lock = [p \in Spaces |-> NULL]
  /\ tx = [r \in Requests |-> Idle]

(***************************************************************************)
(* Rules                                                                   *)
(***************************************************************************)
Date(t) == t \div DayLength
TimeOfDay(t) == t % DayLength

BasicTimeRange(s, e) == s < e /\ Date(s) = Date(e) /\ e - s <= MaxDuration
BookingWindow(s) == now <= s /\ s <= now + MaxAdvance

\* Mutant: only bookings that begin within the requested time conflict.
ConflictsAtStart(b, p, s, e) ==
  b.space = p /\ b.status = "CONFIRMED" /\ s <= b.start /\ b.start < e

\* existsConflict: touching edges do not conflict.
Conflicts(b, p, s, e) ==
  b.space = p /\ b.status = "CONFIRMED" /\ b.start < e /\ b.end > s

ExistsConflict(p, s, e) == \E i \in DOMAIN bookings : Conflicts(bookings[i], p, s, e)

Available(p, s, e) ==
  /\ p \in InService
  /\ Opening <= TimeOfDay(s) /\ TimeOfDay(e) <= Closing
  /\ ~ExistsConflict(p, s, e)

(***************************************************************************)
(* createBooking                                                           *)
(***************************************************************************)
\* A request that fails the validation changes nothing and is left out.
CreateBooking(r, u, p, s, e) ==
  /\ tx[r] = Idle /\ Len(bookings) < MaxBookings
  /\ BasicTimeRange(s, e) /\ BookingWindow(s)
  /\ tx' = [tx EXCEPT ![r] = Creating(u, p, s, e)]
  /\ UNCHANGED <<now, bookings, lock>>

\* Mutant: findById, without the lock.
FindSpaceUnlocked(r) ==
  /\ tx[r].pc = "locking"
  /\ tx' = [tx EXCEPT ![r].pc = "checking"]
  /\ UNCHANGED <<now, bookings, lock>>

\* findByIdForUpdate waits for the row of the space.
LockSpace(r) ==
  /\ tx[r].pc = "locking" /\ lock[tx[r].space] = NULL
  /\ lock' = [lock EXCEPT ![tx[r].space] = r]
  /\ tx' = [tx EXCEPT ![r].pc = "checking"]
  /\ UNCHANGED <<now, bookings>>

\* Mutant: the refusal leaves the transaction open.
CheckSpaceForgetsLock(r) ==
  LET t == tx[r]
  IN /\ t.pc = "checking"
     /\ IF Available(t.space, t.start, t.end)
        THEN tx' = [tx EXCEPT ![r].pc = "saving"]
        ELSE tx' = [tx EXCEPT ![r] = Idle]
     /\ UNCHANGED <<now, bookings, lock>>

\* availabilityReason: the first consistent read of the transaction, so it
\* sees what is committed by now.  A refusal throws and rolls back.
CheckSpace(r) ==
  LET t == tx[r]
  IN /\ t.pc = "checking"
     /\ IF Available(t.space, t.start, t.end)
        THEN tx' = [tx EXCEPT ![r].pc = "saving"] /\ UNCHANGED lock
        ELSE tx' = [tx EXCEPT ![r] = Idle] /\ lock' = [lock EXCEPT ![t.space] = NULL]
     /\ UNCHANGED <<now, bookings>>

NewBooking(t) == [user |-> t.user, space |-> t.space, start |-> t.start,
                  end |-> t.end, status |-> "CONFIRMED"]

\* save and commit, which releases the row.
CommitBooking(r) ==
  LET t == tx[r]
  IN /\ t.pc = "saving"
     /\ bookings' = Append(bookings, NewBooking(t))
     /\ lock' = [lock EXCEPT ![t.space] = NULL]
     /\ tx' = [tx EXCEPT ![r] = Idle]
     /\ UNCHANGED now

(***************************************************************************)
(* cancelBooking                                                           *)
(***************************************************************************)
\* The owner's booking is read and checked; a booking that is cancelled
\* already is returned as it is.
CancelBooking(r, i) ==
  /\ tx[r] = Idle
  /\ bookings[i].status = "CONFIRMED" /\ bookings[i].start > now
  /\ tx' = [tx EXCEPT ![r] = [pc |-> "cancelling", id |-> i]]
  /\ UNCHANGED <<now, bookings, lock>>

\* The whole row is written back with the new status.
CommitCancel(r) ==
  /\ tx[r].pc = "cancelling"
  /\ bookings' = [bookings EXCEPT ![tx[r].id].status = "CANCELLED"]
  /\ tx' = [tx EXCEPT ![r] = Idle]
  /\ UNCHANGED <<now, lock>>

(***************************************************************************)
(* Time and failures                                                       *)
(***************************************************************************)
Tick ==
  /\ now < MaxTime
  /\ now' = now + 1
  /\ UNCHANGED <<bookings, lock, tx>>

RollBack(r) ==
  /\ tx[r] # Idle
  /\ tx' = [tx EXCEPT ![r] = Idle]
  /\ lock' = [p \in Spaces |-> IF lock[p] = r THEN NULL ELSE lock[p]]
  /\ UNCHANGED <<now, bookings>>

Proceed(r) == CheckSpace(r) \/ CommitBooking(r) \/ CommitCancel(r)

Next ==
  \/ \E r \in Requests, u \in Users, p \in Spaces, s \in Times, e \in Times :
       CreateBooking(r, u, p, s, e)
  \/ \E r \in Requests, i \in DOMAIN bookings : CancelBooking(r, i)
  \/ \E r \in Requests : LockSpace(r) \/ Proceed(r) \/ RollBack(r)
  \/ Tick

Spec == Init /\ [][Next]_vars

\* The database executes what it is asked, and hands a row to the waiting
\* transactions in turn.
FairSpec ==
  Spec /\ \A r \in Requests : WF_vars(Proceed(r)) /\ SF_vars(LockSpace(r))

(***************************************************************************)
(* Properties                                                              *)
(***************************************************************************)
\* The types of the variables.
TypeOK ==
  /\ now \in Times
  /\ bookings \in Seq(Bookings)
  /\ lock \in [Spaces -> Requests \cup {NULL}]
  /\ tx \in [Requests ->
       {Idle}
       \cup [pc: {"locking", "checking", "saving"},
             user: Users, space: Spaces, start: Times, end: Times]
       \cup [pc: {"cancelling"}, id: Nat]]

\* The README of the facilities: creating a booking locks the space to
\* prevent concurrent double-booking.  No two bookings in force overlap.
NoDoubleBooking ==
  \A i, j \in DOMAIN bookings :
    /\ i # j /\ bookings[i].space = bookings[j].space
    /\ bookings[i].status = "CONFIRMED" /\ bookings[j].status = "CONFIRMED"
    => bookings[i].end <= bookings[j].start \/ bookings[j].end <= bookings[i].start

\* Every request gets its answer: no transaction waits for a row for ever.
RequestEnds == \A r \in Requests : tx[r] # Idle ~> tx[r] = Idle

\* The bookings in force, as reservations of a calendar.
Reservation(i) == [id |-> i, user |-> bookings[i].user, space |-> bookings[i].space,
                   start |-> bookings[i].start, end |-> bookings[i].end]
InForce == {Reservation(i) : i \in {j \in DOMAIN bookings : bookings[j].status = "CONFIRMED"}}

Calendar == INSTANCE SpaceCalendar WITH given <- Len(bookings), inForce <- InForce

\* The bookings in force are those of a calendar in which every booking and
\* every cancellation is one step: whatever requests interleave and fail, a
\* user sees them take effect one at a time, at their commit.
RefinesCalendar == Calendar!Spec

(***************************************************************************)
(* The inductive invariant (FacilityBookingProofs)                         *)
(***************************************************************************)
\* A transaction past the lock holds the row of its space.
HoldsLock ==
  \A r \in Requests : tx[r].pc \in {"checking", "saving"} => lock[tx[r].space] = r

\* Nobody can take the time of a booking that is about to be saved.
SavingIsFree ==
  \A r \in Requests :
    tx[r].pc = "saving" => ~ExistsConflict(tx[r].space, tx[r].start, tx[r].end)

\* A booking spans some time; the one a request cancels exists.
Sound ==
  /\ \A i \in DOMAIN bookings : bookings[i].start < bookings[i].end
  /\ \A r \in Requests :
       /\ tx[r].pc = "cancelling" => tx[r].id \in DOMAIN bookings
       /\ tx[r].pc \in {"locking", "checking", "saving"} => tx[r].start < tx[r].end

IInv == TypeOK /\ HoldsLock /\ SavingIsFree /\ Sound /\ NoDoubleBooking
=============================================================================
