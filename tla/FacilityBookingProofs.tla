----------------------- MODULE FacilityBookingProofs -----------------------
(***************************************************************************)
(* The lock of createBooking prevents double-booking, for every number of  *)
(* users, spaces and concurrent requests, and the transactions implement   *)
(* the calendar in which each of them is one step.                         *)
(***************************************************************************)
EXTENDS FacilityBooking, TLAPS

Creations == [pc: {"locking", "checking", "saving"},
              user: Users, space: Spaces, start: Times, end: Times]
Cancellations == [pc: {"cancelling"}, id: Nat]
Transactions == {Idle} \cup Creations \cup Cancellations

\* A transaction is what its program counter says.
LEMMA TransactionKinds ==
  ASSUME NEW t \in Transactions
  PROVE  /\ t.pc = "idle" <=> t = Idle
         /\ t.pc \in {"locking", "checking", "saving"} => t \in Creations
         /\ t.pc = "cancelling" => t \in Cancellations
  BY DEF Transactions, Creations, Cancellations, Idle

\* A creation moves on to another point of the program.
LEMMA MoveCreation ==
  ASSUME NEW t \in Creations, NEW pc \in {"locking", "checking", "saving"}
  PROVE  /\ [t EXCEPT !.pc = pc] \in Creations
         /\ [t EXCEPT !.pc = pc].pc = pc
         /\ [t EXCEPT !.pc = pc].space = t.space
         /\ [t EXCEPT !.pc = pc].start = t.start
         /\ [t EXCEPT !.pc = pc].end = t.end
  BY DEF Creations

\* Nothing is booked or asked for at first.
LEMMA InitEstablishes == Init => IInv
<1> SUFFICES ASSUME Init PROVE IInv
  OBVIOUS
<1>1. 0 \in Times
  BY TimeAssumption DEF Times
<1>2. TypeOK
  BY <1>1 DEF Init, TypeOK, Idle
<1>3. HoldsLock /\ SavingIsFree /\ Sound /\ NoDoubleBooking
  BY DEF Init, Idle, HoldsLock, SavingIsFree, Sound, NoDoubleBooking
<1>4. QED
  BY <1>2, <1>3 DEF IInv

\* The transactions of a state that satisfies the invariant.
LEMMA TxType == IInv => tx \in [Requests -> Transactions]
  BY DEF IInv, TypeOK, Transactions, Creations, Cancellations

\* A request is accepted.
LEMMA CreatePreserves ==
  ASSUME IInv, NEW r \in Requests, NEW u \in Users, NEW p \in Spaces,
         NEW s \in Times, NEW e \in Times, CreateBooking(r, u, p, s, e)
  PROVE  IInv'
<1> DEFINE t == Creating(u, p, s, e)
<1>1. t \in Creations /\ t.pc = "locking" /\ t.start = s /\ t.end = e /\ s < e
  BY DEF Creating, Creations, CreateBooking, BasicTimeRange
<1>2. tx \in [Requests -> Transactions]
  BY TxType
<1>3. tx' = [tx EXCEPT ![r] = t] /\ UNCHANGED <<now, bookings, lock>>
  BY DEF CreateBooking
<1> HIDE DEF t
<1>4. TypeOK'
  BY <1>1, <1>2, <1>3 DEF IInv, TypeOK, Transactions, Creations, Cancellations
<1>5. \A q \in Requests : tx'[q] = IF q = r THEN t ELSE tx[q]
  BY <1>2, <1>3
<1>6. HoldsLock' /\ SavingIsFree'
  BY <1>1, <1>3, <1>5 DEF IInv, HoldsLock, SavingIsFree, ExistsConflict
<1>7. Sound'
  BY <1>1, <1>3, <1>5 DEF IInv, Sound
<1>8. NoDoubleBooking'
  BY <1>3 DEF IInv, NoDoubleBooking
<1>9. QED
  BY <1>4, <1>6, <1>7, <1>8 DEF IInv

\* The row of the space is taken while nobody else holds it.
LEMMA LockPreserves ==
  ASSUME IInv, NEW r \in Requests, LockSpace(r)
  PROVE  IInv'
<1> DEFINE t == [tx[r] EXCEPT !.pc = "checking"]
           p == tx[r].space
<1>1. tx \in [Requests -> Transactions] /\ lock \in [Spaces -> Requests \cup {NULL}]
  BY TxType DEF IInv, TypeOK
<1>2. /\ tx[r].pc = "locking" /\ lock[p] = NULL
      /\ lock' = [lock EXCEPT ![p] = r] /\ tx' = [tx EXCEPT ![r] = t]
      /\ UNCHANGED <<now, bookings>>
  BY DEF LockSpace
<1>3. tx[r] \in Creations
  BY <1>1, <1>2, TransactionKinds
<1>4. /\ t \in Creations /\ t.pc = "checking" /\ t.space = p
      /\ t.start = tx[r].start /\ t.end = tx[r].end
  BY <1>3, MoveCreation
<1>5. p \in Spaces
  BY <1>3 DEF Creations
<1> HIDE DEF t, p
<1>6. TypeOK'
  BY <1>1, <1>2, <1>4, <1>5 DEF IInv, TypeOK, Transactions, Creations, Cancellations
<1>7. \A q \in Requests : tx'[q] = IF q = r THEN t ELSE tx[q]
  BY <1>1, <1>2
<1>8. HoldsLock'
  <2> SUFFICES ASSUME NEW q \in Requests, tx'[q].pc \in {"checking", "saving"}
               PROVE  lock'[tx'[q].space] = q
    BY DEF HoldsLock
  <2>1. CASE q = r
    BY <1>1, <1>2, <1>4, <1>5, <1>7, <2>1
  <2>2. CASE q # r
    <3>1. lock[tx[q].space] = q
      BY <1>7, <2>2 DEF IInv, HoldsLock
    <3>2. tx[q].space # p
      BY <1>2, <3>1, SpacesAssumption
    <3>3. QED
      BY <1>1, <1>2, <1>7, <2>2, <3>1, <3>2
  <2>3. QED
    BY <2>1, <2>2
<1>9. SavingIsFree'
  BY <1>2, <1>4, <1>7 DEF IInv, SavingIsFree, ExistsConflict
<1>10. Sound'
  BY <1>2, <1>4, <1>7 DEF IInv, Sound
<1>11. NoDoubleBooking'
  BY <1>2 DEF IInv, NoDoubleBooking
<1>12. QED
  BY <1>6, <1>8, <1>9, <1>10, <1>11 DEF IInv

\* A transaction that ends gives its row back, and nobody else's.
LEMMA EndTransaction ==
  ASSUME IInv, NEW r \in Requests, tx' = [tx EXCEPT ![r] = Idle],
         lock' \in [Spaces -> Requests \cup {NULL}],
         \A p \in Spaces : lock[p] # r => lock'[p] = lock[p]
  PROVE  /\ tx' \in [Requests -> Transactions]
         /\ \A q \in Requests : tx'[q] = IF q = r THEN Idle ELSE tx[q]
         /\ HoldsLock'
<1>1. tx \in [Requests -> Transactions]
  BY TxType
<1>2. \A q \in Requests : tx'[q] = IF q = r THEN Idle ELSE tx[q]
  BY <1>1
<1>3. HoldsLock'
  <2> SUFFICES ASSUME NEW q \in Requests, tx'[q].pc \in {"checking", "saving"}
               PROVE  lock'[tx'[q].space] = q
    BY DEF HoldsLock
  <2>1. q # r
    BY <1>2 DEF Idle
  <2>2. tx[q].pc \in {"checking", "saving"} /\ tx'[q] = tx[q]
    BY <1>2, <2>1
  <2>3. tx[q].space \in Spaces
    BY <1>1, <2>2, TransactionKinds DEF Creations
  <2>4. lock[tx[q].space] = q
    BY <2>2 DEF IInv, HoldsLock
  <2>5. QED
    BY <2>1, <2>2, <2>3, <2>4
<1>4. QED
  BY <1>1, <1>2, <1>3 DEF Transactions

\* The check lets a creation pass only if its time is free.
LEMMA CheckPreserves ==
  ASSUME IInv, NEW r \in Requests, CheckSpace(r)
  PROVE  IInv'
<1> DEFINE t == [tx[r] EXCEPT !.pc = "saving"]
           p == tx[r].space
<1>1. tx \in [Requests -> Transactions] /\ lock \in [Spaces -> Requests \cup {NULL}]
  BY TxType DEF IInv, TypeOK
<1>2. tx[r].pc = "checking" /\ UNCHANGED <<now, bookings>>
  BY DEF CheckSpace
<1>3. tx[r] \in Creations /\ p \in Spaces
  BY <1>1, <1>2, TransactionKinds DEF Creations
<1>4. lock[p] = r
  BY <1>2 DEF IInv, HoldsLock
<1>5. NoDoubleBooking'
  BY <1>2 DEF IInv, NoDoubleBooking
<1>6. CASE Available(p, tx[r].start, tx[r].end)
  <2>1. tx' = [tx EXCEPT ![r] = t] /\ UNCHANGED lock
    BY <1>6 DEF CheckSpace
  <2>2. /\ t \in Creations /\ t.pc = "saving" /\ t.space = p
        /\ t.start = tx[r].start /\ t.end = tx[r].end
    BY <1>3, MoveCreation
  <2>3. ~ExistsConflict(p, tx[r].start, tx[r].end)
    BY <1>6 DEF Available
  <2> HIDE DEF t, p
  <2>4. \A q \in Requests : tx'[q] = IF q = r THEN t ELSE tx[q]
    BY <1>1, <2>1
  <2>5. TypeOK'
    BY <1>1, <1>2, <2>1, <2>2 DEF IInv, TypeOK, Transactions, Creations, Cancellations
  <2>6. HoldsLock'
    BY <1>4, <2>1, <2>2, <2>4 DEF IInv, HoldsLock
  <2>7. SavingIsFree'
    BY <1>2, <2>2, <2>3, <2>4 DEF IInv, SavingIsFree, ExistsConflict
  <2>8. Sound'
    BY <1>2, <2>2, <2>4 DEF IInv, Sound
  <2>9. QED
    BY <1>5, <2>5, <2>6, <2>7, <2>8 DEF IInv
<1>7. CASE ~Available(p, tx[r].start, tx[r].end)
  <2>1. tx' = [tx EXCEPT ![r] = Idle] /\ lock' = [lock EXCEPT ![p] = NULL]
    BY <1>7 DEF CheckSpace
  <2>2. /\ lock' \in [Spaces -> Requests \cup {NULL}]
        /\ \A x \in Spaces : lock[x] # r => lock'[x] = lock[x]
    BY <1>1, <1>3, <1>4, <2>1
  <2>3. /\ tx' \in [Requests -> Transactions]
        /\ \A q \in Requests : tx'[q] = IF q = r THEN Idle ELSE tx[q]
        /\ HoldsLock'
    BY <2>1, <2>2, EndTransaction
  <2>4. TypeOK'
    BY <1>2, <2>2, <2>3 DEF IInv, TypeOK, Transactions, Creations, Cancellations
  <2>5. SavingIsFree' /\ Sound'
    BY <1>2, <2>3 DEF IInv, SavingIsFree, ExistsConflict, Sound, Idle
  <2>6. QED
    BY <1>5, <2>3, <2>4, <2>5 DEF IInv
<1>8. QED
  BY <1>6, <1>7

\* The new booking is of its space's only lock holder, so nobody else is
\* about to take the same time.
LEMMA CommitPreserves ==
  ASSUME IInv, NEW r \in Requests, CommitBooking(r)
  PROVE  IInv'
<1> DEFINE t == tx[r]
           b == NewBooking(t)
           n == Len(bookings)
<1>1. tx \in [Requests -> Transactions] /\ lock \in [Spaces -> Requests \cup {NULL}]
      /\ bookings \in Seq(Bookings)
  BY TxType DEF IInv, TypeOK
<1>2. /\ t.pc = "saving" /\ bookings' = Append(bookings, b)
      /\ lock' = [lock EXCEPT ![t.space] = NULL] /\ tx' = [tx EXCEPT ![r] = Idle]
      /\ UNCHANGED now
  BY DEF CommitBooking
<1>3. t \in Creations /\ t.space \in Spaces
  BY <1>1, <1>2, TransactionKinds DEF Creations
<1>4. /\ b \in Bookings /\ b.status = "CONFIRMED"
      /\ b.space = t.space /\ b.start = t.start /\ b.end = t.end
  BY <1>3 DEF NewBooking, Bookings, Status, Creations
<1>5. /\ t.start < t.end /\ lock[t.space] = r
      /\ ~ExistsConflict(t.space, t.start, t.end)
  BY <1>2 DEF IInv, Sound, HoldsLock, SavingIsFree
<1> HIDE DEF b
<1>6. /\ DOMAIN bookings' = DOMAIN bookings \cup {n + 1}
      /\ n + 1 \notin DOMAIN bookings
      /\ bookings'[n + 1] = b
      /\ \A i \in DOMAIN bookings : bookings'[i] = bookings[i]
      /\ bookings' \in Seq(Bookings)
  BY <1>1, <1>2, <1>4
<1> HIDE DEF n
<1>7. /\ lock' \in [Spaces -> Requests \cup {NULL}]
      /\ \A x \in Spaces : lock[x] # r => lock'[x] = lock[x]
  BY <1>1, <1>2, <1>3, <1>5
<1>8. /\ tx' \in [Requests -> Transactions]
      /\ \A q \in Requests : tx'[q] = IF q = r THEN Idle ELSE tx[q]
      /\ HoldsLock'
  BY <1>2, <1>7, EndTransaction
<1>9. TypeOK'
  BY <1>2, <1>6, <1>7, <1>8 DEF IInv, TypeOK, Transactions, Creations, Cancellations
<1>10. SavingIsFree'
  <2> SUFFICES ASSUME NEW q \in Requests, tx'[q].pc = "saving",
                      NEW i \in DOMAIN bookings',
                      Conflicts(bookings'[i], tx'[q].space, tx'[q].start, tx'[q].end)
               PROVE  FALSE
    BY DEF SavingIsFree, ExistsConflict
  <2>1. q # r /\ tx'[q] = tx[q]
    BY <1>8 DEF Idle
  <2>2. tx[q].space # t.space
    BY <1>5, <2>1 DEF IInv, HoldsLock
  <2>3. i \in DOMAIN bookings
    BY <1>4, <1>6, <2>1, <2>2 DEF Conflicts
  <2>4. QED
    BY <1>6, <2>1, <2>3 DEF IInv, SavingIsFree, ExistsConflict
<1>11. Sound'
  <2>1. \A i \in DOMAIN bookings' : bookings'[i].start < bookings'[i].end
    BY <1>4, <1>5, <1>6 DEF IInv, Sound
  <2>2. QED
    BY <1>6, <1>8, <2>1 DEF IInv, Sound, Idle
<1>12. NoDoubleBooking'
  <2>1. ASSUME NEW j \in DOMAIN bookings, bookings[j].space = t.space,
               bookings[j].status = "CONFIRMED"
        PROVE  t.end <= bookings[j].start \/ bookings[j].end <= t.start
    <3>1. ~Conflicts(bookings[j], t.space, t.start, t.end)
      BY <1>5 DEF ExistsConflict
    <3>2. bookings[j] \in Bookings
      BY <1>1
    <3>3. bookings[j].start \in Nat /\ bookings[j].end \in Nat
      BY <3>2, TimeAssumption DEF Bookings, Times
    <3>4. t.start \in Nat /\ t.end \in Nat
      BY <1>3, TimeAssumption DEF Creations, Times
    <3>5. QED
      BY <2>1, <3>1, <3>3, <3>4 DEF Conflicts
  <2> SUFFICES ASSUME NEW i \in DOMAIN bookings', NEW j \in DOMAIN bookings',
                      i # j, bookings'[i].space = bookings'[j].space,
                      bookings'[i].status = "CONFIRMED", bookings'[j].status = "CONFIRMED"
               PROVE  \/ bookings'[i].end <= bookings'[j].start
                      \/ bookings'[j].end <= bookings'[i].start
    BY DEF NoDoubleBooking
  <2>2. CASE i \in DOMAIN bookings /\ j \in DOMAIN bookings
    BY <1>6, <2>2 DEF IInv, NoDoubleBooking
  <2>3. CASE i = n + 1 /\ j \in DOMAIN bookings
    BY <1>4, <1>6, <2>1, <2>3
  <2>4. CASE i \in DOMAIN bookings /\ j = n + 1
    BY <1>4, <1>6, <2>1, <2>4
  <2>5. QED
    BY <1>6, <2>2, <2>3, <2>4
<1>13. QED
  BY <1>8, <1>9, <1>10, <1>11, <1>12 DEF IInv

\* A cancellation has read its booking.
LEMMA CancelPreserves ==
  ASSUME IInv, NEW r \in Requests, NEW i \in DOMAIN bookings, CancelBooking(r, i)
  PROVE  IInv'
<1> DEFINE t == [pc |-> "cancelling", id |-> i]
<1>1. tx \in [Requests -> Transactions] /\ i \in Nat
  BY TxType DEF IInv, TypeOK
<1>2. tx' = [tx EXCEPT ![r] = t] /\ UNCHANGED <<now, bookings, lock>>
  BY DEF CancelBooking
<1>3. t \in Cancellations /\ t.pc = "cancelling" /\ t.id = i
  BY <1>1 DEF Cancellations
<1> HIDE DEF t
<1>4. \A q \in Requests : tx'[q] = IF q = r THEN t ELSE tx[q]
  BY <1>1, <1>2
<1>5. TypeOK'
  BY <1>1, <1>2, <1>3 DEF IInv, TypeOK, Transactions, Creations, Cancellations
<1>6. HoldsLock' /\ SavingIsFree'
  BY <1>2, <1>3, <1>4 DEF IInv, HoldsLock, SavingIsFree, ExistsConflict
<1>7. Sound' /\ NoDoubleBooking'
  BY <1>2, <1>3, <1>4 DEF IInv, Sound, NoDoubleBooking
<1>8. QED
  BY <1>5, <1>6, <1>7 DEF IInv

\* A cancelled booking keeps its time and is out of everybody's way.
LEMMA CommitCancelPreserves ==
  ASSUME IInv, NEW r \in Requests, CommitCancel(r)
  PROVE  IInv'
<1> DEFINE k == tx[r].id
           b == [bookings[k] EXCEPT !.status = "CANCELLED"]
<1>1. /\ tx \in [Requests -> Transactions] /\ lock \in [Spaces -> Requests \cup {NULL}]
      /\ bookings \in Seq(Bookings)
  BY TxType DEF IInv, TypeOK
<1>2. /\ tx[r].pc = "cancelling" /\ bookings' = [bookings EXCEPT ![k] = b]
      /\ tx' = [tx EXCEPT ![r] = Idle] /\ UNCHANGED <<now, lock>>
  BY DEF CommitCancel
<1>3. k \in DOMAIN bookings
  BY <1>2 DEF IInv, Sound
<1>4. bookings[k] \in Bookings
  BY <1>1, <1>3
<1>5. /\ b \in Bookings /\ b.status = "CANCELLED" /\ b.space = bookings[k].space
      /\ b.start = bookings[k].start /\ b.end = bookings[k].end
  BY <1>4 DEF Bookings, Status
<1> HIDE DEF b, k
<1>6. /\ bookings' \in Seq(Bookings) /\ DOMAIN bookings' = DOMAIN bookings
      /\ \A i \in DOMAIN bookings : bookings'[i] = IF i = k THEN b ELSE bookings[i]
  BY <1>1, <1>2, <1>3, <1>5
<1>7. /\ tx' \in [Requests -> Transactions]
      /\ \A q \in Requests : tx'[q] = IF q = r THEN Idle ELSE tx[q]
      /\ HoldsLock'
  BY <1>1, <1>2, EndTransaction
<1>8. TypeOK'
  BY <1>1, <1>2, <1>6, <1>7 DEF IInv, TypeOK, Transactions, Creations, Cancellations
<1>9. SavingIsFree'
  BY <1>5, <1>6, <1>7 DEF IInv, SavingIsFree, ExistsConflict, Conflicts, Idle
<1>10. Sound'
  <2>1. \A i \in DOMAIN bookings' : bookings'[i].start < bookings'[i].end
    BY <1>3, <1>5, <1>6 DEF IInv, Sound
  <2>2. QED
    BY <1>6, <1>7, <2>1 DEF IInv, Sound, Idle
<1>11. NoDoubleBooking'
  BY <1>5, <1>6 DEF IInv, NoDoubleBooking
<1>12. QED
  BY <1>7, <1>8, <1>9, <1>10, <1>11 DEF IInv

\* The clock disturbs nothing that is written down.
LEMMA TickPreserves ==
  ASSUME IInv, Tick
  PROVE  IInv'
<1>1. now \in Times /\ now < MaxTime /\ now' = now + 1 /\ UNCHANGED <<bookings, lock, tx>>
  BY DEF Tick, IInv, TypeOK
<1>2. now' \in Times
  BY <1>1, TimeAssumption DEF Times
<1>3. TypeOK'
  BY <1>1, <1>2 DEF IInv, TypeOK
<1>4. QED
  BY <1>1, <1>3 DEF IInv, HoldsLock, SavingIsFree, ExistsConflict, Sound, NoDoubleBooking

\* A transaction that fails leaves no booking and no lock.
LEMMA RollBackPreserves ==
  ASSUME IInv, NEW r \in Requests, RollBack(r)
  PROVE  IInv'
<1>1. /\ tx' = [tx EXCEPT ![r] = Idle] /\ UNCHANGED <<now, bookings>>
      /\ lock' = [p \in Spaces |-> IF lock[p] = r THEN NULL ELSE lock[p]]
      /\ lock \in [Spaces -> Requests \cup {NULL}]
  BY DEF RollBack, IInv, TypeOK
<1>2. /\ lock' \in [Spaces -> Requests \cup {NULL}]
      /\ \A x \in Spaces : lock[x] # r => lock'[x] = lock[x]
  BY <1>1
<1>3. /\ tx' \in [Requests -> Transactions]
      /\ \A q \in Requests : tx'[q] = IF q = r THEN Idle ELSE tx[q]
      /\ HoldsLock'
  BY <1>1, <1>2, EndTransaction
<1>4. TypeOK'
  BY <1>1, <1>2, <1>3 DEF IInv, TypeOK, Transactions, Creations, Cancellations
<1>5. SavingIsFree' /\ Sound' /\ NoDoubleBooking'
  BY <1>1, <1>3 DEF IInv, SavingIsFree, ExistsConflict, Sound, NoDoubleBooking, Idle
<1>6. QED
  BY <1>3, <1>4, <1>5 DEF IInv

\* One case per action.
LEMMA StepPreserves == IInv /\ [Next]_vars => IInv'
<1> SUFFICES ASSUME IInv, [Next]_vars PROVE IInv'
  OBVIOUS
<1>1. ASSUME NEW r \in Requests, NEW u \in Users, NEW p \in Spaces,
             NEW s \in Times, NEW e \in Times, CreateBooking(r, u, p, s, e)
      PROVE  IInv'
  BY <1>1, CreatePreserves
<1>2. ASSUME NEW r \in Requests, NEW i \in DOMAIN bookings, CancelBooking(r, i)
      PROVE  IInv'
  BY <1>2, CancelPreserves
<1>3. ASSUME NEW r \in Requests, LockSpace(r) \/ Proceed(r) \/ RollBack(r)
      PROVE  IInv'
  BY <1>3, LockPreserves, CheckPreserves, CommitPreserves, CommitCancelPreserves,
     RollBackPreserves DEF Proceed
<1>4. CASE Tick
  BY <1>4, TickPreserves
<1>5. CASE UNCHANGED vars
  BY <1>5 DEF vars, IInv, TypeOK, HoldsLock, SavingIsFree, ExistsConflict, Sound,
     NoDoubleBooking
<1>6. QED
  BY <1>1, <1>2, <1>3, <1>4, <1>5 DEF Next

\* The inductive invariant holds in every reachable state.
THEOREM Invariant == Spec => []IInv
  BY InitEstablishes, StepPreserves, PTL DEF Spec

\* The variables keep their types: bookings, locks and transactions are
\* what the entities and the requests say.
THEOREM TypeCorrect == Spec => []TypeOK
<1>1. IInv => TypeOK
  BY DEF IInv
<1>2. QED
  BY <1>1, Invariant, PTL

\* The lock taken by createBooking prevents double-booking, however requests
\* interleave and wherever they fail.
THEOREM LockPreventsDoubleBooking == Spec => []NoDoubleBooking
<1>1. IInv => NoDoubleBooking
  BY DEF IInv
<1>2. QED
  BY <1>1, Invariant, PTL

(***************************************************************************)
(* Refinement                                                              *)
(***************************************************************************)
\* A commit is one reservation of the calendar: it clashes with none in force.
LEMMA CommitTakes ==
  ASSUME IInv, NEW r \in Requests, CommitBooking(r)
  PROVE  Calendar!Next
<1>1. tx \in [Requests -> Transactions] /\ bookings \in Seq(Bookings)
  BY TxType DEF IInv, TypeOK
<1> PICK n \in Nat : n = Len(bookings)
  BY <1>1
<1> DEFINE t == tx[r]
           v == [id |-> n + 1, user |-> t.user, space |-> t.space,
                 start |-> t.start, end |-> t.end]
<1>2. t.pc = "saving" /\ bookings' = Append(bookings, NewBooking(t))
  BY DEF CommitBooking
<1>3. t \in Creations
  BY <1>1, <1>2, TransactionKinds
<1>4. /\ t.user \in Users /\ t.space \in Spaces /\ t.start \in Times /\ t.end \in Times
  BY <1>3 DEF Creations
<1>5. ~ExistsConflict(t.space, t.start, t.end)
  BY <1>2 DEF IInv, SavingIsFree
<1>6. NewBooking(t) \in Bookings /\ NewBooking(t).status = "CONFIRMED"
  BY <1>3 DEF NewBooking, Bookings, Status, Creations
<1>7. /\ DOMAIN bookings' = DOMAIN bookings \cup {n + 1}
      /\ n + 1 \notin DOMAIN bookings
      /\ bookings'[n + 1] = NewBooking(t)
      /\ \A i \in DOMAIN bookings : bookings'[i] = bookings[i]
      /\ Len(bookings') = n + 1
  BY <1>1, <1>2, <1>6
<1>8. Reservation(n + 1)' = v
  BY <1>7 DEF Reservation, NewBooking
<1>9. \A i \in DOMAIN bookings : Reservation(i)' = Reservation(i)
  BY <1>7 DEF Reservation
<1>10. InForce' = InForce \cup {v}
  BY <1>6, <1>7, <1>8, <1>9 DEF InForce
<1>11. ASSUME NEW w \in InForce PROVE ~Calendar!Clash(v, w)
  <2>1. PICK i \in DOMAIN bookings : bookings[i].status = "CONFIRMED" /\ w = Reservation(i)
    BY DEF InForce
  <2>2. ~Conflicts(bookings[i], t.space, t.start, t.end)
    BY <1>5 DEF ExistsConflict
  <2>3. bookings[i] \in Bookings
    BY <1>1
  <2>4. /\ bookings[i].start \in Nat /\ bookings[i].end \in Nat
        /\ t.start \in Nat /\ t.end \in Nat
    BY <1>4, <2>3, TimeAssumption DEF Bookings, Times
  <2>5. w.space = bookings[i].space /\ w.start = bookings[i].start /\ w.end = bookings[i].end
    BY <2>1 DEF Reservation
  <2>6. QED
    BY <2>1, <2>2, <2>4, <2>5 DEF Conflicts, Calendar!Clash
<1>12. Calendar!Take(v)
  BY <1>7, <1>10, <1>11 DEF Calendar!Take
<1>13. QED
  BY <1>4, <1>12 DEF Calendar!Next

\* A cancellation gives one reservation up, or finds it given up already.
LEMMA CommitCancelGivesUp ==
  ASSUME IInv, NEW r \in Requests, CommitCancel(r)
  PROVE  Calendar!Next \/ UNCHANGED <<InForce, Len(bookings)>>
<1> DEFINE k == tx[r].id
           b == [bookings[k] EXCEPT !.status = "CANCELLED"]
<1>1. bookings \in Seq(Bookings)
  BY DEF IInv, TypeOK
<1>2. tx[r].pc = "cancelling" /\ bookings' = [bookings EXCEPT ![k] = b]
  BY DEF CommitCancel
<1>3. k \in DOMAIN bookings
  BY <1>2 DEF IInv, Sound
<1>4. bookings[k] \in Bookings
  BY <1>1, <1>3
<1>5. /\ b.status = "CANCELLED" /\ b.user = bookings[k].user /\ b.space = bookings[k].space
      /\ b.start = bookings[k].start /\ b.end = bookings[k].end /\ b \in Bookings
  BY <1>4 DEF Bookings, Status
<1> HIDE DEF b, k
<1>6. /\ DOMAIN bookings' = DOMAIN bookings /\ Len(bookings') = Len(bookings)
      /\ \A i \in DOMAIN bookings : bookings'[i] = IF i = k THEN b ELSE bookings[i]
  BY <1>1, <1>2, <1>3, <1>5
<1>7. \A i \in DOMAIN bookings : Reservation(i)' = Reservation(i)
  BY <1>5, <1>6 DEF Reservation
<1>8. \A i, j \in DOMAIN bookings : Reservation(i) = Reservation(j) => i = j
  BY DEF Reservation
<1>9. InForce' = InForce \ {Reservation(k)}
  BY <1>3, <1>5, <1>6, <1>7, <1>8 DEF InForce
<1>10. CASE Reservation(k) \in InForce
  BY <1>6, <1>9, <1>10 DEF Calendar!Next, Calendar!GiveUp
<1>11. CASE Reservation(k) \notin InForce
  BY <1>6, <1>9, <1>11
<1>12. QED
  BY <1>10, <1>11

\* Every other step leaves the calendar alone.
LEMMA StepImplements ==
  ASSUME IInv, [Next]_vars
  PROVE  [Calendar!Next]_<<InForce, Len(bookings)>>
<1>1. ASSUME UNCHANGED bookings PROVE UNCHANGED <<InForce, Len(bookings)>>
  BY <1>1 DEF InForce, Reservation
<1>2. ASSUME NEW r \in Requests, NEW u \in Users, NEW p \in Spaces,
             NEW s \in Times, NEW e \in Times, CreateBooking(r, u, p, s, e)
      PROVE  UNCHANGED bookings
  BY <1>2 DEF CreateBooking
<1>3. ASSUME NEW r \in Requests, NEW i \in DOMAIN bookings, CancelBooking(r, i)
      PROVE  UNCHANGED bookings
  BY <1>3 DEF CancelBooking
<1>4. ASSUME NEW r \in Requests, LockSpace(r) \/ CheckSpace(r) \/ RollBack(r)
      PROVE  UNCHANGED bookings
  BY <1>4 DEF LockSpace, CheckSpace, RollBack
<1>5. CASE Tick \/ UNCHANGED vars
  BY <1>1, <1>5 DEF Tick, vars
<1>6. QED
  BY <1>1, <1>2, <1>3, <1>4, <1>5, CommitTakes, CommitCancelGivesUp DEF Next, Proceed

\* The transactions of FacilitiesService implement the calendar in which a
\* booking and a cancellation are one step each.
THEOREM Implements == Spec => RefinesCalendar
<1>1. Init => Calendar!Init
  BY DEF Init, Calendar!Init, InForce
<1>2. IInv /\ [Next]_vars => [Calendar!Next]_<<InForce, Len(bookings)>>
  BY StepImplements
<1>3. QED
  BY <1>1, <1>2, Invariant, PTL DEF Spec, RefinesCalendar, Calendar!Spec
=============================================================================
