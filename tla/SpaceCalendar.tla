--------------------------- MODULE SpaceCalendar ---------------------------
(***************************************************************************)
(* What the booking of spaces promises, with every request one atomic      *)
(* step: a space is given to one user at a time, a booking in force stays  *)
(* in force until it is cancelled, and a number stands for one booking     *)
(* for ever.                                                               *)
(***************************************************************************)
EXTENDS Naturals

CONSTANTS Users, Spaces, Times

VARIABLES
  inForce,  \* the reservations in force
  given     \* the numbers given out so far

Init == inForce = {} /\ given = 0

Clash(x, y) == x.space = y.space /\ x.start < y.end /\ y.start < x.end

\* A space is taken for a time at which nobody has it.
Take(v) ==
  /\ \A w \in inForce : ~Clash(v, w)
  /\ inForce' = inForce \cup {v}
  /\ given' = v.id

\* A reservation is given up.
GiveUp(v) ==
  /\ v \in inForce
  /\ inForce' = inForce \ {v}
  /\ UNCHANGED given

Next ==
  \/ \E u \in Users, p \in Spaces, s \in Times, e \in Times :
       Take([id |-> given + 1, user |-> u, space |-> p, start |-> s, end |-> e])
  \/ \E v \in inForce : GiveUp(v)

Spec == Init /\ [][Next]_<<inForce, given>>
=============================================================================
