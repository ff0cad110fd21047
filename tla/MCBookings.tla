----------------------------- MODULE MCBookings -----------------------------
(* Small instances of Bookings for TLC.                                    *)
EXTENDS Bookings, TLC

CONSTANTS t1, t2, c1, c2, c3, u1, u2

\* One seat per trek: the last seat is the first.  Two: it is not.
OneSeat  == [t \in Treks |-> 1]
TwoSeats == [t \in Treks |-> 2]

\* Everybody acts for the same user, so that every ownership check passes ...
OneCaller    == [r \in Requests |-> u1]
OneOrganizer == [t \in Treks |-> u1]

\* ... or the first creator alone is another user.
TwoCallers == [r \in Requests |-> IF r = c1 THEN u2 ELSE u1]

\* Creates are interchangeable when all act for the same user.
Symmetric == Permutations(Creates)
=============================================================================
