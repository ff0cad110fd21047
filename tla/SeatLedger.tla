----------------------------- MODULE SeatLedger -----------------------------
(***************************************************************************)
(* What the booking component promises of a trek's seats, without requests,*)
(* transactions or locks: an account of free seats and of the bookings that*)
(* hold one.  Seats move in single steps.  A seat is taken only when one is*)
(* free, and never leaves the account without a holder; a cancellation     *)
(* gives a seat back and ends a booking, but the code does not keep the two*)
(* together when a cancellation is disturbed (see Bookings!disturbed), so  *)
(* the account also has Surplus: a seat given back that no booking gave up.*)
(***************************************************************************)
EXTENDS Integers

CONSTANTS Treks, Bookings, Seats

VARIABLES
    listed,         \* treks that are not removed
    left,           \* free seats, by trek
    holders,        \* bookings that hold a seat, by trek
    former          \* bookings that have given theirs back, by trek

ledger == <<listed, left, holders, former>>

Init == /\ listed = Treks
        /\ left = Seats
        /\ holders = [t \in Treks |-> {}]
        /\ former = [t \in Treks |-> {}]

Used(b) == \E t \in Treks : b \in holders[t] \cup former[t]

Take(t, b) == /\ t \in listed /\ left[t] > 0 /\ ~Used(b)
              /\ left' = [left EXCEPT ![t] = @ - 1]
              /\ holders' = [holders EXCEPT ![t] = @ \cup {b}]
              /\ UNCHANGED <<listed, former>>

\* A removed trek has no seats to give a booking's seat back to.
Release(t, b) == /\ b \in holders[t]
                 /\ left' = IF t \in listed THEN [left EXCEPT ![t] = @ + 1] ELSE left
                 /\ holders' = [holders EXCEPT ![t] = @ \ {b}]
                 /\ former' = [former EXCEPT ![t] = @ \cup {b}]
                 /\ UNCHANGED listed

Surplus(t) == /\ t \in listed /\ holders[t] \cup former[t] # {}
              /\ left' = [left EXCEPT ![t] = @ + 1]
              /\ UNCHANGED <<listed, holders, former>>

Withdraw(t) == /\ listed' = listed \ {t}
               /\ UNCHANGED <<left, holders, former>>

Next == \E t \in Treks : \/ \E b \in Bookings : Take(t, b) \/ Release(t, b)
                         \/ Surplus(t)
                         \/ Withdraw(t)

Spec == Init /\ [][Next]_ledger
=============================================================================
