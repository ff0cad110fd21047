--------------------------- MODULE BookingsProofs ---------------------------
(***************************************************************************)
(* Bookings, proved for any number of treks, seats, requests and retries.  *)
(*                                                                         *)
(* TypeOK is inductive.  The accounts of the seats need to know who may    *)
(* write a trek: at most one open transaction (Exclusive), and the seat a  *)
(* create has seen free is still there when it commits (Reserved).  What a *)
(* cancellation gives back needs to know that, unless it was disturbed, it *)
(* is the only one of its booking and still carries its status             *)
(* (Undisturbed).                                                          *)
(***************************************************************************)
EXTENDS Bookings, TLAPS, FiniteSetTheorems

-----------------------------------------------------------------------------
(* A step of the system is one of these.                                   *)

Moves(r) ==
    \/ r \in Creates /\ Decrement(r)
    \/ r \in Creates /\ Insert(r)
    \/ r \in Creates /\ CommitBooking(r)
    \/ r \in Cancels /\ ReadBooking(r)
    \/ r \in Cancels /\ SaveBooking(r)
    \/ r \in Cancels /\ IncrementSeats(r)
    \/ r \in Cancels /\ CommitCancel(r)
    \/ r \in Updates /\ ReadTrek(r, "writeTrek")
    \/ r \in Updates /\ WriteTrek(r)
    \/ r \in Removes /\ ReadTrek(r, "deleteTrek")
    \/ r \in Removes /\ DeleteTrek(r)
    \/ InvalidateListCache(r)
    \/ Crash(r)

\* Every step of Next moves one request or nothing.
LEMMA StepMoves == ASSUME [Next]_vars
                   PROVE  (\E r \in Requests : Moves(r)) \/ UNCHANGED vars
  BY DEF Next, Step, CreateStep, CancelStep, UpdateStep, RemoveStep, Moves,
         Terminating

\* A retry stays within the bound and touches no other request.
LEMMA AbortTypes ==
  ASSUME TypeOK, NEW r \in Requests, NEW l \in {"idle", "save"}, Abort(r, l)
  PROVE  /\ pc' \in [Requests -> {"idle"} \cup InFlight \cup Terminal]
         /\ tries' \in [Requests -> 0 .. MaxRetries]
  <1>1. MaxRetries \in Nat
    BY DataAssumption
  <1>2. QED
    BY <1>1 DEF TypeOK, Abort, Forget, Goto, InFlight, Terminal

\* And so does the end of a transaction.
LEMMA ForgetTypes ==
  ASSUME TypeOK, NEW r \in Requests, Forget(r)
  PROVE  tries' \in [Requests -> 0 .. MaxRetries]
  <1>1. 0 \in 0 .. MaxRetries
    BY DataAssumption
  <1>2. QED
    BY <1>1 DEF TypeOK, Forget

\* The two pipelines keep a trek a trek.
LEMMA PipelineTypes ==
  ASSUME NEW d \in TrekDoc
  PROVE  AfterDecrement(d) \in TrekDoc /\ AfterIncrement(d) \in TrekDoc
  <1>1. /\ [d EXCEPT !.seatsLeft = @ - 1] \in TrekDoc
        /\ [d EXCEPT !.seatsLeft = @ + 1] \in TrekDoc
    BY DEF TrekDoc
  <1>2. ASSUME NEW e \in TrekDoc, NEW s \in {"upcoming", "closed"}
        PROVE  [e EXCEPT !.status = s] \in TrekDoc
    BY DEF TrekDoc
  <1>3. ASSUME NEW e \in TrekDoc, NEW cond \in BOOLEAN
        PROVE  /\ [e EXCEPT !.status = IF cond THEN "closed" ELSE @] \in TrekDoc
               /\ [e EXCEPT !.status = IF cond THEN "upcoming" ELSE @] \in TrekDoc
    BY <1>3, <1>2 DEF TrekDoc
  <1>4. QED
    BY <1>1, <1>3 DEF AfterDecrement, AfterIncrement

LEMMA TypeInit == Init => TypeOK
  BY DataAssumption DEF Init, TypeOK, TrekDoc, BookingDoc, InFlight, Terminal

LEMMA TypeStep == TypeOK /\ [Next]_vars => TypeOK'
  <1> SUFFICES ASSUME TypeOK, [Next]_vars PROVE TypeOK'
    OBVIOUS
  <1>1. CASE UNCHANGED vars
    BY <1>1 DEF TypeOK, vars, targets
  <1>2. ASSUME NEW r \in Requests, Moves(r) PROVE TypeOK'
    <2> USE DEF TypeOK, targets, InFlight, Terminal, Goto
    <2>1. CASE r \in Creates /\ Decrement(r)
      BY <2>1, AbortTypes, ForgetTypes DEF Decrement
    <2>2. CASE r \in Creates /\ Insert(r)
      BY <2>2, AbortTypes, ForgetTypes DEF Insert
    <2>3. CASE r \in Creates /\ CommitBooking(r)
      <3>1. CASE Abort(r, "idle") /\ UNCHANGED <<trek, booking, behind>>
        BY <2>3, <3>1, AbortTypes DEF CommitBooking
      <3>2. CASE ~(Abort(r, "idle") /\ UNCHANGED <<trek, booking, behind>>)
        <4>1. trek' \in [Treks -> TrekDoc]
          BY <2>3, <3>2, PipelineTypes DEF CommitBooking
        <4>2. booking' \in [Creates -> BookingDoc]
          BY <2>3, <3>2 DEF CommitBooking, BookingDoc
        <4>3. QED
          BY <2>3, <3>2, <4>1, <4>2, ForgetTypes DEF CommitBooking, NewVersion
      <3>3. QED
        BY <3>1, <3>2
    <2>4. CASE r \in Cancels /\ ReadBooking(r)
      BY <2>4 DEF ReadBooking
    <2>5. CASE r \in Cancels /\ SaveBooking(r)
      BY <2>5, AbortTypes DEF SaveBooking
    <2>6. CASE r \in Cancels /\ IncrementSeats(r)
      BY <2>6, AbortTypes DEF IncrementSeats, RollBackCancel
    <2>7. CASE r \in Cancels /\ CommitCancel(r)
      <3>1. CASE RollBackCancel(r) /\ UNCHANGED <<trek, booking, behind>>
        BY <2>7, <3>1, AbortTypes DEF CommitCancel, RollBackCancel
      <3>2. CASE ~(RollBackCancel(r) /\ UNCHANGED <<trek, booking, behind>>)
        <4>1. trek' \in [Treks -> TrekDoc]
          BY <2>7, <3>2, PipelineTypes DEF CommitCancel
        <4>2. booking' \in [Creates -> BookingDoc]
          <5> DEFINE b == onBooking[r]
                     d == [status  |-> IF r \in sends THEN "cancelled" ELSE booking[b].status,
                           stamped |-> TRUE]
          <5>1. d \in BookingDoc
            BY <2>7 DEF BookingDoc
          <5>2. booking' = [booking EXCEPT ![b] = d]
            BY <2>7, <3>2 DEF CommitCancel
          <5>3. QED
            BY <5>1, <5>2
        <4>3. QED
          BY <2>7, <3>2, <4>1, <4>2, ForgetTypes DEF CommitCancel, NewVersion
      <3>3. QED
        BY <3>1, <3>2
    <2>8. CASE r \in Updates /\ ReadTrek(r, "writeTrek")
      BY <2>8 DEF ReadTrek
    <2>9. CASE r \in Updates /\ WriteTrek(r)
      <3>1. trek' \in [Treks -> TrekDoc]
        <4>1. ASSUME NEW n \in NewTotals
              PROVE  [trek EXCEPT ![onTrek[r]].totalSeats = n] \in [Treks -> TrekDoc]
          <5>1. n \in Nat
            BY DataAssumption
          <5>2. ASSUME NEW d \in TrekDoc PROVE [d EXCEPT !.totalSeats = n] \in TrekDoc
            BY <5>1 DEF TrekDoc
          <5>3. QED
            BY <5>2
        <4>2. QED
          BY <2>9, <4>1 DEF WriteTrek
      <3>2. QED
        BY <2>9, <3>1 DEF WriteTrek, NewVersion
    <2>10. CASE r \in Removes /\ ReadTrek(r, "deleteTrek")
      BY <2>10 DEF ReadTrek
    <2>11. CASE r \in Removes /\ DeleteTrek(r)
      BY <2>11 DEF DeleteTrek, NewVersion, TrekDoc
    <2>12. CASE InvalidateListCache(r)
      BY <2>12 DEF InvalidateListCache
    <2>13. CASE Crash(r)
      BY <2>13, ForgetTypes DEF Crash
    <2> QED
      BY <1>2, <2>1, <2>2, <2>3, <2>4, <2>5, <2>6, <2>7, <2>8, <2>9, <2>10,
         <2>11, <2>12, <2>13 DEF Moves
  <1> QED
    BY <1>1, <1>2, StepMoves

\* The collections, the requests and what Mongoose remembers keep their types.
THEOREM Typing == Spec => []TypeOK
  BY TypeInit, TypeStep, PTL DEF Spec
-----------------------------------------------------------------------------
(* Who may write a trek.                                                   *)

Exclusive == \A t \in Treks : \A r1, r2 \in Bookers :
    trek[t].exists /\ HoldsTrek(r1, t) /\ HoldsTrek(r2, t) => r1 = r2

Reserved == \A c \in Creates : pc[c] \in {"insert", "commitBooking"} =>
    trek[onTrek[c]].exists /\ trek[onTrek[c]].seatsLeft > 0

Made == \A c \in Creates :
    /\ pc[c] \in {"idle", "insert", "commitBooking"} => booking[c].status = "none"
    /\ pc[c] \in {"invalidate", "done"} => booking[c].status # "none"

\* A cancellation has found its booking.
Found == \A k \in Cancels :
    pc[k] \in {"save", "increment", "commitCancel"} => booking[onBooking[k]].status # "none"

Locking == Exclusive /\ Reserved /\ Made /\ Found

\* What the pipelines do to the three fields the accounts speak of.
LEMMA Pipelines ==
  ASSUME NEW d \in TrekDoc
  PROVE  /\ AfterDecrement(d).exists = d.exists
         /\ AfterDecrement(d).seatsLeft = d.seatsLeft - 1
         /\ AfterDecrement(d).status = IF d.seatsLeft <= 2 THEN "closed" ELSE d.status
         /\ AfterIncrement(d).exists = d.exists
         /\ AfterIncrement(d).seatsLeft = d.seatsLeft + 1
         /\ AfterIncrement(d).status = IF d.seatsLeft > -2 THEN "upcoming" ELSE d.status
  BY DEF TrekDoc, AfterDecrement, AfterIncrement

LEMMA LockInit == Init => Locking
  BY SlotsAssumption DEF Init, Locking, Exclusive, Reserved, Made, Found, HoldsTrek, Bookers, Requests

LEMMA LockStep == TypeOK /\ Locking /\ [Next]_vars => Locking'
  <1> SUFFICES ASSUME TypeOK, Locking, [Next]_vars PROVE Locking'
    OBVIOUS
  <1> USE SlotsAssumption
          DEF TypeOK, Locking, Exclusive, Reserved, Made, Found, HoldsTrek, TrekOf,
              targets, Goto, Bookers, Requests
  <1>1. CASE UNCHANGED vars
    BY <1>1 DEF vars
  <1>2. ASSUME NEW r \in Requests, Moves(r) PROVE Locking'
    <2>1. CASE r \in Creates /\ Decrement(r)
      BY SMTT(30), <2>1 DEF Decrement, Abort, TrekFree
    <2>2. CASE r \in Creates /\ Insert(r)
      BY <2>2 DEF Insert, Abort
    <2>3. CASE r \in Creates /\ CommitBooking(r)
      <3>1. CASE Abort(r, "idle") /\ UNCHANGED <<trek, booking, behind>>
        BY <2>3, <3>1 DEF CommitBooking, Abort
      <3>2. CASE /\ trek' = [trek EXCEPT ![onTrek[r]] = AfterDecrement(@)]
                 /\ booking' = [booking EXCEPT ![r].status = "confirmed"]
                 /\ Goto(r, "invalidate")
        <4>1. \A t \in Treks :
                 /\ trek'[t].exists = trek[t].exists
                 /\ t # onTrek[r] => trek'[t] = trek[t]
          BY <2>3, <3>2, Pipelines
        <4>2. \A c \in Creates :
                 booking'[c].status = IF c = r THEN "confirmed" ELSE booking[c].status
          BY <2>3, <3>2 DEF BookingDoc
        <4>3. UNCHANGED targets
          BY <2>3 DEF CommitBooking
        <4>4. Exclusive' /\ Made' /\ Found'
          BY <2>3, <3>2, <4>1, <4>2, <4>3
        <4>5. Reserved'
          <5>1. ASSUME NEW c \in Creates, pc'[c] \in {"insert", "commitBooking"}
                PROVE  trek'[onTrek[c]].exists /\ trek'[onTrek[c]].seatsLeft > 0
            <6>1. c # r /\ pc[c] = pc'[c] /\ onTrek[c] \in Treks
              BY <2>3, <3>2, <5>1
            <6>2. trek[onTrek[c]].exists /\ trek[onTrek[c]].seatsLeft > 0
              BY <5>1, <6>1
            <6>3. onTrek[c] # onTrek[r]
              BY <2>3, <3>2, <5>1, <6>1, <6>2 DEF CommitBooking
            <6>4. QED
              BY <4>1, <6>1, <6>2, <6>3
          <5>2. QED
            BY <4>3, <5>1
        <4>6. QED
          BY <4>4, <4>5
      <3>3. QED
        BY <2>3, <3>1, <3>2 DEF CommitBooking
    <2>4. CASE r \in Cancels /\ ReadBooking(r)
      <3>1. /\ UNCHANGED <<trek, booking, targets>>
            /\ pc' = [pc EXCEPT ![r] = pc'[r]] /\ pc'[r] \in {"failed", "done", "save"}
            /\ pc'[r] = "save" => booking[onBooking[r]].status # "none"
        BY <2>4 DEF ReadBooking
      <3>2. QED
        BY <2>4, <3>1
    <2>5. CASE r \in Cancels /\ SaveBooking(r)
      BY <2>5 DEF SaveBooking, Abort
    <2>6. CASE r \in Cancels /\ IncrementSeats(r)
      BY <2>6 DEF IncrementSeats, RollBackCancel, Abort, TrekFree
    <2>7. CASE r \in Cancels /\ CommitCancel(r)
      <3>1. CASE RollBackCancel(r) /\ UNCHANGED <<trek, booking, behind>>
        BY SMTT(30), <2>7, <3>1 DEF CommitCancel, RollBackCancel, Abort
      <3>2. CASE ~(RollBackCancel(r) /\ UNCHANGED <<trek, booking, behind>>)
        <4>1. \A t \in Treks :
                 /\ trek'[t].exists = trek[t].exists
                 /\ trek[t].seatsLeft > 0 => trek'[t].seatsLeft > 0
          <5>1. \A t \in Treks : trek'[t] \in {trek[t], AfterIncrement(trek[t])}
            BY <2>7, <3>2 DEF CommitCancel
          <5>2. \A t \in Treks : trek[t] \in TrekDoc /\ trek[t].seatsLeft \in Int
            BY DEF TrekDoc
          <5>3. QED
            BY <5>1, <5>2, Pipelines
        <4>2. \A c \in Creates : booking'[c].status = "none" <=> booking[c].status = "none"
          <5>1. /\ booking[onBooking[r]].status # "none"
                /\ booking'[onBooking[r]].status # "none"
            BY <2>7, <3>2 DEF CommitCancel, BookingDoc
          <5>2. \A c \in Creates : c # onBooking[r] => booking'[c] = booking[c]
            BY <2>7, <3>2 DEF CommitCancel
          <5>3. QED
            BY <5>1, <5>2
        <4>3. UNCHANGED targets /\ Goto(r, "invalidate")
          BY <2>7, <3>2 DEF CommitCancel
        <4>4. pc' = [pc EXCEPT ![r] = "invalidate"] /\ r \notin Creates
          BY <2>7, <4>3
        <4>5. Exclusive' /\ Reserved' /\ Made'
          BY ZenonT(40), <4>1, <4>2, <4>3, <4>4
        <4>6. Found'
          BY <4>2, <4>3, <4>4
        <4>7. QED
          BY <4>5, <4>6
      <3>3. QED
        BY <3>1, <3>2
    <2>8. CASE r \in Updates /\ ReadTrek(r, "writeTrek")
      BY <2>8 DEF ReadTrek
    <2>9. CASE r \in Updates /\ WriteTrek(r)
      <3>1. \A t \in Treks : /\ trek'[t].exists = trek[t].exists
                             /\ trek'[t].seatsLeft = trek[t].seatsLeft
        BY <2>9 DEF WriteTrek, TrekDoc
      <3>2. QED
        BY <2>9, <3>1 DEF WriteTrek
    <2>10. CASE r \in Removes /\ ReadTrek(r, "deleteTrek")
      BY <2>10 DEF ReadTrek
    <2>11. CASE r \in Removes /\ DeleteTrek(r)
      BY <2>11 DEF DeleteTrek, TrekFree, TrekDoc
    <2>12. CASE InvalidateListCache(r)
      BY <2>12 DEF InvalidateListCache
    <2>13. CASE Crash(r)
      BY <2>13 DEF Crash, InFlight
    <2> QED
      BY <1>2, <2>1, <2>2, <2>3, <2>4, <2>5, <2>6, <2>7, <2>8, <2>9, <2>10,
         <2>11, <2>12, <2>13 DEF Moves
  <1> QED
    BY <1>1, <1>2, StepMoves
-----------------------------------------------------------------------------
(* A cancellation that nothing disturbed.                                  *)

Pending(k) == pc[k] \in {"save", "increment", "commitCancel"}

Undisturbed == \A k \in Cancels : onBooking[k] \notin disturbed =>
    /\ Pending(k) => booking[onBooking[k]].status = "confirmed"
    /\ Pending(k) => \A k2 \in Cancels :
                         Pending(k2) /\ onBooking[k2] = onBooking[k] => k2 = k
    /\ pc[k] = "save" => k \in dirty
    /\ pc[k] \in {"increment", "commitCancel"} => k \in sends
    /\ pc[k] \in {"invalidate", "done"} => booking[onBooking[k]].status = "cancelled"

LEMMA UndisturbedInit == Init => Undisturbed
  BY DEF Init, Undisturbed, Pending, Requests

LEMMA UndisturbedStep ==
    TypeOK /\ Locking /\ Undisturbed /\ [Next]_vars => Undisturbed'
  <1> SUFFICES ASSUME TypeOK, Made, Found, Undisturbed, [Next]_vars
               PROVE  Undisturbed'
    BY DEF Locking
  <1> USE SlotsAssumption
          DEF TypeOK, Undisturbed, Pending, targets, Goto, Bookers, Requests
  <1>1. CASE UNCHANGED vars
    BY <1>1 DEF vars
  <1>2. ASSUME NEW r \in Requests, Moves(r) PROVE Undisturbed'
    <2>1. CASE r \in Creates /\ Decrement(r)
      BY <2>1 DEF Decrement, Abort
    <2>2. CASE r \in Creates /\ Insert(r)
      BY <2>2 DEF Insert, Abort
    <2>3. CASE r \in Creates /\ CommitBooking(r)
      <3>1. booking[r].status = "none"
        BY <2>3 DEF CommitBooking, Made
      <3>2. \A c \in Creates : c # r => booking'[c].status = booking[c].status
        BY <2>3 DEF CommitBooking, BookingDoc
      <3>3. \A k \in Cancels : pc'[k] = pc[k]
        BY <2>3 DEF CommitBooking, Abort
      <3>4. UNCHANGED <<targets, dirty, sends, disturbed>>
        BY <2>3 DEF CommitBooking
      <3>5. \A k \in Cancels : /\ onBooking[k] \notin disturbed
                               /\ Pending(k) \/ pc[k] \in {"invalidate", "done"}
                               => onBooking[k] # r
        BY <3>1 DEF Found
      <3>6. QED
        BY <3>2, <3>3, <3>4, <3>5
    <2>4. CASE r \in Cancels /\ ReadBooking(r)
      BY <2>4 DEF ReadBooking, BeingCancelled
    <2>5. CASE r \in Cancels /\ SaveBooking(r)
      BY <2>5 DEF SaveBooking, Abort
    <2>6. CASE r \in Cancels /\ IncrementSeats(r)
      BY <2>6 DEF IncrementSeats, RollBackCancel, Abort
    <2>7. CASE r \in Cancels /\ CommitCancel(r)
      <3>1. CASE RollBackCancel(r) /\ UNCHANGED <<trek, booking, behind>>
        BY <2>7, <3>1 DEF CommitCancel, RollBackCancel, Abort
      <3>2. CASE ~(RollBackCancel(r) /\ UNCHANGED <<trek, booking, behind>>)
        <4> DEFINE b == onBooking[r]
        <4>1. /\ UNCHANGED <<targets, dirty, disturbed>>
              /\ sends' = sends \ {r}
              /\ Goto(r, "invalidate")
              /\ pc[r] = "commitCancel"
          BY <2>7, <3>2 DEF CommitCancel
        <4>2. /\ \A c \in Creates : c # b => booking'[c].status = booking[c].status
              /\ booking'[b].status = IF r \in sends THEN "cancelled"
                                                    ELSE booking[b].status
          BY <2>7, <3>2 DEF CommitCancel, BookingDoc
        <4>3. \A k \in Cancels \ {r} : onBooking[k] = b /\ b \notin disturbed
                                       => ~Pending(k)
          BY <2>7, <4>1
        <4>4. QED
          BY <2>7, <4>1, <4>2, <4>3
      <3>3. QED
        BY <3>1, <3>2
    <2>8. CASE r \in Updates /\ ReadTrek(r, "writeTrek")
      BY <2>8 DEF ReadTrek
    <2>9. CASE r \in Updates /\ WriteTrek(r)
      BY <2>9 DEF WriteTrek
    <2>10. CASE r \in Removes /\ ReadTrek(r, "deleteTrek")
      BY <2>10 DEF ReadTrek
    <2>11. CASE r \in Removes /\ DeleteTrek(r)
      BY <2>11 DEF DeleteTrek
    <2>12. CASE InvalidateListCache(r)
      BY <2>12 DEF InvalidateListCache
    <2>13. CASE Crash(r)
      BY <2>13 DEF Crash, InFlight
    <2> QED
      BY <1>2, <2>1, <2>2, <2>3, <2>4, <2>5, <2>6, <2>7, <2>8, <2>9, <2>10,
         <2>11, <2>12, <2>13 DEF Moves
  <1> QED
    BY <1>1, <1>2, StepMoves
-----------------------------------------------------------------------------
(* The accounts.  Only the two commits move a seat; Quiet says of a step    *)
(* that it moves none.                                                     *)

Listed == {t \in Treks : trek[t].exists}

Quiet(t) == /\ trek'[t].exists => trek[t].exists
            /\ trek'[t].seatsLeft = trek[t].seatsLeft
            /\ trek'[t].status = trek[t].status
            /\ Confirmed(t)' = Confirmed(t)
            /\ Cancelled(t)' = Cancelled(t)

Sold(t, c) == /\ trek[t].exists /\ trek[t].seatsLeft > 0
              /\ \A u \in Treks : c \notin Confirmed(u) \cup Cancelled(u)
              /\ Confirmed(t)' = Confirmed(t) \cup {c}
              /\ Cancelled(t)' = Cancelled(t)
              /\ Listed' = Listed
              /\ trek'[t] = AfterDecrement(trek[t])
              /\ UNCHANGED disturbed
              /\ \A u \in Treks : u # t => Quiet(u)

\* The seat comes back with its booking, or, after a disturbance, without.
Returned(t, b) ==
    /\ onTrek[b] = t
    /\ trek'[t] = IF trek[t].exists THEN AfterIncrement(trek[t]) ELSE trek[t]
    /\ Listed' = Listed
    /\ \/ /\ b \in Confirmed(t)
          /\ Confirmed(t)' = Confirmed(t) \ {b} /\ Cancelled(t)' = Cancelled(t) \cup {b}
       \/ /\ b \in disturbed /\ b \in Confirmed(t) \cup Cancelled(t)
          /\ Confirmed(t)' = Confirmed(t) /\ Cancelled(t)' = Cancelled(t)
    /\ UNCHANGED disturbed
    /\ \E k \in Cancels : onBooking[k] = b /\ pc[k] = "commitCancel" /\ pc'[k] = "invalidate"
    /\ \A u \in Treks : u # t => Quiet(u)

\* The commit of a create sells one free seat to one new booking.
LEMMA SellingStep ==
  ASSUME TypeOK, Locking, NEW c \in Creates, CommitBooking(c),
         ~(Abort(c, "idle") /\ UNCHANGED <<trek, booking, behind>>)
  PROVE  (\E t \in Treks : Sold(t, c)) /\ UNCHANGED <<onTrek, disturbed>>
  <1>1. /\ trek' = [trek EXCEPT ![onTrek[c]] = AfterDecrement(@)]
        /\ booking' = [booking EXCEPT ![c].status = "confirmed"]
        /\ UNCHANGED <<onTrek, disturbed>>
    BY DEF CommitBooking, targets
  <1>2. PICK t \in Treks : t = onTrek[c]
    BY DEF TypeOK
  <1>3. booking[c].status = "none" /\ trek[t].exists /\ trek[t].seatsLeft > 0
    BY <1>2 DEF CommitBooking, Locking, Made, Reserved
  <1>4. \A b \in Creates :
           booking'[b].status = IF b = c THEN "confirmed" ELSE booking[b].status
    BY <1>1 DEF TypeOK, BookingDoc
  <1>5. \A u \in Treks :
           /\ Confirmed(u)' = IF u = t THEN Confirmed(u) \cup {c} ELSE Confirmed(u)
           /\ Cancelled(u)' = Cancelled(u)
    BY <1>1, <1>2, <1>3, <1>4 DEF Confirmed, Cancelled
  <1>6. \A u \in Treks : c \notin Confirmed(u) \cup Cancelled(u)
    BY <1>3 DEF Confirmed, Cancelled
  <1>7. \A u \in Treks : u # t => Quiet(u)
    BY <1>1, <1>2, <1>5 DEF TypeOK, Quiet
  <1>8. trek'[t] = AfterDecrement(trek[t])
    BY <1>1, <1>2 DEF TypeOK
  <1>9. Listed' = Listed
    <2>1. trek'[t].exists = trek[t].exists
      BY <1>8, Pipelines DEF TypeOK
    <2>2. QED
      BY <1>1, <1>2, <2>1 DEF Listed, TypeOK
  <1>10. QED
    BY <1>1, <1>3, <1>5, <1>6, <1>7, <1>8, <1>9 DEF Sold

\* The commit of a cancel returns one seat.
LEMMA ReturningStep ==
  ASSUME TypeOK, Locking, Undisturbed, NEW k \in Cancels, CommitCancel(k),
         ~(RollBackCancel(k) /\ UNCHANGED <<trek, booking, behind>>)
  PROVE  /\ \E t \in Treks, b \in Creates : Returned(t, b)
         /\ UNCHANGED <<onTrek, disturbed>>
  <1>1. PICK b \in Creates : b = onBooking[k]
    BY DEF TypeOK
  <1>2. PICK t \in Treks : t = onTrek[b]
    BY DEF TypeOK
  <1>3. /\ trek' = IF trek[t].exists THEN [trek EXCEPT ![t] = AfterIncrement(@)] ELSE trek
        /\ booking' = [booking EXCEPT ![b] =
                         [status  |-> IF k \in sends THEN "cancelled" ELSE @.status,
                          stamped |-> TRUE]]
        /\ UNCHANGED <<onTrek, disturbed>>
        /\ pc[k] = "commitCancel" /\ pc'[k] = "invalidate"
    BY <1>1, <1>2 DEF CommitCancel, targets, TrekOf, Goto, TypeOK, Requests, Bookers
  <1>4. \A c \in Creates : booking'[c].status =
           IF c = b /\ k \in sends THEN "cancelled" ELSE booking[c].status
    BY <1>3 DEF TypeOK, BookingDoc
  <1>5. \A u \in Treks : Confirmed(u)' =
           IF u = t /\ k \in sends THEN Confirmed(u) \ {b} ELSE Confirmed(u)
    BY <1>2, <1>3, <1>4 DEF Confirmed
  <1>6. \A u \in Treks : Cancelled(u)' =
           IF u = t /\ k \in sends THEN Cancelled(u) \cup {b} ELSE Cancelled(u)
    BY <1>2, <1>3, <1>4 DEF Cancelled
  <1>7. b \in Confirmed(t) \cup Cancelled(t)
    BY <1>1, <1>2, <1>3 DEF Locking, Found, Confirmed, Cancelled, TypeOK, BookingDoc
  <1>8. b \notin disturbed => b \in Confirmed(t) /\ k \in sends
    BY <1>1, <1>2, <1>3 DEF Undisturbed, Pending, Confirmed
  <1>9. b \notin Confirmed(t) => Confirmed(t) \ {b} = Confirmed(t)
    OBVIOUS
  <1>10. \/ /\ b \in Confirmed(t)
            /\ Confirmed(t)' = Confirmed(t) \ {b} /\ Cancelled(t)' = Cancelled(t) \cup {b}
         \/ /\ b \in disturbed /\ b \in Confirmed(t) \cup Cancelled(t)
            /\ Confirmed(t)' = Confirmed(t) /\ Cancelled(t)' = Cancelled(t)
    <2>1. CASE k \in sends
      <3>1. b \notin Confirmed(t) => Cancelled(t) \cup {b} = Cancelled(t)
        BY <1>7
      <3>2. QED
        BY <2>1, <3>1, <1>5, <1>8, <1>9, <1>6, <1>7
    <2>2. CASE k \notin sends
      BY <2>2, <1>5, <1>8, <1>6, <1>7
    <2>3. QED
      BY <2>1, <2>2
  <1>11. trek'[t] = IF trek[t].exists THEN AfterIncrement(trek[t]) ELSE trek[t]
    BY <1>3 DEF TypeOK
  <1>12. \A u \in Treks : u # t => Quiet(u)
    BY <1>3, <1>5, <1>6 DEF TypeOK, Quiet
  <1>13. Listed' = Listed
    <2>1. trek'[t].exists = trek[t].exists
      BY <1>11, Pipelines DEF TypeOK
    <2>2. QED
      BY <1>3, <2>1 DEF Listed, TypeOK
  <1>14. QED
    BY <1>1, <1>2, <1>3, <1>10, <1>11, <1>12, <1>13 DEF Returned

\* Removing a trek is quiet too.
Unlisting == Listed' = Listed \/ \E d \in Treks : Listed' = Listed \ {d}

\* Every other step is quiet.
LEMMA SeatMoves ==
  ASSUME TypeOK, Locking, Undisturbed, [Next]_vars
  PROVE  /\ \/ \E t \in Treks, c \in Creates : Sold(t, c)
            \/ \E t \in Treks, b \in Creates : Returned(t, b)
            \/ (\A t \in Treks : Quiet(t)) /\ Unlisting
         /\ UNCHANGED onTrek /\ disturbed \subseteq disturbed'
  <1> DEFINE Goal == /\ \/ \E t \in Treks, c \in Creates : Sold(t, c)
                        \/ \E t \in Treks, b \in Creates : Returned(t, b)
                        \/ (\A t \in Treks : Quiet(t)) /\ Unlisting
                     /\ UNCHANGED onTrek /\ disturbed \subseteq disturbed'
  <1>1. ASSUME UNCHANGED <<trek, booking, onTrek>>, disturbed \subseteq disturbed'
        PROVE  Goal
    BY <1>1 DEF Quiet, Confirmed, Cancelled, Unlisting, Listed
  <1>2. CASE UNCHANGED vars
    BY <1>1, <1>2 DEF vars, targets
  <1>3. ASSUME NEW r \in Requests, Moves(r) PROVE Goal
    <2> HIDE DEF Goal
    <2>1. CASE r \in Creates /\ (Decrement(r) \/ Insert(r))
      BY <2>1, <1>1 DEF Decrement, Insert, targets
    <2>2. CASE r \in Creates /\ CommitBooking(r)
      <3>1. CASE Abort(r, "idle") /\ UNCHANGED <<trek, booking, behind>>
        BY <2>2, <3>1, <1>1 DEF CommitBooking, targets
      <3>2. CASE ~(Abort(r, "idle") /\ UNCHANGED <<trek, booking, behind>>)
        BY <2>2, <3>2, SellingStep DEF Goal
      <3>3. QED
        BY <3>1, <3>2
    <2>3. CASE r \in Cancels /\ ReadBooking(r)
      BY <2>3, <1>1 DEF ReadBooking, targets
    <2>4. CASE r \in Cancels /\ SaveBooking(r)
      BY <2>4, <1>1 DEF SaveBooking, targets
    <2>5. CASE r \in Cancels /\ IncrementSeats(r)
      BY <2>5, <1>1 DEF IncrementSeats, RollBackCancel, targets
    <2>6. CASE r \in Cancels /\ CommitCancel(r)
      <3>1. CASE RollBackCancel(r) /\ UNCHANGED <<trek, booking, behind>>
        BY <2>6, <3>1, <1>1 DEF CommitCancel, RollBackCancel, targets
      <3>2. CASE ~(RollBackCancel(r) /\ UNCHANGED <<trek, booking, behind>>)
        BY <2>6, <3>2, ReturningStep DEF Goal
      <3>3. QED
        BY <3>1, <3>2
    <2>7. CASE \/ r \in Updates /\ ReadTrek(r, "writeTrek")
               \/ r \in Removes /\ ReadTrek(r, "deleteTrek")
      BY <2>7, <1>1 DEF ReadTrek, targets
    <2>8. CASE r \in Updates /\ WriteTrek(r)
      <3>1. /\ UNCHANGED <<booking, onTrek, disturbed>>
            /\ \A t \in Treks : /\ trek'[t].exists = trek[t].exists
                                /\ trek'[t].seatsLeft = trek[t].seatsLeft
                                /\ trek'[t].status = trek[t].status
        BY <2>8 DEF WriteTrek, targets, TypeOK, TrekDoc
      <3>2. QED
        BY <3>1 DEF Goal, Quiet, Confirmed, Cancelled, Unlisting, Listed
    <2>9. CASE r \in Removes /\ DeleteTrek(r)
      <3>1. /\ UNCHANGED <<booking, onTrek, disturbed>>
            /\ \A t \in Treks : /\ trek'[t].exists => trek[t].exists
                                /\ trek'[t].seatsLeft = trek[t].seatsLeft
                                /\ trek'[t].status = trek[t].status
        BY <2>9 DEF DeleteTrek, targets, TypeOK, TrekDoc
      <3>2. Listed' = Listed \ {onTrek[r]} /\ onTrek[r] \in Treks
        BY <2>9 DEF DeleteTrek, Listed, TypeOK, TrekDoc
      <3>3. QED
        BY <3>1, <3>2 DEF Goal, Quiet, Confirmed, Cancelled, Unlisting
    <2>10. CASE InvalidateListCache(r) \/ Crash(r)
      BY <2>10, <1>1 DEF InvalidateListCache, Crash, targets
    <2>11. QED
      BY <1>3, <2>1, <2>2, <2>3, <2>4, <2>5, <2>6, <2>7, <2>8, <2>9, <2>10 DEF Moves
  <1>4. QED
    BY <1>2, <1>3, StepMoves
Accounts == NeverNegative /\ NoSeatLost /\ SeatsConserved /\ StatusTracksSeats

\* Confirmed(t) is finite, so that its bookings can be counted.
LEMMA ConfirmedFinite ==
  ASSUME NEW t
  PROVE  IsFiniteSet(Confirmed(t)) /\ Cardinality(Confirmed(t)) \in Nat
  BY FiniteAssumption, FS_Subset, FS_CardinalityType DEF Confirmed

LEMMA AccountsInit == Init => Accounts
  <1> SUFFICES ASSUME Init PROVE Accounts
    OBVIOUS
  <1>1. \A t \in Treks : Confirmed(t) = {}
    BY DEF Init, Confirmed
  <1>2. \A t \in Treks : /\ trek[t].exists /\ trek[t].status = "upcoming"
                         /\ trek[t].seatsLeft = Seats[t] /\ Seats[t] \in Nat \ {0}
    BY DataAssumption DEF Init
  <1>3. \A t \in Treks : Cardinality(Confirmed(t)) = 0
    BY <1>1, FS_EmptySet
  <1>4. QED
    BY <1>2, <1>3
       DEF Accounts, NeverNegative, NoSeatLost, SeatsConserved, StatusTracksSeats

LEMMA AccountsStep ==
    TypeOK /\ Locking /\ Undisturbed /\ Accounts /\ [Next]_vars => Accounts'
  <1> SUFFICES ASSUME TypeOK, Locking, Undisturbed, Accounts, [Next]_vars, NEW u \in Treks
               PROVE  /\ trek'[u].seatsLeft >= 0
                      /\ trek'[u].exists =>
                           trek'[u].seatsLeft + Cardinality(Confirmed(u)') >= Seats[u]
                      /\ trek'[u].exists /\ (\A b \in disturbed' : onTrek'[b] # u) =>
                           trek'[u].seatsLeft + Cardinality(Confirmed(u)') = Seats[u]
                      /\ trek'[u].seatsLeft = 0 => trek'[u].status = "closed"
                      /\ trek'[u].status = "closed" => trek'[u].seatsLeft <= 1
    BY DEF Accounts, NeverNegative, NoSeatLost, SeatsConserved, StatusTracksSeats
  <1> DEFINE n == Cardinality(Confirmed(u))
  <1>1. n \in Nat /\ IsFiniteSet(Confirmed(u))
    BY ConfirmedFinite
  <1>2. /\ trek[u] \in TrekDoc /\ trek[u].seatsLeft \in Nat
        /\ trek[u].exists => trek[u].seatsLeft + n >= Seats[u]
        /\ trek[u].exists /\ (\A b \in disturbed : onTrek[b] # u) =>
             trek[u].seatsLeft + n = Seats[u]
        /\ trek[u].seatsLeft = 0 => trek[u].status = "closed"
        /\ trek[u].status = "closed" => trek[u].seatsLeft <= 1
        /\ Seats[u] \in Nat
    BY DataAssumption
       DEF Accounts, NeverNegative, NoSeatLost, SeatsConserved, StatusTracksSeats,
           TypeOK, TrekDoc
  <1>3. UNCHANGED onTrek /\ disturbed \subseteq disturbed'
    BY SeatMoves
  <1>4. CASE Quiet(u)
    BY <1>2, <1>3, <1>4 DEF Quiet
  <1>5. ASSUME NEW c \in Creates, Sold(u, c)
        PROVE  /\ trek'[u].exists = trek[u].exists
               /\ trek[u].seatsLeft > 0
               /\ trek'[u].seatsLeft = trek[u].seatsLeft - 1
               /\ trek'[u].status = IF trek[u].seatsLeft <= 2 THEN "closed"
                                                           ELSE trek[u].status
               /\ Cardinality(Confirmed(u)') = n + 1
    <2>1. Cardinality(Confirmed(u) \cup {c}) = n + 1
      BY <1>1, <1>5, FS_AddElement DEF Sold
    <2>2. QED
      BY <1>2, <1>5, <2>1, Pipelines DEF Sold
  <1>6. ASSUME NEW b \in Creates, Returned(u, b)
        PROVE  /\ trek'[u].exists = trek[u].exists
               /\ IF trek[u].exists
                  THEN /\ trek'[u].seatsLeft = trek[u].seatsLeft + 1
                       /\ trek'[u].status = "upcoming"
                  ELSE trek'[u] = trek[u]
               /\ \/ Cardinality(Confirmed(u)') = n - 1
                  \/ Cardinality(Confirmed(u)') = n /\ b \in disturbed /\ onTrek[b] = u
    <2>1. b \in Confirmed(u) => Cardinality(Confirmed(u) \ {b}) = n - 1
      BY <1>1, FS_RemoveElement
    <2>2. \/ Cardinality(Confirmed(u)') = n - 1
          \/ Cardinality(Confirmed(u)') = n /\ b \in disturbed /\ onTrek[b] = u
      BY <1>6, <2>1 DEF Returned
    <2>3. CASE trek[u].exists
      <3>1. trek'[u] = AfterIncrement(trek[u])
        BY <1>6, <2>3 DEF Returned
      <3>2. trek[u].seatsLeft > -2
        BY <1>2
      <3>3. QED
        BY <1>2, <2>2, <2>3, <3>1, <3>2, Pipelines
    <2>4. CASE ~trek[u].exists
      BY <1>6, <2>2, <2>4 DEF Returned
    <2>5. QED
      BY <2>3, <2>4
  <1>7. CASE \E c \in Creates : Sold(u, c)
    BY <1>1, <1>2, <1>3, <1>5, <1>7
  <1>8. CASE \E b \in Creates : Returned(u, b)
    BY <1>1, <1>2, <1>3, <1>6, <1>8
  <1>9. QED
    BY <1>4, <1>7, <1>8, SeatMoves DEF Sold, Returned

-----------------------------------------------------------------------------
(* The theorems.                                                           *)

IInv == TypeOK /\ Locking /\ Undisturbed /\ Accounts

\* What the invariants of Bookings rest on holds in every reachable state.
THEOREM Inductive == Spec => []IInv
  <1>1. Init => IInv
    BY TypeInit, LockInit, UndisturbedInit, AccountsInit DEF IInv
  <1>2. IInv /\ [Next]_vars => IInv'
    BY TypeStep, LockStep, UndisturbedStep, AccountsStep DEF IInv
  <1>3. QED
    BY <1>1, <1>2, PTL DEF Spec

\* No interleaving of bookings, cancellations, retries and crashes makes a
\* trek's seatsLeft negative.
THEOREM SeatsNeverNegative == Spec => []NeverNegative
  BY Inductive, PTL DEF IInv, Accounts

\* No interleaving loses a seat of a listed trek.
THEOREM SeatsNeverLost == Spec => []NoSeatLost
  BY Inductive, PTL DEF IInv, Accounts

\* And only a disturbed cancellation can make one too many.
THEOREM SeatsAreConserved == Spec => []SeatsConserved
  BY Inductive, PTL DEF IInv, Accounts

\* The status derived in the pipelines follows the counter.
THEOREM StatusFollowsSeats == Spec => []StatusTracksSeats
  BY Inductive, PTL DEF IInv, Accounts

\* A request that answered with success did what it answered.
THEOREM AnswersHold == Spec => []AnswersAreTrue
  <1>1. IInv => AnswersAreTrue
    BY DEF IInv, Locking, Made, Undisturbed, AnswersAreTrue, TypeOK
  <1>2. QED
    BY <1>1, Inductive, PTL
-----------------------------------------------------------------------------
(* How far the accounts can go wrong.                                      *)

\* A booking becomes disturbed while it is confirmed, by a step that writes
\* no document.
LEMMA NewlyDisturbed ==
  ASSUME TypeOK, Undisturbed, [Next]_vars, NEW b \in disturbed' \ disturbed
  PROVE  booking[b].status = "confirmed" /\ UNCHANGED <<trek, booking>>
  <1>1. ~UNCHANGED disturbed
    OBVIOUS
  <1>2. PICK r \in Requests : Moves(r)
    BY <1>1, StepMoves DEF vars
  <1>3. CASE r \in Cancels /\ ReadBooking(r)
    BY <1>3, <1>1 DEF ReadBooking
  <1>4. CASE r \in Cancels /\ RollBackCancel(r) /\ UNCHANGED <<trek, booking>>
                          /\ pc[r] \in {"increment", "commitCancel"}
    <2>1. disturbed' = disturbed \cup {onBooking[r]}
      BY <1>4, <1>1 DEF RollBackCancel
    <2>2. b = onBooking[r]
      BY <2>1
    <2>3. QED
      BY <1>4, <2>2 DEF Undisturbed, Pending
  <1>5. CASE r \in Cancels /\ (IncrementSeats(r) \/ CommitCancel(r))
    BY <1>5, <1>4, <1>1 DEF IncrementSeats, CommitCancel
  <1>6. QED
    BY <1>1, <1>2, <1>3, <1>5
       DEF Moves, Decrement, Insert, CommitBooking, SaveBooking, ReadTrek, WriteTrek,
           DeleteTrek, InvalidateListCache, Crash

\* What a request names is fixed.
LEMMA TargetsFixed == ASSUME [Next]_vars PROVE UNCHANGED targets
  <1>1. ASSUME NEW r \in Requests, Moves(r) PROVE UNCHANGED targets
    BY <1>1 DEF Moves, Decrement, Insert, CommitBooking, ReadBooking, SaveBooking,
         IncrementSeats, CommitCancel, ReadTrek, WriteTrek, DeleteTrek,
         InvalidateListCache, Crash
  <1>2. QED
    BY <1>1, StepMoves DEF vars, targets

\* A step moves the place and the retries of its own request alone.
LEMMA OwnPc ==
  ASSUME TypeOK, NEW r \in Requests, Moves(r), NEW q \in Requests, q # r
  PROVE  pc'[q] = pc[q] /\ tries'[q] = tries[q]
  <1>1. \A l : Abort(r, l) => pc'[q] = pc[q] /\ tries'[q] = tries[q]
    BY DEF Abort, Forget, Goto, TypeOK
  <1>2. /\ \A l : Goto(r, l) => pc'[q] = pc[q]
        /\ Forget(r) => tries'[q] = tries[q]
    BY DEF Goto, Forget, TypeOK
  <1>3. CASE RollBackCancel(r)
    BY <1>1, <1>3 DEF RollBackCancel
  <1>4. CASE Decrement(r) \/ Insert(r) \/ CommitBooking(r)
    BY <1>1, <1>2, <1>4 DEF Decrement, Insert, CommitBooking
  <1>5. CASE ReadBooking(r) \/ SaveBooking(r) \/ IncrementSeats(r) \/ CommitCancel(r)
    BY <1>1, <1>2, <1>3, <1>5 DEF ReadBooking, SaveBooking, IncrementSeats, CommitCancel
  <1>6. CASE ReadTrek(r, "writeTrek") \/ WriteTrek(r) \/ ReadTrek(r, "deleteTrek")
             \/ DeleteTrek(r) \/ InvalidateListCache(r) \/ Crash(r)
    BY <1>2, <1>6 DEF ReadTrek, WriteTrek, DeleteTrek, InvalidateListCache, Crash
  <1>7. QED
    BY <1>4, <1>5, <1>6 DEF Moves

\* A cancel that has committed or ended stays so.
LEMMA EndedStay ==
  ASSUME TypeOK, Locking, Undisturbed, [Next]_vars, NEW t \in Treks
  PROVE  EndedCancels(t) \subseteq EndedCancels(t)'
  <1>1. ASSUME NEW k \in Cancels, pc[k] \in {"invalidate"} \cup Terminal
        PROVE  pc'[k] \in {"invalidate"} \cup Terminal
    <2>1. CASE UNCHANGED vars
      BY <1>1, <2>1 DEF vars
    <2>2. ASSUME NEW r \in Requests, Moves(r), r # k PROVE pc'[k] = pc[k]
      BY <2>2, OwnPc DEF Requests, Bookers
    <2>3. CASE Moves(k)
      <3>1. InvalidateListCache(k) \/ Crash(k)
        BY <1>1, <2>3, SlotsAssumption
           DEF Moves, Terminal, Bookers, ReadBooking, SaveBooking, IncrementSeats,
               CommitCancel
      <3>2. QED
        BY <3>1 DEF TypeOK, Requests, Bookers, InvalidateListCache, Crash, Goto, Terminal
    <2>4. QED
      BY <1>1, <2>1, <2>2, <2>3, StepMoves
  <1>2. UNCHANGED targets
    BY TargetsFixed
  <1>3. disturbed \subseteq disturbed'
    BY SeatMoves
  <1>4. QED
    BY <1>1, <1>2, <1>3 DEF EndedCancels, TrekOf, targets

\* What SurplusBounded counts can be counted.
LEMMA SurplusFinite ==
  ASSUME NEW t
  PROVE  /\ IsFiniteSet(Cancelled(t) \cap disturbed)
         /\ Cardinality(Cancelled(t) \cap disturbed) \in Nat
         /\ IsFiniteSet(EndedCancels(t))
         /\ Cardinality(EndedCancels(t)) \in Nat
         /\ IsFiniteSet(EndedCancels(t)')
         /\ Cardinality(EndedCancels(t)') \in Nat
  BY FiniteAssumption, FS_Subset, FS_CardinalityType DEF Cancelled, EndedCancels

LEMMA SurplusInit == Init => SurplusBounded
  <1> SUFFICES ASSUME Init, NEW t \in Treks
               PROVE  trek[t].seatsLeft + Cardinality(Confirmed(t))
                          + Cardinality(Cancelled(t) \cap disturbed)
                      <= Seats[t] + Cardinality(EndedCancels(t))
    BY DEF SurplusBounded
  <1>1. Confirmed(t) = {} /\ Cancelled(t) \cap disturbed = {}
    BY DEF Init, Confirmed
  <1>2. trek[t].seatsLeft = Seats[t] /\ Seats[t] \in Nat
    BY DataAssumption DEF Init
  <1>3. QED
    BY <1>1, <1>2, FS_EmptySet, SurplusFinite

LEMMA SurplusStep ==
    IInv /\ SurplusBounded /\ [Next]_vars => SurplusBounded'
  <1> SUFFICES ASSUME TypeOK, Locking, Undisturbed, Accounts, SurplusBounded, [Next]_vars,
                      NEW u \in Treks, trek'[u].exists
               PROVE  trek'[u].seatsLeft + Cardinality(Confirmed(u)')
                          + Cardinality(Cancelled(u)' \cap disturbed')
                      <= Seats[u] + Cardinality(EndedCancels(u)')
    BY DEF IInv, SurplusBounded
  <1> DEFINE held == Cardinality(Confirmed(u))
             gone == Cardinality(Cancelled(u) \cap disturbed)
             ended == Cardinality(EndedCancels(u))
  <1>1. /\ held \in Nat /\ gone \in Nat /\ ended \in Nat /\ Cardinality(EndedCancels(u)') \in Nat
        /\ trek[u].seatsLeft \in Int /\ Seats[u] \in Nat
    BY ConfirmedFinite, SurplusFinite, DataAssumption DEF TypeOK, TrekDoc
  <1>2. ended <= Cardinality(EndedCancels(u)')
    BY EndedStay, SurplusFinite, FS_Subset
  <1>3. trek[u].exists => trek[u].seatsLeft + held + gone <= Seats[u] + ended
    BY DEF SurplusBounded
  <1> HIDE DEF held, gone, ended
  <1>4. CASE Quiet(u)
    <2>1. Cancelled(u)' \cap disturbed' = Cancelled(u) \cap disturbed
      BY <1>4, NewlyDisturbed, SeatMoves DEF Quiet, Cancelled
    <2>2. /\ Cardinality(Cancelled(u)' \cap disturbed') = gone
          /\ Cardinality(Confirmed(u)') = held
          /\ trek'[u].seatsLeft = trek[u].seatsLeft /\ trek[u].exists
      BY <1>4, <2>1 DEF Quiet, gone, held
    <2>3. QED
      BY <1>1, <1>2, <1>3, <2>2
  <1>5. ASSUME NEW c \in Creates, Sold(u, c)
        PROVE  trek'[u].seatsLeft + Cardinality(Confirmed(u)')
                   + Cardinality(Cancelled(u)' \cap disturbed')
               <= Seats[u] + Cardinality(EndedCancels(u)')
    <2>1. Cardinality(Confirmed(u)') = held + 1
      BY <1>5, ConfirmedFinite, FS_AddElement DEF Sold, held
    <2>2. Cardinality(Cancelled(u)' \cap disturbed') = gone
      BY <1>5 DEF Sold, gone
    <2>3. trek'[u].seatsLeft = trek[u].seatsLeft - 1 /\ trek[u].exists
      BY <1>5, Pipelines DEF Sold, TypeOK
    <2>4. QED
      BY <1>1, <1>2, <1>3, <2>1, <2>2, <2>3
  <1>6. ASSUME NEW b \in Creates, Returned(u, b)
        PROVE  trek'[u].seatsLeft + Cardinality(Confirmed(u)')
                   + Cardinality(Cancelled(u)' \cap disturbed')
               <= Seats[u] + Cardinality(EndedCancels(u)')
    <2>1. trek[u].exists
      BY <1>6 DEF Returned
    <2>2. trek'[u].seatsLeft = trek[u].seatsLeft + 1
      BY <1>6, <2>1, Pipelines DEF Returned, TypeOK
    <2>3. UNCHANGED disturbed
      BY <1>6 DEF Returned
    <2>4. b \in Confirmed(u) => Cardinality(Confirmed(u) \ {b}) = held - 1
      BY ConfirmedFinite, FS_RemoveElement DEF held
    <2>5. CASE b \notin disturbed
      <3>1. Confirmed(u)' = Confirmed(u) \ {b} /\ b \in Confirmed(u)
        BY <1>6, <2>5 DEF Returned
      <3>2. Cardinality(Cancelled(u)' \cap disturbed') = gone
        <4>1. Cancelled(u)' \cap disturbed' = Cancelled(u) \cap disturbed
          BY <1>6, <2>5, <2>3 DEF Returned
        <4>2. QED
          BY <4>1 DEF gone
      <3>3. QED
        BY <1>1, <1>2, <1>3, <2>1, <2>2, <2>4, <3>1, <3>2
    <2>6. CASE b \in disturbed
      <3>1. ended + 1 <= Cardinality(EndedCancels(u)')
        <4>1. PICK k \in Cancels : /\ onBooking[k] = b /\ pc[k] = "commitCancel"
                                   /\ pc'[k] = "invalidate"
          BY <1>6 DEF Returned
        <4>2. k \notin EndedCancels(u)
          BY <4>1 DEF EndedCancels, Terminal
        <4>3. k \in EndedCancels(u)'
          BY <1>6, <2>3, <2>6, <4>1, TargetsFixed DEF EndedCancels, Returned, TrekOf, targets
        <4>4. EndedCancels(u) \cup {k} \subseteq EndedCancels(u)'
          BY <4>3, EndedStay
        <4>5. Cardinality(EndedCancels(u) \cup {k}) = ended + 1
          BY <4>2, SurplusFinite, FS_AddElement DEF ended
        <4>6. QED
          BY <4>4, <4>5, SurplusFinite, FS_Subset
      <3>2. CASE /\ b \in Confirmed(u) /\ Confirmed(u)' = Confirmed(u) \ {b}
                 /\ Cancelled(u)' = Cancelled(u) \cup {b}
        <4>1. Cancelled(u)' \cap disturbed' = (Cancelled(u) \cap disturbed) \cup {b}
          BY <2>3, <2>6, <3>2
        <4>2. b \notin Cancelled(u) \cap disturbed
          BY <3>2 DEF Confirmed, Cancelled
        <4>3. Cardinality(Cancelled(u)' \cap disturbed') = gone + 1
          BY <4>1, <4>2, SurplusFinite, FS_AddElement DEF gone
        <4>4. QED
          BY <1>1, <1>3, <2>1, <2>2, <2>4, <3>1, <3>2, <4>3
      <3>3. CASE Confirmed(u)' = Confirmed(u) /\ Cancelled(u)' = Cancelled(u)
        <4>1. /\ Cardinality(Confirmed(u)') = held
              /\ Cardinality(Cancelled(u)' \cap disturbed') = gone
          BY <2>3, <3>3 DEF held, gone
        <4>2. QED
          BY <1>1, <1>3, <2>1, <2>2, <3>1, <4>1
      <3>4. QED
        BY <1>6, <3>2, <3>3 DEF Returned
    <2>7. QED
      BY <2>5, <2>6
  <1>7. QED
    BY <1>4, <1>5, <1>6, SeatMoves DEF Sold, Returned

\* Further seats than a trek has are given back by repeated cancels of
\* disturbed bookings alone, and each gives back one at most.
THEOREM SurplusIsBounded == Spec => []SurplusBounded
  BY SurplusInit, SurplusStep, Inductive, PTL DEF Spec

\* A listed trek has more confirmed bookings than seats only after a cancel of
\* a disturbed booking has ended that cancelled nothing: what run
\* cancel_twice shows is the only way there.
OverbookedByRepeats ==
    \A t \in Treks : trek[t].exists /\ Cardinality(Confirmed(t)) > Seats[t] =>
        Cardinality(EndedCancels(t)) > Cardinality(Cancelled(t) \cap disturbed)

\* Nothing but such a cancel ever overbooks a trek.
THEOREM OverbookingExplained == Spec => []OverbookedByRepeats
  <1>1. TypeOK /\ NeverNegative /\ SurplusBounded => OverbookedByRepeats
    <2> SUFFICES ASSUME TypeOK, NeverNegative, SurplusBounded, NEW t \in Treks,
                        trek[t].exists, Cardinality(Confirmed(t)) > Seats[t]
                 PROVE  Cardinality(EndedCancels(t)) > Cardinality(Cancelled(t) \cap disturbed)
      BY DEF OverbookedByRepeats
    <2>1. /\ trek[t].seatsLeft \in Int /\ trek[t].seatsLeft >= 0 /\ Seats[t] \in Nat
          /\ Cardinality(Confirmed(t)) \in Nat
          /\ Cardinality(Cancelled(t) \cap disturbed) \in Nat
          /\ Cardinality(EndedCancels(t)) \in Nat
      BY ConfirmedFinite, SurplusFinite, DataAssumption DEF TypeOK, TrekDoc, NeverNegative
    <2>2. trek[t].seatsLeft + Cardinality(Confirmed(t))
              + Cardinality(Cancelled(t) \cap disturbed)
          <= Seats[t] + Cardinality(EndedCancels(t))
      BY DEF SurplusBounded
    <2>3. QED
      BY <2>1, <2>2
  <1>2. QED
    BY <1>1, Typing, SeatsNeverNegative, SurplusIsBounded, PTL

-----------------------------------------------------------------------------
(* What a cancellation writes.                                             *)

\* cancelledAt and the status go together, but for the bookings whose
\* cancellation was disturbed: those may be stamped and still confirmed.
AtomicUnlessDisturbed ==
    \A b \in Creates :
        /\ booking[b].status = "cancelled" => booking[b].stamped
        /\ booking[b].stamped => booking[b].status = "cancelled" \/ b \in disturbed

\* A cancelled booking stays exactly as it is, whatever else is retried or
\* cancels it again, and no booking disappears.
CancelIsFinal ==
    \A b \in Creates :
        /\ booking[b].status = "cancelled" => booking'[b] = booking[b]
        /\ booking[b].status # "none" => booking'[b].status # "none"

\* The two steps that write a booking.
LEMMA BookingWrites ==
  ASSUME TypeOK, Locking, Undisturbed, [Next]_vars
  PROVE  \/ UNCHANGED booking
         \/ \E c \in Creates : /\ booking[c].status = "none"
                               /\ booking' = [booking EXCEPT ![c].status = "confirmed"]
         \/ \E k \in Cancels :
               LET b == onBooking[k] IN
               /\ b \in Creates /\ booking[b].status # "none"
               /\ booking' = [booking EXCEPT ![b] =
                                [status  |-> IF k \in sends THEN "cancelled" ELSE @.status,
                                 stamped |-> TRUE]]
               /\ b \notin disturbed => k \in sends
               /\ UNCHANGED disturbed
  <1>1. CASE UNCHANGED vars
    BY <1>1 DEF vars
  <1>2. ASSUME NEW r \in Requests, Moves(r), ~UNCHANGED booking
        PROVE  \/ r \in Creates /\ CommitBooking(r)
               \/ r \in Cancels /\ CommitCancel(r)
    BY <1>2 DEF Moves, Decrement, Insert, ReadBooking, SaveBooking, IncrementSeats,
         ReadTrek, WriteTrek, DeleteTrek, InvalidateListCache, Crash
  <1>3. ASSUME NEW c \in Creates, CommitBooking(c), ~UNCHANGED booking
        PROVE  /\ booking[c].status = "none"
               /\ booking' = [booking EXCEPT ![c].status = "confirmed"]
    BY <1>3 DEF CommitBooking, Locking, Made
  <1>4. ASSUME NEW k \in Cancels, CommitCancel(k), ~UNCHANGED booking
        PROVE  /\ onBooking[k] \in Creates /\ booking[onBooking[k]].status # "none"
               /\ booking' = [booking EXCEPT ![onBooking[k]] =
                                [status  |-> IF k \in sends THEN "cancelled" ELSE @.status,
                                 stamped |-> TRUE]]
               /\ onBooking[k] \notin disturbed => k \in sends
               /\ UNCHANGED disturbed
    BY <1>4 DEF CommitCancel, Locking, Found, Undisturbed, TypeOK
  <1>5. QED
    BY <1>1, <1>2, <1>3, <1>4, StepMoves

LEMMA AtomicStep == IInv /\ AtomicUnlessDisturbed /\ [Next]_vars => AtomicUnlessDisturbed'
  <1> SUFFICES ASSUME TypeOK, Locking, Undisturbed, AtomicUnlessDisturbed, [Next]_vars
               PROVE  AtomicUnlessDisturbed'
    BY DEF IInv
  <1>1. disturbed \subseteq disturbed'
    BY SeatMoves
  <1>2. \A b \in Creates : booking[b] \in BookingDoc
    BY DEF TypeOK
  <1>3. CASE UNCHANGED booking
    BY <1>1, <1>3 DEF AtomicUnlessDisturbed
  <1>4. ASSUME NEW c \in Creates, booking[c].status = "none",
               booking' = [booking EXCEPT ![c].status = "confirmed"]
        PROVE  AtomicUnlessDisturbed'
    <2>1. \A b \in Creates : /\ booking'[b].stamped = booking[b].stamped
                             /\ b # c => booking'[b].status = booking[b].status
      BY <1>2, <1>4 DEF BookingDoc, TypeOK
    <2>2. booking'[c].status = "confirmed"
      BY <1>2, <1>4 DEF BookingDoc, TypeOK
    <2>3. booking[c].stamped => c \in disturbed
      BY <1>4 DEF AtomicUnlessDisturbed
    <2>4. QED
      BY <1>1, <2>1, <2>2, <2>3 DEF AtomicUnlessDisturbed
  <1>5. ASSUME NEW k \in Cancels, NEW b \in Creates, b = onBooking[k],
               booking' = [booking EXCEPT ![b] =
                              [status  |-> IF k \in sends THEN "cancelled" ELSE @.status,
                               stamped |-> TRUE]],
               b \notin disturbed => k \in sends
        PROVE  AtomicUnlessDisturbed'
    <2>1. \A c \in Creates : c # b => booking'[c] = booking[c]
      BY <1>5
    <2>2. /\ booking'[b].stamped
          /\ b \notin disturbed => booking'[b].status = "cancelled"
      BY <1>5 DEF TypeOK
    <2>3. QED
      BY <1>1, <2>1, <2>2 DEF AtomicUnlessDisturbed
  <1>6. QED
    BY <1>3, <1>4, <1>5, BookingWrites

\* A cancellation that nothing disturbed is atomic: status, cancelledAt and,
\* by SeatsAreConserved, the seat.
THEOREM CancelsAreAtomic == Spec => []AtomicUnlessDisturbed
  <1>1. Init => AtomicUnlessDisturbed
    BY DEF Init, AtomicUnlessDisturbed
  <1>2. QED
    BY <1>1, AtomicStep, Inductive, PTL DEF Spec

\* A cancelled booking is never confirmed again and no booking is lost.
THEOREM CancelsAreFinal == Spec => [][CancelIsFinal]_vars
  <1>1. IInv /\ AtomicUnlessDisturbed /\ [Next]_vars => [CancelIsFinal]_vars
    <2> SUFFICES ASSUME TypeOK, Locking, Undisturbed, AtomicUnlessDisturbed, [Next]_vars,
                        NEW b \in Creates
                 PROVE  /\ booking[b].status = "cancelled" => booking'[b] = booking[b]
                        /\ booking[b].status # "none" => booking'[b].status # "none"
      BY DEF IInv, CancelIsFinal
    <2>1. booking[b] \in BookingDoc
      BY DEF TypeOK
    <2>2. ASSUME NEW c \in Creates, booking[c].status = "none",
                 booking' = [booking EXCEPT ![c].status = "confirmed"]
          PROVE  /\ b # c => booking'[b] = booking[b]
                 /\ booking'[b].status # "none" \/ b # c
      BY <2>1, <2>2 DEF TypeOK, BookingDoc
    <2>3. ASSUME NEW k \in Cancels, NEW c \in Creates, booking[c].status # "none",
                 booking' = [booking EXCEPT ![c] =
                              [status  |-> IF k \in sends THEN "cancelled" ELSE @.status,
                               stamped |-> TRUE]]
          PROVE  /\ b # c => booking'[b] = booking[b]
                 /\ b = c => booking'[b].status # "none"
                 /\ b = c /\ booking[b].status = "cancelled" => booking'[b] = booking[b]
      <3>1. booking[b].status = "cancelled" =>
               booking[b] = [status |-> "cancelled", stamped |-> TRUE]
        BY <2>1 DEF AtomicUnlessDisturbed, BookingDoc
      <3>2. b = c => booking'[b] = [status  |-> IF k \in sends THEN "cancelled"
                                                             ELSE booking[b].status,
                                    stamped |-> TRUE]
        BY <2>3 DEF TypeOK
      <3>3. QED
        BY <2>3, <3>1, <3>2 DEF TypeOK
    <2>4. QED
      BY <2>2, <2>3, BookingWrites
  <1>2. QED
    BY <1>1, Inductive, CancelsAreAtomic, PTL DEF Spec

-----------------------------------------------------------------------------
(* The safety half of EveryCallEnds.                                       *)

\* The statements a request has ahead of it in this run of its callback.
Ahead(l) == CASE l = "idle" -> 5
              [] l = "save" -> 4
              [] l \in {"insert", "increment"} -> 3
              [] l \in {"commitBooking", "commitCancel", "writeTrek", "deleteTrek"} -> 2
              [] l = "invalidate" -> 1
              [] OTHER -> 0

\* With the runs it has left, as long as its transaction is not over.
Rank(r) == (IF Ahead(pc[r]) <= 1 THEN 0 ELSE 5 * (MaxRetries - tries[r])) + Ahead(pc[r])

\* Every step brings one request nearer to its end and sets no other back: a
\* conflict costs a retry, and there is no way for two requests to keep
\* rolling each other back.
StepCounts == \E r \in Requests :
    /\ Rank(r)' < Rank(r)
    /\ \A q \in Requests \ {r} : UNCHANGED <<pc[q], tries[q]>>

LEMMA AheadValues ==
  /\ \A l : Ahead(l) \in 0 .. 5
  /\ Ahead("idle") = 5 /\ Ahead("save") = 4
  /\ Ahead("insert") = 3 /\ Ahead("increment") = 3
  /\ \A l \in {"commitBooking", "commitCancel", "writeTrek", "deleteTrek"} : Ahead(l) = 2
  /\ Ahead("invalidate") = 1
  /\ \A l \in Terminal : Ahead(l) = 0
  BY DEF Ahead, Terminal

LEMMA RankIsNatural ==
  ASSUME TypeOK, NEW r \in Requests
  PROVE  Rank(r) \in 0 .. 5 * MaxRetries + 5
  <1>1. Ahead(pc[r]) \in 0 .. 5
    BY AheadValues
  <1>2. tries[r] \in 0 .. MaxRetries /\ MaxRetries \in Nat
    BY DataAssumption DEF TypeOK
  <1>3. QED
    BY <1>1, <1>2 DEF Rank

\* A step of a request goes ahead, or costs it a retry.
Advances(r) == /\ Ahead(pc'[r]) < Ahead(pc[r])
               /\ tries'[r] = tries[r] \/ Ahead(pc'[r]) <= 1

Retries(r) == /\ \E l \in {"idle", "save"} : Abort(r, l)
              /\ Ahead(pc[r]) > 1

LEMMA StepAdvances ==
  ASSUME TypeOK, NEW r \in Requests, Moves(r)
  PROVE  Advances(r) \/ Retries(r)
  <1> USE AheadValues DEF Advances, Retries
  <1>1. \A l : Goto(r, l) => pc'[r] = l
    BY DEF Goto, TypeOK
  <1>2. CASE r \in Creates /\ Decrement(r)
    BY <1>1, <1>2 DEF Decrement, Terminal
  <1>3. CASE r \in Creates /\ Insert(r)
    BY <1>1, <1>3 DEF Insert, Terminal
  <1>4. CASE r \in Creates /\ CommitBooking(r)
    BY <1>1, <1>4 DEF CommitBooking
  <1>5. CASE r \in Cancels /\ ReadBooking(r)
    BY <1>1, <1>5 DEF ReadBooking, Terminal
  <1>6. CASE r \in Cancels /\ SaveBooking(r)
    BY <1>1, <1>6 DEF SaveBooking
  <1>7. CASE r \in Cancels /\ IncrementSeats(r)
    BY <1>1, <1>7 DEF IncrementSeats, RollBackCancel
  <1>8. CASE r \in Cancels /\ CommitCancel(r)
    BY <1>1, <1>8 DEF CommitCancel, RollBackCancel
  <1>9. CASE \/ r \in Updates /\ ReadTrek(r, "writeTrek")
             \/ r \in Removes /\ ReadTrek(r, "deleteTrek")
    BY <1>1, <1>9 DEF ReadTrek, Terminal
  <1>10. CASE r \in Updates /\ WriteTrek(r)
    BY <1>1, <1>10 DEF WriteTrek, Terminal
  <1>11. CASE r \in Removes /\ DeleteTrek(r)
    BY <1>1, <1>11 DEF DeleteTrek
  <1>12. CASE InvalidateListCache(r)
    BY <1>1, <1>12 DEF InvalidateListCache, Terminal
  <1>13. CASE Crash(r)
    BY <1>1, <1>13 DEF Crash, InFlight, Terminal
  <1>14. QED
    BY <1>2, <1>3, <1>4, <1>5, <1>6, <1>7, <1>8, <1>9, <1>10, <1>11, <1>12, <1>13
       DEF Moves

\* A retry costs more than the statements it repeats.
LEMMA RankFalls ==
  ASSUME TypeOK, NEW r \in Requests, Moves(r)
  PROVE  Rank(r)' < Rank(r)
  <1>1. /\ tries[r] \in 0 .. MaxRetries /\ MaxRetries \in Nat
        /\ Ahead(pc[r]) \in 0 .. 5 /\ Ahead(pc'[r]) \in 0 .. 5
    BY AheadValues, DataAssumption DEF TypeOK
  <1>2. CASE Advances(r)
    <2> DEFINE left == 5 * (MaxRetries - tries[r])
               ahead == Ahead(pc[r])
               next == Ahead(pc'[r])
    <2>1. left \in Nat /\ ahead \in Nat /\ next \in Nat /\ next < ahead
      BY <1>1, <1>2 DEF Advances
    <2>2. CASE next <= 1
      BY <2>1, <2>2 DEF Rank
    <2>3. CASE ~(next <= 1)
      <3>1. tries'[r] = tries[r] /\ ~(ahead <= 1)
        BY <1>2, <2>1, <2>3 DEF Advances
      <3>2. Rank(r)' = left + next /\ Rank(r) = left + ahead
        BY <2>3, <3>1 DEF Rank
      <3>3. QED
        BY <2>1, <3>2
    <2>4. QED
      BY <2>2, <2>3
  <1>3. ASSUME NEW l \in {"idle", "save"}, Abort(r, l), Ahead(pc[r]) > 1
        PROVE  Rank(r)' < Rank(r)
    <2>1. \/ tries'[r] = tries[r] + 1
          \/ pc'[r] = "failed"
      BY <1>3 DEF Abort, Goto, TypeOK
    <2>2. pc'[r] = "failed" => Ahead(pc'[r]) = 0
      BY AheadValues DEF Terminal
    <2>3. QED
      BY <1>1, <1>3, <2>1, <2>2 DEF Rank
  <1>4. QED
    BY <1>2, <1>3, StepAdvances DEF Retries

\* No behaviour of the requests is longer than what all their ranks allow:
\* each takes at most 5 * MaxRetries + 5 steps.
THEOREM EveryStepCounts == Spec => [][StepCounts]_vars
  <1>1. TypeOK /\ [Next]_vars => [StepCounts]_vars
    BY RankFalls, OwnPc, StepMoves DEF StepCounts
  <1>2. QED
    BY <1>1, Typing, PTL DEF Spec

-----------------------------------------------------------------------------
(* The collections implement the account of SeatLedger.                    *)

\* The refinement mapping, by name.
Left    == [t \in Treks |-> trek[t].seatsLeft]
Holders == [t \in Treks |-> Confirmed(t)]
Former  == [t \in Treks |-> Cancelled(t)]

LEMMA LedgerInit == Init => Ledger!Init
  <1> SUFFICES ASSUME Init PROVE Ledger!Init
    OBVIOUS
  <1>1. Listed = Treks
    BY DEF Init, Listed
  <1>2. Left = Seats
    BY DataAssumption DEF Init, Left
  <1>3. \A t \in Treks : Confirmed(t) = {} /\ Cancelled(t) = {}
    BY DEF Init, Confirmed, Cancelled
  <1>4. QED
    BY <1>1, <1>2, <1>3 DEF Ledger!Init, Listed, Left

\* A sale is a Take, a return a Release or a Surplus, a removal a Withdraw.
LEMMA LedgerStep ==
  ASSUME TypeOK, Locking, Undisturbed, [Next]_vars
  PROVE  [Ledger!Next]_(Ledger!ledger)
  <1>1. ASSUME NEW t \in Treks, NEW c \in Creates, Sold(t, c)
        PROVE  Ledger!Take(t, c)
    <2>1. \A u \in Treks \ {t} : /\ trek'[u].seatsLeft = trek[u].seatsLeft
                                 /\ Confirmed(u)' = Confirmed(u)
                                 /\ Cancelled(u)' = Cancelled(u)
      BY <1>1 DEF Sold, Quiet
    <2>2. trek'[t].seatsLeft = trek[t].seatsLeft - 1
      BY <1>1, Pipelines DEF Sold, TypeOK
    <2>3. Left' = [Left EXCEPT ![t] = @ - 1]
      BY <2>1, <2>2 DEF Left
    <2>4. Holders' = [Holders EXCEPT ![t] = @ \cup {c}] /\ Former' = Former
      BY <1>1, <2>1 DEF Holders, Former, Sold
    <2>5. Listed' = Listed /\ t \in Listed /\ Left[t] > 0
      BY <1>1 DEF Sold, Listed, Left
    <2>6. \A u \in Treks : c \notin Holders[u] \cup Former[u]
      BY <1>1 DEF Sold, Holders, Former
    <2>7. QED
      BY <2>3, <2>4, <2>5, <2>6
         DEF Ledger!Take, Ledger!Used, Left, Holders, Former, Listed
  <1>2. ASSUME NEW t \in Treks, NEW b \in Creates, Returned(t, b)
        PROVE  [Ledger!Next]_(Ledger!ledger)
    <2>1. \A u \in Treks \ {t} : /\ trek'[u].seatsLeft = trek[u].seatsLeft
                                 /\ Confirmed(u)' = Confirmed(u)
                                 /\ Cancelled(u)' = Cancelled(u)
      BY <1>2 DEF Returned, Quiet
    <2>2. trek'[t].seatsLeft = IF t \in Listed THEN trek[t].seatsLeft + 1
                                              ELSE trek[t].seatsLeft
      BY <1>2, Pipelines DEF Returned, Listed, TypeOK
    <2>3. /\ Left' = IF t \in Listed THEN [Left EXCEPT ![t] = @ + 1] ELSE Left
          /\ Listed' = Listed
      BY <1>2, <2>1, <2>2 DEF Left, Returned
    <2>4. CASE /\ b \in Confirmed(t)
               /\ Confirmed(t)' = Confirmed(t) \ {b}
               /\ Cancelled(t)' = Cancelled(t) \cup {b}
      <3>1. /\ b \in Holders[t]
            /\ Holders' = [Holders EXCEPT ![t] = @ \ {b}]
            /\ Former' = [Former EXCEPT ![t] = @ \cup {b}]
        BY <2>1, <2>4 DEF Holders, Former
      <3>2. Ledger!Release(t, b)
        BY <2>3, <3>1 DEF Ledger!Release, Left, Holders, Former, Listed
      <3>3. QED
        BY <3>2 DEF Ledger!Next
    <2>5. CASE /\ b \in Confirmed(t) \cup Cancelled(t)
               /\ Confirmed(t)' = Confirmed(t) /\ Cancelled(t)' = Cancelled(t)
      <3>1. /\ Holders[t] \cup Former[t] # {}
            /\ Holders' = Holders /\ Former' = Former
        BY <2>1, <2>5 DEF Holders, Former
      <3>2. CASE t \in Listed
        <4>1. Ledger!Surplus(t)
          BY <2>3, <3>1, <3>2 DEF Ledger!Surplus, Left, Holders, Former, Listed
        <4>2. QED
          BY <4>1 DEF Ledger!Next
      <3>3. CASE t \notin Listed
        BY <2>3, <3>1, <3>3 DEF Ledger!ledger, Left, Holders, Former, Listed
      <3>4. QED
        BY <3>2, <3>3
    <2>6. QED
      BY <1>2, <2>4, <2>5 DEF Returned
  <1>3. ASSUME \A t \in Treks : Quiet(t), Unlisting
        PROVE  [Ledger!Next]_(Ledger!ledger)
    <2>1. Left' = Left /\ Holders' = Holders /\ Former' = Former
      BY <1>3 DEF Quiet, Left, Holders, Former
    <2>2. CASE Listed' = Listed
      BY <2>1, <2>2 DEF Ledger!ledger, Left, Holders, Former, Listed
    <2>3. ASSUME NEW d \in Treks, Listed' = Listed \ {d} PROVE Ledger!Withdraw(d)
      BY <2>1, <2>3 DEF Ledger!Withdraw, Left, Holders, Former, Listed
    <2>4. QED
      BY <1>3, <2>2, <2>3 DEF Unlisting, Ledger!Next
  <1>4. QED
    BY <1>1, <1>2, <1>3, SeatMoves DEF Ledger!Next

\* Whatever the requests do, the two collections move seats as the account
\* allows.
THEOREM Refinement == Spec => ImplementsLedger
  <1>1. IInv /\ [Next]_vars => [Ledger!Next]_(Ledger!ledger)
    BY LedgerStep DEF IInv
  <1>2. QED
    BY <1>1, Inductive, LedgerInit, PTL DEF Spec, ImplementsLedger, Ledger!Spec
=============================================================================
