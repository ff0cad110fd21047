------------------------------ MODULE Bookings ------------------------------
(***************************************************************************)
(* BookingsService (bookings/bookings.service.ts) together with the seat   *)
(* operations of TreksService (treks/treks.service.ts) and the organizer's *)
(* update and remove of the same trek.                                     *)
(*                                                                         *)
(* Every HTTP call is one request slot that runs once; a client that calls *)
(* again is another slot.  A step of a request is one await of its handler:*)
(* one MongoDB statement, one commit, one cache invalidation.  MongoDB's   *)
(* part, as far as the code relies on it, is                               *)
(*   - a statement inside a transaction that meets a document written by   *)
(*     another open transaction, or changed since the transaction's        *)
(*     snapshot, fails with a TransientTransactionError, and               *)
(*     session.withTransaction runs its callback again;                    *)
(*   - a single write outside any transaction waits until the document is  *)
(*     free;                                                               *)
(*   - the writes of a transaction appear together, at its commit.         *)
(* Because a written document stays locked until the commit, the model     *)
(* applies the transaction's writes in the commit step.                    *)
(***************************************************************************)
EXTENDS Integers, FiniteSets

CONSTANTS
    Treks,          \* trek listings already published
    Users,
    Creates,        \* POST /bookings requests; each names the booking it makes
    Cancels,        \* POST /bookings/:id/cancel requests
    Updates,        \* PATCH /treks/:id requests
    Removes,        \* DELETE /treks/:id requests
    Seats,          \* Seats[t]: totalSeats with which trek t was created
    NewTotals,      \* values of totalSeats an update may write
    Caller,         \* Caller[r]: the user whose token request r carries
    Organizer,      \* Organizer[t]: trek.organizerId
    MaxRetries      \* bound on the retries withTransaction makes in its 120 s

Requests == Creates \cup Cancels \cup Updates \cup Removes
Bookers  == Creates \cup Cancels

ASSUME SlotsAssumption ==
    /\ Creates \cap Cancels = {}
    /\ Bookers \cap (Updates \cup Removes) = {}
    /\ Updates \cap Removes = {}

ASSUME FiniteAssumption == IsFiniteSet(Creates) /\ IsFiniteSet(Cancels)

ASSUME DataAssumption ==
    /\ Seats \in [Treks -> Nat \ {0}]          \* create-trek.dto: @Min(1)
    /\ NewTotals \subseteq Nat \ {0}
    /\ Caller \in [Requests -> Users]
    /\ Organizer \in [Treks -> Users]
    /\ MaxRetries \in Nat

VARIABLES
    trek,           \* the treks collection
    booking,        \* the bookings collection, by creating request
    onTrek,         \* the trek a create, update or remove names
    onBooking,      \* the booking a cancel names
    pc,             \* where each request is
    tries,          \* retries of its withTransaction so far
    dirty,          \* cancels whose document still holds an unsent status
    sends,          \* cancels whose open transaction wrote the status
    behind,         \* cancels whose snapshot of the trek is out of date
    disturbed       \* auxiliary: bookings whose cancellation was disturbed

vars == <<trek, booking, onTrek, onBooking, pc, tries, dirty, sends, behind,
          disturbed>>

targets == <<onTrek, onBooking>>

-----------------------------------------------------------------------------
(* Documents.                                                              *)

TrekDoc    == [exists: BOOLEAN, totalSeats: Nat, seatsLeft: Int,
               status: {"upcoming", "closed"}]
BookingDoc == [status: {"none", "confirmed", "cancelled"}, stamped: BOOLEAN]

DecrementForgetsStatus(d) == [d EXCEPT !.seatsLeft = @ - 1]         \* mutant

\* decrementSeats: the second stage of the pipeline already sees the
\* decremented seatsLeft and subtracts one more before it compares.
AfterDecrement(d) ==
    LET stage1 == [d EXCEPT !.seatsLeft = @ - 1]
    IN  [stage1 EXCEPT !.status = IF stage1.seatsLeft - 1 <= 0 THEN "closed" ELSE @]

IncrementForgotten(d) == d                                          \* mutant

\* Mutant: both stages of the pipeline add the seat.
IncrementInBothStages(d) == [d EXCEPT !.seatsLeft = @ + 2, !.status = "upcoming"]

\* incrementSeats: again the second stage sees the new seatsLeft.
AfterIncrement(d) ==
    LET stage1 == [d EXCEPT !.seatsLeft = @ + 1]
    IN  [stage1 EXCEPT !.status = IF stage1.seatsLeft + 1 > 0 THEN "upcoming" ELSE @]

-----------------------------------------------------------------------------
(* Requests and the locks of their open transactions.                      *)

InFlight == {"insert", "commitBooking", "save", "increment", "commitCancel",
             "writeTrek", "deleteTrek", "invalidate"}
Terminal == {"done", "failed", "crashed"}

TrekOf(r) == IF r \in Cancels THEN onTrek[onBooking[r]] ELSE onTrek[r]

\* Mutant: a transaction begun by hand, which a failing call leaves open.
HoldsTrekOnFailure(r, t) ==
    /\ TrekOf(r) = t
    /\ pc[r] \in {"insert", "commitBooking", "commitCancel", "failed"}

\* r's open transaction has written trek t.
HoldsTrek(r, t) == /\ TrekOf(r) = t
                   /\ pc[r] \in {"insert", "commitBooking", "commitCancel"}

NoLock(t) == TRUE                                                   \* mutant

\* A removed trek has no document left to lock.
TrekFree(t) == trek[t].exists => \A r \in Bookers : ~HoldsTrek(r, t)

HoldsBooking(k, b) == onBooking[k] = b /\ pc[k] \in {"increment", "commitCancel"}

BookingFree(b) == \A k \in Cancels : ~HoldsBooking(k, b)

Confirmed(t) == {b \in Creates : onTrek[b] = t /\ booking[b].status = "confirmed"}
Cancelled(t) == {b \in Creates : onTrek[b] = t /\ booking[b].status = "cancelled"}

\* A write of trek t becomes visible: the transactions that already took
\* their snapshot and go on to write t will meet a write conflict.
NewVersion(t) == behind' = behind \cup {k \in Cancels : /\ trek[t].exists
                                                        /\ pc[k] = "increment"
                                                        /\ TrekOf(k) = t}

\* withTransaction has returned or thrown: its count of retries is gone.
Forget(r) == tries' = [tries EXCEPT ![r] = 0]

Goto(r, l) == pc' = [pc EXCEPT ![r] = l]

\* Mutant: the limit on the retries is never compared.
AbortUnlimited(r, callback) == /\ tries' = [tries EXCEPT ![r] = @ + 1]
                               /\ Goto(r, callback)

\* session.withTransaction after an error: a transient one runs the callback
\* again until the time limit is over, then the error reaches the caller.
Abort(r, callback) ==
    \/ /\ tries[r] < MaxRetries
       /\ tries' = [tries EXCEPT ![r] = @ + 1]
       /\ Goto(r, callback)
    \/ /\ Goto(r, "failed")
       /\ Forget(r)

-----------------------------------------------------------------------------
(* The treks as TreksService.create published them, nothing booked yet.    *)

Init ==
    /\ trek = [t \in Treks |-> [exists |-> TRUE, totalSeats |-> Seats[t],
                                seatsLeft |-> Seats[t], status |-> "upcoming"]]
    /\ booking = [b \in Creates |-> [status |-> "none", stamped |-> FALSE]]
    /\ onTrek \in [Creates \cup Updates \cup Removes -> Treks]
    /\ onBooking \in [Cancels -> Creates]
    /\ pc = [r \in Requests |-> "idle"]
    /\ tries = [r \in Requests |-> 0]
    /\ dirty = {} /\ sends = {} /\ behind = {} /\ disturbed = {}

-----------------------------------------------------------------------------
(* BookingsService.create.                                                 *)

\* decrementSeats: findOneAndUpdate with seatsLeft > 0 in the filter.
Decrement(c) ==
    /\ pc[c] = "idle"
    /\ LET t == onTrek[c]
           matches == trek[t].exists /\ trek[t].seatsLeft > 0
       IN  \/ /\ ~matches                       \* "No seats left on this trek."
              /\ Goto(c, "failed")
              /\ Forget(c)
           \/ /\ matches /\ TrekFree(t)
              /\ Goto(c, "insert")
              /\ UNCHANGED tries
           \/ /\ matches /\ ~TrekFree(t)        \* write conflict
              /\ Abort(c, "idle")
    /\ UNCHANGED <<trek, booking, targets, dirty, sends, behind, disturbed>>

\* Mutant: withTransaction is not awaited.
InsertUnawaited(c) ==
    /\ pc[c] = "insert"
    /\ Goto(c, "commitBooking") \/ Goto(c, "invalidate")
    /\ UNCHANGED <<trek, booking, targets, tries, dirty, sends, behind, disturbed>>

\* bookingModel.create inside the transaction.  The confirmation code is
\* unique: one that another booking has ends the request.
Insert(c) ==
    /\ pc[c] = "insert"
    /\ \/ /\ Goto(c, "commitBooking")
          /\ UNCHANGED tries
       \/ /\ \E b \in Creates : booking[b].status # "none"     \* E11000
          /\ Goto(c, "failed")
          /\ Forget(c)
       \/ Abort(c, "idle")                                     \* transient
    /\ UNCHANGED <<trek, booking, targets, dirty, sends, behind, disturbed>>

CommitBooking(c) ==
    /\ pc[c] = "commitBooking"
    /\ \/ /\ trek' = [trek EXCEPT ![onTrek[c]] = AfterDecrement(@)]
          /\ booking' = [booking EXCEPT ![c].status = "confirmed"]
          /\ NewVersion(onTrek[c])
          /\ Goto(c, "invalidate")
          /\ Forget(c)
       \/ /\ Abort(c, "idle")
          /\ UNCHANGED <<trek, booking, behind>>
    /\ UNCHANGED <<targets, dirty, sends, disturbed>>

-----------------------------------------------------------------------------
(* BookingsService.cancel.                                                 *)

\* Another cancellation of b has read "confirmed" and not committed yet.
BeingCancelled(b) == \E k \in Cancels :
    onBooking[k] = b /\ pc[k] \in {"save", "increment", "commitCancel"}

\* findById and the status check, both outside the transaction.
ReadBooking(k) ==
    /\ pc[k] = "idle"
    /\ LET b == onBooking[k] IN
       \/ /\ booking[b].status = "none" \/ Caller[b] # Caller[k]    \* 404, 403
          /\ Goto(k, "failed")
          /\ UNCHANGED <<dirty, disturbed>>
       \/ /\ booking[b].status = "cancelled" /\ Caller[b] = Caller[k]
          /\ Goto(k, "done")
          /\ UNCHANGED <<dirty, disturbed>>
       \/ /\ booking[b].status = "confirmed" /\ Caller[b] = Caller[k]
          /\ Goto(k, "save")
          /\ dirty' = dirty \cup {k}
          /\ disturbed' = IF BeingCancelled(b) THEN disturbed \cup {b} ELSE disturbed
    /\ UNCHANGED <<trek, booking, targets, tries, sends, behind>>

\* The callback up to booking.save({session}).  Mongoose sends the modified
\* paths only.  A save that fails keeps them modified; one that is accepted
\* clears them, and nothing restores them when the transaction is rolled
\* back, so a second run of the callback finds status already 'cancelled'
\* and sends cancelledAt alone.
SaveBooking(k) ==
    /\ pc[k] = "save"
    /\ \/ /\ BookingFree(onBooking[k])
          /\ sends' = IF k \in dirty THEN sends \cup {k} ELSE sends \ {k}
          /\ dirty' = dirty \ {k}
          /\ behind' = behind \ {k}
          /\ Goto(k, "increment")
          /\ UNCHANGED tries
       \/ /\ Abort(k, "save")
          /\ UNCHANGED <<dirty, sends, behind>>
    /\ UNCHANGED <<trek, booking, targets, disturbed>>

\* The transaction is rolled back after booking.save had been accepted.
RollBackCancel(k) ==
    /\ Abort(k, "save")
    /\ sends' = sends \ {k}
    /\ disturbed' = IF pc'[k] = "save" THEN disturbed \cup {onBooking[k]} ELSE disturbed

\* incrementSeats: an updateOne by _id, which matches nothing once the trek
\* is removed.
IncrementSeats(k) ==
    /\ pc[k] = "increment"
    /\ \/ /\ k \notin behind
          /\ TrekFree(TrekOf(k))
          /\ Goto(k, "commitCancel")
          /\ UNCHANGED <<tries, sends, disturbed>>
       \/ RollBackCancel(k)
    /\ UNCHANGED <<trek, booking, targets, dirty, behind>>

CommitCancel(k) ==
    /\ pc[k] = "commitCancel"
    /\ \/ LET t == TrekOf(k)
              b == onBooking[k]
          IN  /\ booking' = [booking EXCEPT ![b] =
                                [status  |-> IF k \in sends THEN "cancelled" ELSE @.status,
                                 stamped |-> TRUE]]
              /\ trek' = IF trek[t].exists
                         THEN [trek EXCEPT ![t] = AfterIncrement(@)] ELSE trek
              /\ NewVersion(t)
              /\ Goto(k, "invalidate")
              /\ Forget(k)
              /\ sends' = sends \ {k}
              /\ UNCHANGED disturbed
       \/ RollBackCancel(k) /\ UNCHANGED <<trek, booking, behind>>
    /\ UNCHANGED <<targets, dirty>>

-----------------------------------------------------------------------------
(* TreksService.update and remove.                                         *)

\* findById and assertOwnership of both.
ReadTrek(r, next) ==
    /\ pc[r] = "idle"
    /\ IF trek[onTrek[r]].exists /\ Organizer[onTrek[r]] = Caller[r]
       THEN Goto(r, next) ELSE Goto(r, "failed")
    /\ UNCHANGED <<trek, booking, targets, tries, dirty, sends, behind, disturbed>>

\* trek.save() sends the patched paths; seatsLeft and status are none of them.
WriteTrek(u) ==
    /\ pc[u] = "writeTrek"
    /\ LET t == onTrek[u] IN
       \/ /\ ~trek[t].exists                        \* DocumentNotFoundError
          /\ Goto(u, "failed")
          /\ UNCHANGED <<trek, behind>>
       \/ /\ trek[t].exists /\ TrekFree(t)
          /\ \E n \in NewTotals : trek' = [trek EXCEPT ![t].totalSeats = n]
          /\ NewVersion(t)
          /\ Goto(u, "invalidate")
    /\ UNCHANGED <<booking, targets, tries, dirty, sends, disturbed>>

\* trek.deleteOne(): bookings of the trek stay as they are.
DeleteTrek(d) ==
    /\ pc[d] = "deleteTrek"
    /\ TrekFree(onTrek[d])
    /\ trek' = [trek EXCEPT ![onTrek[d]].exists = FALSE]
    /\ NewVersion(onTrek[d])
    /\ Goto(d, "invalidate")
    /\ UNCHANGED <<booking, targets, tries, dirty, sends, disturbed>>

-----------------------------------------------------------------------------
\* invalidateListCache, after the commit: when Redis cannot be reached the
\* request fails although its write stands.
InvalidateListCache(r) ==
    /\ pc[r] = "invalidate"
    /\ Goto(r, "done") \/ Goto(r, "failed")
    /\ UNCHANGED <<trek, booking, targets, tries, dirty, sends, behind, disturbed>>

\* Mutant: decrementSeats is called without the session.
CrashWithoutRollback(r) ==
    /\ pc[r] \in InFlight
    /\ trek' = IF pc[r] = "commitBooking"
               THEN [trek EXCEPT ![onTrek[r]] = AfterDecrement(@)] ELSE trek
    /\ Goto(r, "crashed")
    /\ UNCHANGED <<booking, targets, tries, dirty, sends, behind, disturbed>>

\* The process serving r dies; the server rolls its open transaction back.
Crash(r) ==
    /\ pc[r] \in InFlight
    /\ Goto(r, "crashed")
    /\ Forget(r)
    /\ dirty' = dirty \ {r} /\ sends' = sends \ {r} /\ behind' = behind \ {r}
    /\ UNCHANGED <<trek, booking, targets, disturbed>>

Terminating == (\A r \in Requests : pc[r] \in Terminal) /\ UNCHANGED vars

CreateStep(c) == Decrement(c) \/ Insert(c) \/ CommitBooking(c)
CancelStep(k) == ReadBooking(k) \/ SaveBooking(k) \/ IncrementSeats(k) \/ CommitCancel(k)
UpdateStep(u) == ReadTrek(u, "writeTrek") \/ WriteTrek(u)
RemoveStep(d) == ReadTrek(d, "deleteTrek") \/ DeleteTrek(d)

Step(r) == \/ r \in Creates /\ CreateStep(r)
           \/ r \in Cancels /\ CancelStep(r)
           \/ r \in Updates /\ UpdateStep(r)
           \/ r \in Removes /\ RemoveStep(r)
           \/ InvalidateListCache(r)

Next == (\E r \in Requests : Step(r) \/ Crash(r)) \/ Terminating

Spec == Init /\ [][Next]_vars

\* Node's event loop and MongoDB keep answering: a request that can move does.
FairSpec == Spec /\ \A r \in Requests : WF_vars(Step(r))

-----------------------------------------------------------------------------
(* Properties.                                                             *)

TypeOK ==
    /\ trek \in [Treks -> TrekDoc]
    /\ booking \in [Creates -> BookingDoc]
    /\ onTrek \in [Creates \cup Updates \cup Removes -> Treks]
    /\ onBooking \in [Cancels -> Creates]
    /\ pc \in [Requests -> {"idle"} \cup InFlight \cup Terminal]
    /\ tries \in [Requests -> 0 .. MaxRetries]
    /\ dirty \subseteq Cancels /\ sends \subseteq Cancels
    /\ behind \subseteq Cancels /\ disturbed \subseteq Creates

\* decrementSeats never sells a seat that is not there: whatever transactions
\* race, retry or die, seatsLeft of a listed or removed trek stays >= 0.
NeverNegative == \A t \in Treks : trek[t].seatsLeft >= 0

\* No seat is lost: every seat a listed trek was created with is free or is
\* held by a confirmed booking (README: a race cannot "decrement without a
\* booking").
NoSeatLost ==
    \A t \in Treks : trek[t].exists =>
        trek[t].seatsLeft + Cardinality(Confirmed(t)) >= Seats[t]

\* And none is sold twice, as long as no booking of the trek had its
\* cancellation disturbed: by a second cancel that read 'confirmed' before
\* the first committed, or by a rollback after booking.save was accepted.
SeatsConserved ==
    \A t \in Treks :
        /\ trek[t].exists
        /\ \A b \in disturbed : onTrek[b] # t
        => trek[t].seatsLeft + Cardinality(Confirmed(t)) = Seats[t]

\* The cancels of t's disturbed bookings that have committed or ended.
EndedCancels(t) == {k \in Cancels : /\ TrekOf(k) = t /\ onBooking[k] \in disturbed
                                    /\ pc[k] \in {"invalidate"} \cup Terminal}

\* How many seats too many there can be.  Of all cancels of one booking the
\* first gives back a seat that was taken; only a further one, and only of a
\* disturbed booking, makes a seat out of nothing.
SurplusBounded ==
    \A t \in Treks : trek[t].exists =>
        trek[t].seatsLeft + Cardinality(Confirmed(t))
            + Cardinality(Cancelled(t) \cap disturbed)
        <= Seats[t] + Cardinality(EndedCancels(t))

\* The derived status and the counter it is derived from: a sold-out trek is
\* closed, and a closed one has at most one seat left.
StatusTracksSeats ==
    \A t \in Treks : /\ trek[t].seatsLeft = 0 => trek[t].status = "closed"
                     /\ trek[t].status = "closed" => trek[t].seatsLeft <= 1

\* What a caller was told is so: a create that answered 201 left a booking,
\* a cancel that answered 200 left it cancelled unless it was disturbed.
AnswersAreTrue ==
    /\ \A c \in Creates : pc[c] = "done" => booking[c].status # "none"
    /\ \A k \in Cancels : pc[k] = "done" =>
          \/ booking[onBooking[k]].status = "cancelled"
          \/ onBooking[k] \in disturbed

\* No request waits for ever.  The updates and removals of a trek, single
\* statements that wait for its write lock, get it in the end: whatever
\* transaction holds it commits, is rolled back or dies, and those that come
\* between end too.  (A call that has ended stays so.)
EveryCallEnds == <>(\A r \in Requests : pc[r] \in Terminal)

Ledger == INSTANCE SeatLedger WITH
    Bookings <- Creates,
    listed   <- {t \in Treks : trek[t].exists},
    left     <- [t \in Treks |-> trek[t].seatsLeft],
    holders  <- [t \in Treks |-> Confirmed(t)],
    former   <- [t \in Treks |-> Cancelled(t)]

\* Seen from the collections alone, the requests move seats as the account of
\* SeatLedger allows: in single steps, a seat only to a new holder and only
\* when one is free, back only when a booking of that trek is cancelled.
ImplementsLedger == Ledger!Spec

\* trek.schema.ts:84 says of status: "Auto-derived to 'closed' when seatsLeft
\* hits 0".
ClosedMeansSoldOut ==
    \A t \in Treks : trek[t].status = "closed" => trek[t].seatsLeft = 0

\* bookings.service.ts:17-23: two requests at the same instant do not corrupt
\* the data.  There are never more confirmed bookings than seats.
NeverOverbooked ==
    \A t \in Treks : trek[t].exists => Cardinality(Confirmed(t)) <= Seats[t]

\* README.md:160 "atomic seat booking + cancellation": what the cancelling
\* transaction wrote is there as a whole.
CancelAtomic ==
    \A b \in Creates : booking[b].stamped <=> booking[b].status = "cancelled"
=============================================================================
