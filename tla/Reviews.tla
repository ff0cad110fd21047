------------------------------ MODULE Reviews ------------------------------
(***************************************************************************)
(* The treks that accounts publish and remove (TreksService.create and     *)
(* remove, seed.ts) and the reviews of treks and accounts                  *)
(* (reviews/reviews.service.ts), beside the signups and logins of Accounts.*)
(*                                                                         *)
(* A trek is named after the call that created it.  The aggregate that a   *)
(* trek or a vendor's profile stores, average and number, is the set of    *)
(* reviews it was computed from.                                           *)
(***************************************************************************)
EXTENDS Accounts, Integers

CONSTANTS
    Publishes,      \* POST /treks calls
    Removals,       \* DELETE /treks/:id calls
    Reviewers,      \* POST /reviews calls
    MaxStarted      \* bound: calls a behaviour starts

Calls   == Publishes \cup Removals \cup Reviewers
Treks   == Publishes \cup Seeds
Targets == Visits \cup {<<"trek", t>> : t \in Treks}
Trek(t) == <<"trek", t>>

ASSUME CallsAssumption == /\ Calls \cap Visits = {} /\ Nothing \notin Targets \cup Treks
                          /\ Publishes \cap (Removals \cup Reviewers) = {}
                          /\ Removals \cap Reviewers = {}
                          /\ Visits \cap {Trek(t) : t \in Treks} = {}
                          /\ IsFiniteSet(Publishes)

VARIABLES
    trek,           \* the treks collection: the organizer of each trek
    treksCount,     \* User.treksCount
    rating,         \* rating[x]: the reviews in the aggregate stored on x
    pc,             \* where each call is
    named,          \* what it names: a user, a trek, or a target
    stored,         \* the reviews collection
    seen,           \* seen[v]: the reviews that aggregate returned to v
    removed,        \* auxiliary: treks there were
    uncounted,      \* auxiliary: publishes whose $inc has not happened
    older           \* auxiliary: <<v, w>>: when v computed its aggregate, w had
                    \* one in hand, computed before and not yet written

reviewVars == <<trek, treksCount, rating, pc, named, stored, seen, removed, uncounted, older>>
vars == <<accountVars, reviewVars>>

Goto(r, from, to) == pc[r] = from /\ pc' = [pc EXCEPT ![r] = to]

Ended == {"ended", "failed"}

-----------------------------------------------------------------------------
(* Listings.                                                               *)

\* A vendor's trek needs a vendor.  A peer's needs a verified account: seed.ts
\* creates one (as the demo's script does), and nothing verifies one later.
Allowed(u, type) == IF type = "peer" THEN u \in Seeds ELSE account[u].vendor

\* create, the gate.
CheckRole(p, u, type) ==
    /\ Exists(u)
    /\ Goto(p, "idle", IF Allowed(u, type) THEN "insert" ELSE "failed")
    /\ named' = [named EXCEPT ![p] = u]
    /\ UNCHANGED <<trek, treksCount, rating, stored, seen, removed, uncounted, older>>

InsertTrek(p) ==
    /\ Goto(p, "insert", "count")
    /\ trek' = [trek EXCEPT ![p] = named[p]]
    /\ uncounted' = uncounted \cup {p}
    /\ UNCHANGED <<treksCount, rating, named, stored, seen, removed, older>>

\* The list cache is cleared after that (TrekListCache).
CountTrek(p) ==
    /\ Goto(p, "count", "ended")
    /\ treksCount' = [treksCount EXCEPT ![named[p]] = @ + 1]
    /\ uncounted' = uncounted \ {p}
    /\ UNCHANGED <<trek, rating, named, stored, seen, removed, older>>

\* Mutant: remove takes the trek off the count.
RemoveCounted(d, t) ==
    /\ trek[t] # Nothing
    /\ Goto(d, "idle", "ended")
    /\ named' = [named EXCEPT ![d] = Trek(t)]
    /\ trek' = [trek EXCEPT ![t] = Nothing]
    /\ treksCount' = [treksCount EXCEPT ![trek[t]] = @ - 1]
    /\ removed' = removed \cup {<<t, trek[t]>>}
    /\ UNCHANGED <<rating, stored, seen, uncounted, older>>

\* remove, by the organizer: treksCount is left alone.
RemoveTrek(d, t) ==
    /\ trek[t] # Nothing
    /\ Goto(d, "idle", "ended")
    /\ named' = [named EXCEPT ![d] = Trek(t)]
    /\ trek' = [trek EXCEPT ![t] = Nothing]
    /\ removed' = removed \cup {<<t, trek[t]>>}
    /\ UNCHANGED <<treksCount, rating, stored, seen, uncounted, older>>

\* seed.ts: the trek of the vendor it created, which it does not count.
SeedTrek(s) ==
    /\ Move(s, "trek", "done")
    /\ trek' = [trek EXCEPT ![s] = s]
    /\ UNCHANGED <<account, input, user, raced, treksCount, rating, pc, named, stored, seen,
                   removed, uncounted, older>>

-----------------------------------------------------------------------------
(* Reviews.                                                                *)

InHand(x)    == {v \in Reviewers : named[v] = x /\ pc[v] = "write"}
ReviewsOf(x) == {v \in stored : named[v] = x}

\* Nobody asks whether the target exists; a client names one it has seen.
Known(x) == \/ x \in Visits /\ Exists(x)
            \/ \E t \in Treks : x = Trek(t) /\ (trek[t] # Nothing \/ \E u \in Visits : <<t, u>> \in removed)

InsertReview(v, x) ==
    /\ Known(x)
    /\ Goto(v, "idle", "aggregate")
    /\ named' = [named EXCEPT ![v] = x]
    /\ stored' = stored \cup {v}
    /\ UNCHANGED <<trek, treksCount, rating, seen, removed, uncounted, older>>

\* Mutant: the aggregate is computed before the review is inserted.
AggregateOthers(v) ==
    /\ Goto(v, "aggregate", "write")
    /\ seen' = [seen EXCEPT ![v] = ReviewsOf(named[v]) \ {v}]
    /\ UNCHANGED <<trek, treksCount, rating, named, stored, removed, uncounted, older>>

\* recomputeAggregate.
Aggregate(v) ==
    /\ Goto(v, "aggregate", "write")
    /\ seen' = [seen EXCEPT ![v] = ReviewsOf(named[v])]
    /\ older' = older \cup {<<v, w>> : w \in InHand(named[v])}
    /\ UNCHANGED <<trek, treksCount, rating, named, stored, removed, uncounted>>

\* Where x keeps an aggregate: a trek that is there, a vendor with a profile.
Rated(x) == IF x \in Visits THEN Exists(x) /\ account[x].vendor /\ account[x].profile
            ELSE trek[x[2]] # Nothing

\* A path below a vendorProfile that is null: MongoDB refuses the update.
Unwritable(x) == x \in Visits /\ Exists(x) /\ account[x].vendor /\ ~account[x].profile

\* applyReviewAggregate and updateVendorRatingAggregate: what was computed goes
\* over what is there; an update that matches nothing is no error.
WriteAggregate(v) ==
    /\ Goto(v, "write", IF Unwritable(named[v]) THEN "failed" ELSE "ended")
    /\ rating' = IF Rated(named[v]) THEN [rating EXCEPT ![named[v]] = seen[v]] ELSE rating
    /\ UNCHANGED <<trek, treksCount, named, stored, seen, removed, uncounted, older>>

\* A call breaks off between two statements.
Fail(r) ==
    /\ pc[r] \notin Ended \cup {"idle"}
    /\ pc' = [pc EXCEPT ![r] = "failed"]
    /\ UNCHANGED <<trek, treksCount, rating, named, stored, seen, removed, uncounted, older>>

-----------------------------------------------------------------------------
Init ==
    /\ AccountsInit
    /\ trek = [t \in Treks |-> Nothing]
    /\ treksCount = [a \in Visits |-> 0]
    /\ rating = [x \in Targets |-> {}]
    /\ pc = [r \in Calls |-> "idle"]
    /\ named = [r \in Calls |-> Nothing]
    /\ stored = {} /\ removed = {} /\ uncounted = {} /\ older = {}
    /\ seen = [v \in Reviewers |-> {}]

CallStep(r) ==
    \/ /\ r \in Publishes
       /\ \/ \E u \in Visits, type \in {"vendor", "peer"} : CheckRole(r, u, type)
          \/ InsertTrek(r) \/ CountTrek(r)
    \/ r \in Removals /\ \E t \in Treks : RemoveTrek(r, t)
    \/ r \in Reviewers /\ (\E x \in Targets : InsertReview(r, x) \/ Aggregate(r) \/ WriteAggregate(r))
    \/ Fail(r)

Started == {c \in Visits : at[c] # "new"} \cup {r \in Calls : pc[r] # "idle"}

Moves == \/ \E c \in Visits : VisitStep(c) /\ UNCHANGED reviewVars
         \/ \E s \in Seeds : SeedTrek(s)
         \/ \E r \in Calls : CallStep(r) /\ UNCHANGED accountVars

Next == Moves /\ Cardinality(Started') <= MaxStarted

Spec == Init /\ [][Next]_vars

-----------------------------------------------------------------------------
(* Properties.                                                             *)

TypeOK ==
    /\ AccountsTypeOK
    /\ trek \in [Treks -> Visits \cup {Nothing}]
    /\ treksCount \in [Visits -> Nat]
    /\ pc \in [Calls -> {"idle", "insert", "count", "aggregate", "write"} \cup Ended]
    /\ named \in [Calls -> Visits \cup Targets \cup {Nothing}]
    /\ stored \subseteq Reviewers /\ older \subseteq Reviewers \X Reviewers
    /\ seen \in [Reviewers -> SUBSET Reviewers]
    /\ rating \in [Targets -> SUBSET Reviewers]
    /\ removed \subseteq Treks \X Visits
    /\ uncounted \subseteq Publishes

\* treksCount is the number of treks an account has ever published, those it
\* removed included, but for the increments that are under way or broke off,
\* and for the trek of seed.ts.
PublishedBy(u) == {p \in Publishes : trek[p] = u \/ <<p, u>> \in removed}

TreksCounted ==
    \A u \in Visits :
        treksCount[u] + Cardinality({p \in PublishedBy(u) : p \in uncounted})
            = Cardinality(PublishedBy(u))

\* The stored aggregate counts reviews of its own target only, and whatever is
\* written after a review has run to its end counts all that review counted,
\* itself included.  The one exception: a review that had computed its own
\* before, and was slower, may put that one over it, until the next review.
RatingsSettle ==
    \A x \in Targets :
        /\ rating[x] \subseteq ReviewsOf(x)
        /\ \A v \in ReviewsOf(x) : pc[v] = "ended" /\ Rated(x) =>
              \/ seen[v] \cup {v} \subseteq rating[x]
              \/ \E w \in ReviewsOf(x) : <<v, w>> \in older /\ rating[x] = seen[w]
=============================================================================
