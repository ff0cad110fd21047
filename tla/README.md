# TLA+ models of the Trekk backend

Trekk is a NestJS backend for a trekking marketplace: MongoDB holds the data,
Redis caches the discover feed, counts requests for the rate limit and carries
chat messages between instances. Several stateless Node processes (or
serverless instances) serve it, so any two HTTP requests may interleave at
every `await`. These modules model the parts where that matters; paths below
are relative to the repository root.

## 1. Inventory

| component | state | operations | who it talks to |
|---|---|---|---|
| bookings (`src/bookings`) | `bookings` documents | create, cancel, reads | treks (seats, inside its transaction), list cache |
| treks (`src/treks`) | `treks` documents: organizer, totalSeats, seatsLeft, status, rating | list, read, create, update, remove; decrementSeats, incrementSeats, applyReviewAggregate | users (vendor gate, treksCount), Redis |
| Redis cache (`src/redis/redis.service.ts`) | list entries with a TTL | get, set, delByPrefix (SCAN + DEL) | treks |
| rate limit (`src/redis/throttler-storage.redis.ts`) | counters and block keys with a TTL | increment | every route, through the throttler guard |
| auth (`src/auth`) | `refreshTokens`, `users` | signup, login, provider logins, refresh, logout | users |
| users, vendors (`src/users`) | profile, KYC, counters, vendor rating | updateMe, submitKyc, aggregates | reviews, follows, treks |
| reviews (`src/reviews`) | `reviews` | create with aggregate | treks, users |
| follows, posts (`src/follows`, `src/posts`) | edges, likes, posts, denormalised counters | follow, unfollow, like, unlike, feed | users, notifications |
| join requests (`src/join-requests`) | requests, conversations | create, accept, decline | treks, messaging (shared collection), notifications |
| messaging (`src/messaging`) | conversations, messages, socket rooms | send, page, connect, join, leave, emit | clients, the Redis adapter |
| notifications (`src/notifications`) | `notifications` | fire, list, markAllRead | called by likes and join requests |
| seed scripts (`src/seed.ts`, `scripts/seed-demo-sahyadri.ts`) | demo accounts and their content | seed, reset, wipe | every collection |
| storage, health, guards, bootstrap, smoke scripts | none of their own, see section 7 | | |

Hard behaviour, by component, and what correct means:

* **bookings / treks** - transactions that conflict and are retried with an
  in-memory document that the first attempt has changed; a status read outside
  the transaction; crashes before and after the commit; Redis failing after it.
  Free seats and confirmed bookings add up, `seatsLeft` is never negative, the
  derived status follows it, answers are true, everything ends.
* **list cache** - a reader's query and its SET are apart, SCAN and DEL are
  apart, invalidations fail or are never sent. Staleness is bounded, an ended
  invalidation reached what it should, the feed settles.
* **refresh tokens** - every handler checks and then writes; answers are lost
  and clients try again; documents expire under a request. One usable token per
  session, an ended session stays ended, no alarm without a cause.
* **rate limit** - four commands per request, keys that expire between them, a
  death between INCR and PEXPIRE, units. One counter admits no more than the
  limit, a window ends, a block outlives its cause, everyone is forgiven.
* **accounts** - check, then write, against a unique index on the email and
  none on the identity; several statements per signup. No email has two
  accounts, an identity only by overlapping logins under two emails, and what
  was answered stands.
* **treks and reviews** - counters and aggregates in other documents, written
  out of order or not at all. They differ from what they count by exactly what
  was lost; the aggregate settles.
* **follows and likes** - an edge and up to two `$inc`s without a transaction,
  beside a script that overwrites the counters and deletes edges.
* **join requests** - an answer may be given again and again, nothing checks
  `pending`; a conversation opened by two accepts at once. Chat if and only if
  accepted; the last notice tells the status.
* **messaging** - offset paging of a growing list, an emit that is not
  repeated, a room joined before or after reading. Nobody who stays misses
  anything.
* **demo script** - thirteen statements without a transaction, run twice, run
  beside users, stopped half way. Never two sets, never a wrong real counter.

All hazards, each at its line and with the properties about it, are in
`PROJECT.json`.

## 2. Modules

| module | what it is | proofs |
|---|---|---|
| `Bookings` | BookingsService, the seat operations, update and remove of TreksService | `BookingsProofs` |
| `SeatLedger` | abstract account of seats that `Bookings` implements | |
| `TrekListCache` | findAll, delByPrefix and everything that writes treks, over Redis | `TrekListCacheProofs` |
| `RefreshTokens` | issueTokenPair, refresh, logout and the TTL index | `RefreshTokensProofs` |
| `RateLimiter` | RedisThrottlerStorage.increment, command by command | `RateLimiterProofs` |
| `JoinRequests` | JoinRequestsService and the notices it fires | in `PeerChatProofs` |
| `Messaging` | MessagingService, MessagingController, MessagingGateway | `MessagingProofs` |
| `PeerChat` | the two together, over one conversations collection | `PeerChatProofs` |
| `Accounts` | signup, logins, account linking, the account of seed.ts | in `ReviewsProofs` |
| `Reviews` | `Accounts` with treks being published, removed and reviewed | `ReviewsProofs` |
| `SocialCounters` | FollowsService and the likes of PostsService | in `DemoDataProofs` |
| `DemoData` | `SocialCounters` with runs of seed-demo-sahyadri.ts beside it | `DemoDataProofs` |
| `MC...` | constants and symmetry for TLC | |

How they compose:

* `Bookings` implements `SeatLedger` (`ImplementsLedger`).
* `PeerChat` extends `JoinRequests` and instantiates `Messaging` as `Chat`.
  They share one variable, `conversations`: `JoinRequests` writes it,
  `Messaging` reads it, and `ChatSpec` states what Messaging assumes of whoever
  writes it (`OpenThread`: conversations are added and never closed).
  `ChatImplemented` says that the composition keeps to that assumption.
* `Reviews` extends `Accounts`: a trek needs a vendor's account, a vendor's
  aggregate needs the profile that signup saves last.
* `DemoData` extends `SocialCounters`: one action is either a step of a call or
  a step of a run of the script.

Definitions whose comment says *mutant* are faulty variants of the definition
that follows them. No action uses them: each property is also run with one of
them in place, to see it fail. In all modules an HTTP call is a slot that runs
once, `pc` (or `at`) says which `await` it is at, and a variable declared
*auxiliary* is read by properties and never by a guard.

### Bookings

A booking is named by the create request that makes it.

| action | code |
|---|---|
| `Decrement`, `Insert`, `CommitBooking` | `BookingsService.create`, `decrementSeats` |
| `ReadBooking`, `SaveBooking`, `IncrementSeats`, `CommitCancel` | `BookingsService.cancel`, `incrementSeats` |
| `ReadTrek`, `WriteTrek`, `DeleteTrek` | `TreksService.update`, `remove` |
| `InvalidateListCache` | the call at the end of all four; its effect is modelled in `TrekListCache`, its failure here |
| `Abort` | an error in `withTransaction`: run the callback again, or give up |
| `Crash` | the process dies, the server rolls back |

The MongoDB rules the model relies on are stated at the head of the module.
Because a written document stays locked until the commit, a transaction's
writes are applied in its commit step; the locks are read off `pc`
(`HoldsTrek`, `HoldsBooking`), the stale snapshots are kept in `behind`.

Mongoose's change tracking is part of the control flow of `cancel`, so it is
modelled: `dirty` holds the requests whose document has an unsent status,
`sends` those whose open transaction has written it. A save that fails keeps
the path modified, a save that is accepted clears it, and
`session.withTransaction` (unlike `connection.transaction`) restores nothing.

`disturbed` collects the bookings of which a second cancel read "confirmed"
while another was under way, or whose cancel was run again after its save had
been accepted. Only single writes wait: `WriteTrek` and `DeleteTrek` until the
trek is free. A statement inside a transaction never waits for a lock, it fails
and the transaction is run again, so that no two requests can wait for each
other.

Abstracted: payment fields, dates, the confirmation code (only that it may
collide with that of another booking), the fields of a trek that a patch may
change other than `totalSeats`. A demo trek that the seed script publishes
with fewer free seats than `totalSeats` is a trek whose `Seats[t]` is that
number.

`SeatLedger` has four one-step actions: `Take`, `Release`, `Withdraw` and
`Surplus`. `Surplus`, a seat given back that no booking gave up, is there
because the code does it (findings 2 and 3); it needs a trek on which some
booking exists. Without it the refinement would be false.

### TrekListCache

What a list shows is abstracted to the `version` of the treks collection it was
read from. Readers run for ever, writers are one-shot: `Commit` stands for the
committed write of create, update, remove, booking and cancellation, then
`Scan` visits the keys one by one and `Delete` removes what was found.
`ApplyReviewAggregate` commits and invalidates nothing. `Tick` is the passing
of time; the only assumption is that a reader takes at most `MaxDelay` ticks
from its query to its SET.

### RefreshTokens

A token is named by the request that issues it, a family by its login. A
client may present any token whose answer it received, also one it has used
before: that is what a second tab or a retry after a lost answer does.
`updateMany` over a family is one step: its documents are independent, and a
refresh that reads one of them between two single updates behaves as one that
read it before the first.

Three variables are auxiliary. `raced` collects the refreshes that found their
token live while another refresh had found it so and not yet revoked it; each
may add one usable token to its family, which is how `OneUsableToken` counts
them. `ended` are the families that were revoked as a whole, `overtaken` those
of them with a rotation in flight when that last happened; revoking such a
family once more takes it out again.

### RateLimiter

One caller on one route, which is one pair of keys. `CheckBlock`, `Incr`,
`PttlHit`, `Pexpire`, `SetBlock` are the five commands of `increment`; `Fail`
is a refused command or a death between two of them; `Tick` lets time pass and
Redis drop keys. Times are milliseconds, as the guard of `@nestjs/throttler`
passes them, and `Milliseconds` is the factor that the code applies to them
again. `MaxDelay` bounds the life of a request in the storage. `age` is the
time since the counter was created or a request died between its INCR and its
PEXPIRE; while a counter is `Abandoned`, without expiry and with nobody on the
way to set it, `age` stands still, so that `BoundedWindow` says what the next
hit has to do about it.

The record's `timeToBlockExpire` (line 60) is not modelled: it only becomes a
header. The in-memory fallback belongs to the library.

### JoinRequests, Messaging, PeerChat

A join request is known by its trek and requester, its unique index. `Save`
depends on Mongoose: `request.save()` sends `status` only if the answer differs
from the status that was loaded (`loaded`). The unique key on the participants
makes the slower of two accepts fail after its request was saved
(`OpenConversation`). `disturbed` collects the requests whose answers
overlapped or broke off, until an answer that overlaps no other (`alone`) has
come to its end. `RemoveTrek` is `TreksService.remove`, which leaves the
requests behind.

A message is named by the call that sends it; `stored` is the collection,
`clock` counts `new Date()`. `Emit` puts one copy per client of the room into
`net`, `Deliver` takes it out, `Disconnect` loses what is on its way and makes
the client start again. `ReadPage` cuts pages by offset as the code does, and
stops at the first page that is not full, as a client of this API must. It reads
after it has joined: one that reads first and joins later can miss what is
emitted between, and nothing on the server helps it. `raced` notes, of each
message, the sends that had the date in hand which they were to write to
`lastMessageAt` when the message came.

### Accounts, Reviews

An account is named by the call that created it. The statements of signup and
of the three logins are steps: `Signup` looks for the email, `SignupCreate`
meets the index, `SaveProfile` is the vendor's second save; `FindByIdentity`,
`FindByEmail`, `Link`, `CreateLinked` are `findOrCreateOAuthUser`. The email of
a provider's token is an input and may change from one login to the next.
An entry of `linked` carries the login that made it, because `push` may list an
identity twice; `raced` are the pairs of logins of one identity that were under
way at once.

A stored aggregate, average and number, is the set of reviews it was computed
from: `Aggregate` is the pipeline, `WriteAggregate` the write. `Unwritable` is
the vendor without a profile, of whom `updateVendorRatingAggregate` throws.
`older` notes which aggregates were computed before a review's own and not yet
written. A peer's trek needs a verified account (`Allowed`): the only ones are
those the seed scripts create.

### SocialCounters, DemoData

An edge is a follow or a like. `CreateEdge` and `DeleteEdge` meet the unique
index and `deletedCount`; `Count` and `LoseCount` send the `$inc`s that are
`owed`, in any order, or lose them. `Uncounted` is what is under way or lost.

In `DemoData` an id carries the run that created it. `CountDemoUsers` takes the
decision at the start of `main`, `Wipe` the `deleteMany`s, then one action per
section of the script. `SetCounters` and `SetLikeCounts` overwrite; `Break`
stops a run anywhere. `meddled` collects ids that a live call named while their
run was seeding; `clashed` says that a wipe overlapped another run or died.

## 3. Runs

| run | question | result |
|---|---|---|
| `booking_race` | three creates, a cancel, an update and a removal on a two-seat trek | all invariants hold |
| `cancel_race` | two cancels against two creates, one seat, two users, an update and a removal: how many seats too many, and does everything end? | no more than `SurplusBounded` allows; implements `SeatLedger`; every call ends |
| `closed_early` | is a closed trek sold out? | **no** (finding 1) |
| `cancel_twice` | can a trek be overbooked? | **yes**, by two cancels (finding 2) |
| `cancel_retry` | is a cancellation atomic? | **no**, after a retry (finding 3) |
| `feed_cache` | how stale, what does an invalidation reach, does the feed settle? | bounded; all but late entries; yes |
| `rotation` | one usable token and one more per overlap, ended sessions stay ended, no false alarm | all hold |
| `rate_limit` | limit, window, block, forgiveness, with deaths between INCR and PEXPIRE | all hold, in the code's own unit |
| `rate_window` | does the window last as long as configured? | **no**, a thousand times longer (finding 4) |
| `peer_chat` | who may chat, who is told what, who misses what | all hold |
| `social` | do counters match through calls and demo runs; one demo set? | all hold |
| `accounts` | one account each, answers stand, counts and ratings | all hold |

Distinct states, with the cfg's bounds: `booking_race` 439,968, `cancel_race`
1,263,216, `rotation` 2,148,567, `rate_limit` 257,260, `peer_chat` 1,075,840,
`accounts` 625,947.

### Bounds and why they are enough

* `booking_race`, `cancel_race`: three creates and two seats make the last seat
  contended and leave one request over; two creates, two cancels and one seat
  let a returned seat be sold again and one booking be cancelled twice, with
  an update and a removal waiting for the trek's lock meanwhile. One
  retry (`MaxRetries = 1`) is the least that reruns a callback, and what a rerun
  changes (`dirty`) does not change again in a second one.
* `feed_cache`: two keys and two readers let a SCAN be overtaken between keys by
  a SET; a writer and a review give both kinds of commits. `TTL = 2`,
  `MaxDelay = 1` keep expiry and delay apart. `age` is capped just above the
  bound the property speaks of.
* `rotation`: two sessions and three refreshes give a rotation, a retry and a
  bystander; the logout meets each of them.
* `rate_limit`: a limit of one is reached by two requests, the third meets the
  block or the next window. A key of 1000 ms in steps of 250 and a `MaxDelay` of
  500 let the counter expire between any two commands.
* `peer_chat`: one trek and one requester, one ask and two answers (either may
  accept or decline), two messages, a client that reads pages of one. `MaxCalls`
  is four of the five calls: an ask, an accept and two messages; or both answers
  and one message. A second page is read, a message arrives between two pages,
  and the connection breaks any number of times. The second answer makes good
  what the first left when it broke off; a third one, after two that overlapped,
  is left to the proof.
* `social`: a real account, two accounts of the script, two runs; follows of a
  real and of a demo account, a like, a self follow. Three calls or runs in all
  (`MaxStarted = 3`): two runs and a call, or a run with a follow and its
  unfollow.
* `accounts`: four of nine calls (`MaxStarted = 4`) are enough for seed, publish,
  review and review; for signup and three logins of two providers; for a
  publish and its removal beside two others.

`MaxCalls` and `MaxStarted` bound how many calls a behaviour starts, not how
they interleave. `CHECK_DEADLOCK FALSE` is set where the calls of a behaviour
are used up and nothing is left to do. Symmetry is used only for safety, over
calls that are interchangeable.

### Fairness

* `EveryCallEnds`: weak fairness of every request's steps, as Node resumes a
  handler whose `await` is answered and MongoDB answers. Crashes, errors and
  conflicts are not fair. What it shows is that an update or a removal that
  waits for a trek's lock gets it, because every transaction that holds it
  commits, is rolled back or dies; its mutant leaves a failed transaction open.
  That a request does not retry for ever is the 120 s of `withTransaction`
  (`MaxRetries`), an assumption and not a result.
* `SettlesOnLastVersion`: time passes, and a reader that has its list goes on
  to store it. Nothing is assumed of writers: an invalidation may fail.
* `Forgiven`: Redis answers and time passes. No request is obliged to come.
* `EveryoneCatchesUp`: a send that began goes on, a delivery arrives unless the
  connection breaks, and a client in a room reads its pages. Nobody is obliged
  to connect, to join or to send, and the property speaks of clients that
  some time stay in the room.

## 4. Findings

1. `decrementSeats` closes a trek that has one seat left: the second pipeline
   stage subtracts from a `seatsLeft` that is decremented already
   (`closed_early`).
2. Two cancels of one booking give two seats back; the trek is overbooked
   (`cancel_twice`).
3. A cancel whose transaction is retried gives the seat back and leaves the
   booking `confirmed` (`cancel_retry`).
4. `increment` multiplies milliseconds by 1000: a window of 60 s lasts 60,000 s,
   and so does a block (`rate_window`).

How far findings 2 and 3 can go is bounded, and proved. The seats a trek has
too many are no more than the ended cancels of its disturbed bookings, less those
of these bookings that are cancelled (`SurplusBounded`); so it is overbooked only
after such a cancel (`OverbookedByRepeats`), and a booking whose cancellation
nothing disturbed has its status and its `cancelledAt` together
(`AtomicUnlessDisturbed`).

Other behaviour that the models show and that the properties carry as a named
exception:

* A list queried before a write can be stored after the write's invalidation
  and be served until its TTL ends (`treks.service.ts:43` against "invalidated
  on writes" in `redis.service.ts:161`): `late` in `InvalidationReaches`. A
  review invalidates nothing. Both stay within `BoundedStaleness`.
* A refresh that passed its check before the family was revoked issues a usable
  token afterwards (`auth.service.ts:204` against the comment at 173-176):
  `overtaken` in `EndedStaysEnded`. Ending the session again ends it.
* Two refreshes of one token that both find it live each issue a token
  (`auth.service.ts:201`). `OneUsableToken` allows one more for every refresh
  that found its token so, and none besides.
* A crash between the revocation of a token and the issue of the next loses the
  session without an alarm; the client logs in again.
* Two provider logins at once can list one identity twice, and, if the provider
  gives them two emails, on two accounts. `OneAccountEach` allows it for pairs
  of logins in `raced` only. Emails are protected by the index.
* A death between INCR and PEXPIRE leaves a counter without expiry until the
  next request of the caller: `BoundedWindow` holds from that request on, and
  `Forgiven` leaves out only a death of the very last one.
* A signup of a vendor that fails between its two saves leaves an account
  without `vendorProfile`, and every later review of it fails after the review
  was stored (`users.service.ts:76`): `Rated` in `RatingsSettle`.
* Two reviews of one target at once may store the older aggregate last, until
  the next review: `older` in `RatingsSettle`, which names the one aggregate
  that may then be stored.
* Two messages at once may leave `lastMessageAt` at the earlier date. It is never
  put further back than to a send that overlapped the message: `raced` in
  `ThreadDated`. A send that dies after its insert leaves `lastMessageAt` as it
  was.
* seed.ts creates its trek without counting it in `treksCount`.
* accept and decline answer a request that is no longer pending; a conversation
  stays after a later decline. Mongoose does not send a status equal to the one
  it loaded, so of two overlapping answers the stored status may be neither the
  one told last nor the one saved last, and an answer that breaks off leaves the
  requester without a notice: `disturbed` in `NoticeTellsStatus`. One more answer
  that nothing disturbs puts both right, which is part of the property.
* An increment of a counter that fails (`treksCount`, the follow and like counts)
  is never made up for, and a removed trek stays counted: `TreksCounted` and
  `Accounted` carry these as terms and say that nothing else is wrong.
* The demo script's `$set` of counters overwrites what live calls added to demo
  accounts and posts while it seeded: `meddled` in `DemoCountsMatch`. A wipe that
  overlaps another run, or dies, can leave parts of two sets: `clashed`.
* A wipe of demo data does not undo the counts that demo accounts' live edges
  added elsewhere, and an edge of a real account to a demo one stays behind as
  the script's own note says (lines 311-316); the counters still agree with the
  edges that are stored, which is what `RealCountsMatch` says.

## 5. Proofs

All proofs are for every value of the constants that satisfies the named
assumptions of the module: kinds of calls are disjoint, some sets are finite,
numbers are natural; `ChatConstants` plays that role for `Messaging` and is
assumed in `PeerChat`. The bounds `MaxCalls` and `MaxStarted` are constants
too, so that what is proved holds for any number of calls.

An invariant is seldom inductive as it stands. What each proof adds:

| property | strengthened by |
|---|---|
| `Bookings`: `NeverNegative`, `NoSeatLost`, `SeatsConserved`, `StatusTracksSeats`, `AnswersAreTrue`, `ImplementsLedger` | `Exclusive` (one open transaction per document), `Reserved` (the seat a create saw is still free at its commit), `Made`, `Found` (which bookings exist where in a request), `Undisturbed` (what an undisturbed cancellation may rely on) |
| `SurplusBounded` | `NewlyDisturbed` and `EndedStay`: a repeat disturbs the booking, and an ended cancel stays ended and counted |
| `TrekListCache`: `BoundedStaleness` | `Fresh`: a list in a reader's hands is no older than its delay |
| `InvalidationReaches` | `Scanned`: an older entry that was not late is still to be visited, or was found |
| `Settled` (below) | `Ordered`: an older version was superseded no later than a newer one |
| its `TypeOK` | `Counted`: the version is the number of commits |
| `RefreshTokens`: `OneUsableToken` | `Lifecycle` (what a request at its place knows of its token), `Chain`: the places where a family can grow on, usable tokens nobody rotates and rotations under way (`Branches`), number one more at most than its overlaps |
| `EndedStaysEnded` | `Closed`: no undisturbed rotation is left in an ended family |
| `NoFalseAlarm` | `Caused`: a revoked token was presented, or its family ended |
| `SessionContinues` (below) | `Lineage`, `Continued`: a family that nobody ended, whose tokens are in time, has a usable token or a refresh that owes it one |
| `RateLimiter`: `AdmittedWithinLimit` | `Distinct`: two requests of one counter were answered different numbers |
| `RefusedForCause` (below) | `Tallied`: a counter shows how many requests it counted, and no request was told more |
| `BoundedWindow` | `Expiring`, `Hurried`: a counter without expiry has a request on the way to set it that is as old as its `age`, or its `age` has just begun |
| `Awaited` (below) | itself: the last hit of a counter without expiry is to set it, or has died |
| `BlockOutlivesCounter` | `Earlier`: a request that decides to block did so no longer than its delay ago |
| `JoinRequests`: `AcceptedCanChat`, `NoticeTellsStatus` | `Progress`, `Unlocked`, `Alone` (an answer that overlaps no other knows the stored status), `Untroubled` (on an undisturbed request only such an answer is under way, and else the last notice is true), `Heard` |
| `Messaging`: `ThreadDated` | `Dated` (dates are handed out once), `DatesInHand` (a date about to be written is later than every message, but those that came when it was in hand) |
| `NothingMissed` | `Paging`: a joined client has, is about to get, or will meet on a page it has not read every message. The step that reads needs `ShortPageIsLast`, from counting: if a page is not full, no older message is left |
| `ReadsWithinThread` (below) | `FullPagesAreFilled`, by the pigeonhole principle: behind a full page there are as many messages as it ends at |
| `PeerChat` | nothing new: `RequestsImplemented` and `ConversationsFit` show that it implements both parts, and their theorems carry over |
| `Reviews`: `OneAccountEach`, `AnswersStand` | `Progress` (what a visit has found or made), `Sole` (emails differ; any two logins that have listed one identity, or are about to, are in `raced`; an entry is under its login's email), with the fact that accounts only grow (`Grows`) |
| `TreksCounted` | `Listed`: which treks exist where in a publish |
| `RatingsSettle` | `Stored` (what a review at its place has counted), `Pending` (an aggregate in hand covers every other, but those it is noted to be older than) |
| `DemoData`: `RealCountsMatch` | `Holding` (a call owes or has lost only counters of the edge it names), `Apart` (the script's edges are its own accounts') |
| `SeedOnce` | `Placed`: the first account of a run, whose email is unique, is its place; outside a wipe one run has it, and whoever has created anything has it. `Wiping`: who wipes is alone, and what it has cleared stays away. `Unborn`: a run that has not begun to seed has created nothing |
| `DemoCountsMatch` | `Untouched`, `ByScript`: before a run is done, edges and counters of its documents are what the script has written so far, unless a call named them |

`Bookings` to `SeatLedger`: `SeatMoves` shows that a step sells one seat,
returns one, or is quiet; the counting (`AccountsStep`), the refinement
(`LedgerStep`) and the surplus (`SurplusStep`) all follow from it.

The balance of `DemoData`'s counters is one lemma about a call's step
(`CallAccounts`), used for real and for demo accounts alike; the script enters
by what it leaves alone (`ScriptLeaves`).

Some theorems state what no run checks, because it is about steps, or about a
bound that follows from the same invariants. TLC has agreed with each on the
instances of section 3.

| theorem | what it adds |
|---|---|
| `CancelsAreFinal` (`Bookings`) | no step confirms a cancelled booking again or loses one |
| `OverbookingExplained`, `CancelsAreAtomic` | the limits of findings 2 and 3, see section 4 |
| `OnlyLateGoesBack` (`TrekListCache`) | a key goes back to an older list only by a SET that was late |
| `SessionsContinue`, `RevocationLasts` (`RefreshTokens`) | rotation alone logs nobody out; a revoked token is never usable again |
| `RefusedWithCause` (`RateLimiter`) | the other half of the limit: no refusal and no block unless a counter has counted more than `Limit` |
| `OnlyOrganizersDecide` (`JoinRequests`) | the organizer is checked in one step and the answer saved in another; still nobody else decides |
| `AccountsOnlyGrow` (`Accounts`) | no step takes an account or a linked identity away |
| `ScriptKeepsToDemo` (`DemoData`) | the promise at the head of the script, of every step of every run |

Liveness needs fairness and ENABLED, which are out of the prover's reach, so the
four liveness properties are only model-checked. Proved is what makes them
true, up to the steps being taken:

* `EveryCallEnds`: every step of a request lowers its rank, a natural number, and
  raises no other's (`EveryStepCounts`): with retries bounded as they are,
  requests cannot keep each other going by conflicts.
* `SettlesOnLastVersion`: TTL + MaxDelay ticks after the last write every cached
  list shows it, whether or not its invalidation happened (`SettlesInTime`).
* `Forgiven`: the last hit of a counter without an expiry is on its way to set
  it, unless it died itself (`ExpiryIsComing`), and with one it ends
  (`WindowEnds`).
* `EveryoneCatchesUp`: paging ends, as nobody asks for more than one page past
  the messages there are (`ReadingEnds`), and what was read to the end misses
  nothing (`NothingIsMissed`).

## 6. What the project leaves to do

* `PeerChat` with three users and two treks is too large for TLC here; the
  theorems cover it.

## 7. Not modelled

* Storage: one presigning call to S3 and no state.
* Guards, filter, decorators, DTOs: stateless checks of one request. Where a
  check decides what a handler does it is in the handler's action.
* The join requests of the demo script: it inserts some that are `accepted` or
  `declined` already, without a conversation or a notice
  (`seed-demo-sahyadri.ts:585`). `JoinRequests` starts without them, so what it
  says of accepted requests is said of those made through the API; `DemoData`
  counts them as a part of a set.
* Loss inside the Redis adapter of Socket.IO while connections stay up: Redis
  pub/sub is at-most-once, `Messaging` assumes that what is emitted reaches the
  sockets of the room that stay connected.
* Bootstrap: wiring. The serverless entry keeps one promise per instance; a
  model of it would restate an assignment.
* `updateMe` and `submitKyc`: one statement that overwrites fields of the
  caller's own document, which no modelled code reads (a second KYC submission
  overwrites the first; no code of the repository approves one).
* The inbox (`list`, `markAllRead`), post creation, health and the smoke
  scripts: one statement each, or a sequence of calls that prints answers.
* All reads that only format documents. Verification of passwords and of the
  providers' tokens is an outcome the environment chooses.
