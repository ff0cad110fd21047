----------------------------- MODULE RateLimiter -----------------------------
(***************************************************************************)
(* RedisThrottlerStorage.increment (redis/throttler-storage.redis.ts) as   *)
(* the ThrottlerGuard of @nestjs/throttler calls it, for one caller and    *)
(* one route: one hit counter and one block key in Redis.                  *)
(*                                                                         *)
(* The guard passes ttl and blockDuration in milliseconds, refuses with    *)
(* 429 when the record says isBlocked, and answers 500 when the storage    *)
(* throws.  A step is one Redis command; the requests of all instances     *)
(* interleave between the commands.                                        *)
(***************************************************************************)
EXTENDS Integers, FiniteSets

CONSTANTS
    Requests,       \* requests of one caller, each counted at most once
    Limit,          \* limit of the throttler
    Ttl,            \* its ttl, in milliseconds as the guard passes it
    BlockDuration,  \* its blockDuration; the guard's default is the ttl
    Steps,          \* how many milliseconds may pass at once
    MaxDelay        \* longest life of a request in the storage, in milliseconds

ASSUME RequestsFinite == IsFiniteSet(Requests)
ASSUME LimitAssumption == Limit \in Nat \ {0}
ASSUME TtlAssumption == Ttl \in Nat \ {0}
ASSUME BlockAssumption == BlockDuration \in Nat
ASSUME StepsAssumption == Steps \subseteq Nat \ {0}
ASSUME DelayAssumption == MaxDelay \in Nat

None == -1          \* PTTL of a key without expiry

VARIABLES
    hits,           \* hitKey: its count (0: no key) and its PTTL
    block,          \* PTTL of blockKey (0: no key)
    pc,             \* where each request is
    totalHits,      \* what INCR answered to it
    waited,         \* how long it has been in the storage
    life,           \* auxiliary: hit counters created so far
    counted,        \* auxiliary: the counter that counted the request (0: none)
    age             \* auxiliary: how long ago the present counter was created, or
                    \* lost a request that had not given it its expiry; the time
                    \* it is Abandoned, or beyond Window, is not counted

vars == <<hits, block, pc, totalHits, waited, life, counted, age>>
ghosts == <<life, counted, age>>

Working == {"incr", "pttl", "pexpire", "block"}
Ended   == {"admitted", "refused", "failed"}

Milliseconds(n) == n * 1000

\* The longest a counter should live: BoundedWindow below.
Window == Milliseconds(Ttl) + 2 * MaxDelay

ExceedsByTwo(n) == n > Limit + 1                                    \* mutant

Exceeds(n) == n > Limit

Goto(r, l) == pc' = [pc EXCEPT ![r] = l]

\* The counter has no expiry, and nobody is on the way to set it.
Abandoned == /\ hits.n > 0 /\ hits.ttl = None
             /\ \A r \in Requests : pc[r] \notin {"pttl", "pexpire"}

\* What follows once the counter has its expiry: the block, or the record.
Decide(r) == Goto(r, IF ~Exceeds(totalHits[r]) THEN "admitted"
                     ELSE IF BlockDuration > 0 THEN "block" ELSE "refused")

-----------------------------------------------------------------------------
Init ==
    /\ hits = [n |-> 0, ttl |-> None]
    /\ block = 0
    /\ pc = [r \in Requests |-> "idle"]
    /\ totalHits = [r \in Requests |-> 0]
    /\ waited = [r \in Requests |-> 0]
    /\ life = 0 /\ counted = [r \in Requests |-> 0]
    /\ age = 0

\* PTTL of the block key.  A blocked request is refused and not counted.
CheckBlock(r) ==
    /\ pc[r] = "idle"
    /\ Goto(r, IF block > 0 THEN "refused" ELSE "incr")
    /\ UNCHANGED <<hits, block, totalHits, waited, ghosts>>

\* INCR creates the key, without expiry, when there is none.
Incr(r) ==
    /\ pc[r] = "incr"
    /\ hits' = IF hits.n = 0 THEN [n |-> 1, ttl |-> None] ELSE [hits EXCEPT !.n = @ + 1]
    /\ totalHits' = [totalHits EXCEPT ![r] = hits.n + 1]
    /\ Goto(r, "pttl")
    /\ IF hits.n = 0 THEN life' = life + 1 /\ age' = 0 ELSE UNCHANGED <<life, age>>
    /\ counted' = [counted EXCEPT ![r] = life']
    /\ UNCHANGED <<block, waited>>

\* Mutants: the expiry is renewed by every hit, or the test misses a key
\* without expiry.
PttlSliding(r) ==
    /\ pc[r] = "pttl"
    /\ Goto(r, "pexpire")
    /\ UNCHANGED <<hits, block, totalHits, waited, ghosts>>
PttlMissing(r) ==
    /\ pc[r] = "pttl"
    /\ IF hits.n = 0 THEN Goto(r, "pexpire") ELSE Decide(r)
    /\ UNCHANGED <<hits, block, totalHits, waited, ghosts>>

\* PTTL of the hit key: -1 without expiry, -2 when it has just expired.
PttlHit(r) ==
    /\ pc[r] = "pttl"
    /\ IF hits.n = 0 \/ hits.ttl <= 0 THEN Goto(r, "pexpire") ELSE Decide(r)
    /\ UNCHANGED <<hits, block, totalHits, waited, ghosts>>

Pexpire(r) ==
    /\ pc[r] = "pexpire"
    /\ hits' = IF hits.n = 0 THEN hits ELSE [hits EXCEPT !.ttl = Milliseconds(Ttl)]
    /\ Decide(r)
    /\ UNCHANGED <<block, totalHits, waited, ghosts>>

\* Mutants: SET without PX, approximated by an expiry that never nears, and a
\* block shorter than asked for.
SetBlockForever(r) ==
    /\ pc[r] = "block"
    /\ block' = 3 * Milliseconds(BlockDuration)
    /\ Goto(r, "refused")
    /\ UNCHANGED <<hits, totalHits, waited, ghosts>>
SetBlockUnscaled(r) ==
    /\ pc[r] = "block"
    /\ block' = BlockDuration
    /\ Goto(r, "refused")
    /\ UNCHANGED <<hits, totalHits, waited, ghosts>>

SetBlock(r) ==
    /\ pc[r] = "block"
    /\ block' = Milliseconds(BlockDuration)
    /\ Goto(r, "refused")
    /\ UNCHANGED <<hits, totalHits, waited, ghosts>>

\* Redis refuses a command (the guard answers 500) or the process dies.
Fail(r) ==
    /\ pc[r] \in Working
    /\ Goto(r, "failed")
    /\ age' = IF pc[r] \in {"pttl", "pexpire"} /\ hits.ttl = None THEN 0 ELSE age
    /\ UNCHANGED <<hits, block, totalHits, waited, life, counted>>

\* Nothing is left for the clock to change.
Quiet == /\ block = 0
         /\ hits.ttl = None
         /\ \A r \in Requests : pc[r] \notin Working

\* d milliseconds pass: Redis removes the keys whose time is over.
Tick(d) ==
    /\ ~Quiet
    /\ \A r \in Requests : pc[r] \in Working => waited[r] + d <= MaxDelay
    /\ waited' = [r \in Requests |-> IF pc[r] \in Working THEN waited[r] + d ELSE waited[r]]
    /\ block' = IF block > d THEN block - d ELSE 0
    /\ hits' = IF hits.n = 0 \/ hits.ttl = None THEN hits
               ELSE IF hits.ttl > d THEN [hits EXCEPT !.ttl = @ - d]
               ELSE [n |-> 0, ttl |-> None]
    /\ age' = IF hits.n > 0 /\ ~Abandoned /\ age <= Window THEN age + d ELSE age
    /\ UNCHANGED <<pc, totalHits, life, counted>>

Terminating == Quiet /\ (\A r \in Requests : pc[r] \in Ended) /\ UNCHANGED vars

Serve(r) == Incr(r) \/ PttlHit(r) \/ Pexpire(r) \/ SetBlock(r)
TimePasses == \E d \in Steps : Tick(d)

Next == \/ \E r \in Requests : CheckBlock(r) \/ Serve(r) \/ Fail(r)
        \/ TimePasses
        \/ Terminating

Spec == Init /\ [][Next]_vars

\* Redis answers, and time does not stand still.
FairSpec == Spec /\ WF_vars(TimePasses) /\ \A r \in Requests : WF_vars(Serve(r))

-----------------------------------------------------------------------------
(* Properties.                                                             *)

TypeOK ==
    /\ hits \in [n : Nat, ttl : {None} \cup 1 .. Milliseconds(Ttl)]
    /\ block \in 0 .. Milliseconds(BlockDuration)
    /\ pc \in [Requests -> {"idle"} \cup Working \cup Ended]
    /\ totalHits \in [Requests -> Nat]
    /\ waited \in [Requests -> 0 .. MaxDelay]
    /\ life \in Nat /\ counted \in [Requests -> 0 .. life]
    /\ age \in Nat

\* The limit: whatever instances serve the requests and however their commands
\* interleave, one counter never admits more than Limit of them.
AdmittedOf(l) == {r \in Requests : pc[r] = "admitted" /\ counted[r] = l}

AdmittedWithinLimit == \A l \in 1 .. life : Cardinality(AdmittedOf(l)) <= Limit

\* INCR and PEXPIRE are two commands.  All the same, a counter is gone after the
\* window: requests that read "no expiry" together may set it late, but not
\* after twice the longest call, and later hits do not renew it.  A request that
\* dies between the two starts the window anew, and a counter that is abandoned
\* so for any time is back in its window with the next hit.
BoundedWindow == hits.n > 0 => age <= Window

\* A caller who has sat out the block starts afresh: with a blockDuration of at
\* least the ttl the counter that caused the block is gone when the block
\* ends, but for what a request still under way added; nobody is refused twice
\* for the same requests.
BlockOutlivesCounter ==
    BlockDuration >= Ttl /\ block > 0 => hits.ttl <= block + MaxDelay

\* In the end every caller is forgiven: the block and the counter disappear
\* when no request comes any more, unless the very last hit died before its
\* PEXPIRE; whatever died before it is made good by it.
LastHit(r) == counted[r] = life /\ totalHits[r] = hits.n

Forgiven == <>[](block = 0 /\ (hits.n = 0 \/ \E r \in Requests : LastHit(r) /\ pc[r] = "failed"))

\* app.module.ts converts the configured seconds to the guard's milliseconds
\* and .env.example calls THROTTLE_TTL=60 the window: a counter is gone Ttl
\* milliseconds after it was created, give or take the requests under way.
WindowAsConfigured == hits.n > 0 => age <= Ttl + 2 * MaxDelay
=============================================================================
