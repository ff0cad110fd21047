--------------------------- MODULE TrekListCache ---------------------------
(***************************************************************************)
(* The Redis cache of the discover feed: TreksService.findAll reads through*)
(* it (treks/treks.service.ts) with RedisService.get and set, and every    *)
(* write of a listing or of its seats ends in invalidateListCache, which is*)
(* RedisService.delByPrefix (redis/redis.service.ts): a SCAN for the keys, *)
(* then one DEL.  A review's applyReviewAggregate changes what the list    *)
(* shows and invalidates nothing.                                          *)
(*                                                                         *)
(* What a list shows is abstracted to the number of writes it has seen: the*)
(* version of the treks collection it was read from.  Time passes in ticks;*)
(* the one assumption about it is MaxDelay, the longest a request may take *)
(* from its query to its SET.                                              *)
(***************************************************************************)
EXTENDS Integers, FiniteSets

CONSTANTS
    Keys,           \* cache keys: one per combination of filters
    Readers,        \* processes serving GET /treks, over and over
    Writers,        \* requests that write a trek and invalidate the cache
    Reviews,        \* requests that write a review aggregate
    TTL,            \* CACHE_TTL_SECONDS, in ticks
    MaxDelay        \* longest time from a reader's query to its SET, in ticks

Commits == Writers \cup Reviews

ASSUME CacheAssumption ==
    /\ IsFiniteSet(Commits) /\ Writers \cap Reviews = {}
    /\ TTL \in Nat \ {0} /\ MaxDelay \in Nat

VARIABLES
    version,        \* writes of the treks collection committed so far
    cached,         \* the entries of Redis; ttl = 0 is no entry
    reader,         \* reader[r]: where r is, its key, the list it found
    pc,             \* where each writing request is
    wrote,          \* wrote[w]: the version w's commit made
    unseen,         \* unseen[w]: keys w's SCAN has still to visit
    found,          \* found[w]: keys w's SCAN has returned
    age             \* age[v]: ticks since version v was superseded, capped

vars == <<version, cached, reader, pc, wrote, unseen, found, age>>

Versions == 0 .. Cardinality(Commits)
MaxAge   == TTL + MaxDelay + 1       \* bound of age: beyond it nothing differs
Entry    == [ver: Versions, ttl: 0 .. TTL, late: BOOLEAN]
NoEntry  == [ver |-> 0, ttl |-> 0, late |-> FALSE]
Reader   == [pc: {"idle", "find", "set"}, key: Keys, ver: Versions, waited: 0 .. MaxDelay]

Resting(s) == [pc |-> "idle", key |-> s.key, ver |-> 0, waited |-> 0]

Present(k) == cached[k].ttl > 0

Init ==
    /\ version = 0
    /\ cached = [k \in Keys |-> NoEntry]
    /\ reader \in [Readers -> {s \in Reader : s = Resting(s)}]
    /\ pc = [w \in Commits |-> "idle"]
    /\ wrote = [w \in Commits |-> 0]
    /\ unseen = [w \in Commits |-> {}] /\ found = [w \in Commits |-> {}]
    /\ age = [v \in Versions |-> 0]

-----------------------------------------------------------------------------
(* findAll.                                                                *)

\* Mutant: a hit renews the entry's time to live.
GetSliding(r, k) ==
    /\ reader[r].pc = "idle"
    /\ IF Present(k)
       THEN cached' = [cached EXCEPT ![k].ttl = TTL] /\ UNCHANGED reader
       ELSE /\ reader' = [reader EXCEPT ![r] = [@ EXCEPT !.pc = "find", !.key = k]]
            /\ UNCHANGED cached
    /\ UNCHANGED <<version, pc, wrote, unseen, found, age>>

\* redis.get: a hit is the answer, a miss goes on to the database.
Get(r, k) ==
    /\ reader[r].pc = "idle"
    /\ IF Present(k) THEN UNCHANGED reader
       ELSE reader' = [reader EXCEPT ![r] = [@ EXCEPT !.pc = "find", !.key = k]]
    /\ UNCHANGED <<version, cached, pc, wrote, unseen, found, age>>

\* trekModel.find.
Find(r) ==
    /\ reader[r].pc = "find"
    /\ reader' = [reader EXCEPT ![r] = [@ EXCEPT !.pc = "set", !.ver = version, !.waited = 0]]
    /\ UNCHANGED <<version, cached, pc, wrote, unseen, found, age>>

\* redis.set with the TTL, then the answer.  The entry is late when a write
\* was committed after the list was read.
Set(r) ==
    /\ reader[r].pc = "set"
    /\ cached' = [cached EXCEPT ![reader[r].key] =
                      [ver |-> reader[r].ver, ttl |-> TTL,
                       late |-> reader[r].ver < version]]
    /\ reader' = [reader EXCEPT ![r] = Resting(@)]
    /\ UNCHANGED <<version, pc, wrote, unseen, found, age>>

\* The query or Redis fails, or the process dies: nothing is cached.
ReadFails(r) ==
    /\ reader[r].pc # "idle"
    /\ reader' = [reader EXCEPT ![r] = Resting(@)]
    /\ UNCHANGED <<version, cached, pc, wrote, unseen, found, age>>

-----------------------------------------------------------------------------
(* A write of the treks collection, and invalidateListCache.               *)

NextVersion(w) == /\ version' = version + 1
                  /\ wrote' = [wrote EXCEPT ![w] = version + 1]

\* create, update, remove of a trek; the commit of a booking's transaction.
Commit(w) ==
    /\ pc[w] = "idle"
    /\ NextVersion(w)
    /\ pc' = [pc EXCEPT ![w] = "scan"]
    /\ unseen' = [unseen EXCEPT ![w] = Keys]
    /\ UNCHANGED <<cached, reader, found, age>>

\* applyReviewAggregate.
ApplyReviewAggregate(w) ==
    /\ pc[w] = "idle"
    /\ NextVersion(w)
    /\ pc' = [pc EXCEPT ![w] = "done"]
    /\ UNCHANGED <<cached, reader, unseen, found, age>>

\* Mutant: the first batch of the SCAN is taken for all of it.
ScanFirst(w) ==
    /\ pc[w] = "scan" /\ unseen[w] # {}
    /\ \E k \in unseen[w] :
          /\ unseen' = [unseen EXCEPT ![w] = {}]
          /\ found' = [found EXCEPT ![w] = IF Present(k) THEN @ \cup {k} ELSE @]
    /\ UNCHANGED <<version, cached, reader, pc, wrote, age>>

\* keysByPrefix: SCAN visits the key space step by step, in any order; a key
\* written behind its back is missed, one that stays is returned.
Scan(w) ==
    /\ pc[w] = "scan" /\ unseen[w] # {}
    /\ \E k \in unseen[w] :
          /\ unseen' = [unseen EXCEPT ![w] = @ \ {k}]
          /\ found' = [found EXCEPT ![w] = IF Present(k) THEN @ \cup {k} ELSE @]
    /\ UNCHANGED <<version, cached, reader, pc, wrote, age>>

\* DEL of what was found, if anything was; then the request answers.
Delete(w) ==
    /\ pc[w] = "scan" /\ unseen[w] = {}
    /\ cached' = [k \in Keys |-> IF k \in found[w] THEN NoEntry ELSE cached[k]]
    /\ found' = [found EXCEPT ![w] = {}]
    /\ pc' = [pc EXCEPT ![w] = "done"]
    /\ UNCHANGED <<version, reader, wrote, unseen, age>>

\* Redis cannot be reached, or the process dies: the write stands, the
\* entries stay.
InvalidationFails(w) ==
    /\ pc[w] = "scan"
    /\ pc' = [pc EXCEPT ![w] = "failed"]
    /\ unseen' = [unseen EXCEPT ![w] = {}] /\ found' = [found EXCEPT ![w] = {}]
    /\ UNCHANGED <<version, cached, reader, wrote, age>>

-----------------------------------------------------------------------------
OlderForever(e) == [e EXCEPT !.ttl = @ - 1]                         \* mutant

Older(e) == IF e.ttl <= 1 THEN NoEntry ELSE [e EXCEPT !.ttl = @ - 1]

Tick ==
    /\ \A r \in Readers : reader[r].pc = "set" => reader[r].waited < MaxDelay
    /\ cached' = [k \in Keys |-> Older(cached[k])]
    /\ reader' = [r \in Readers |-> IF reader[r].pc = "set"
                                    THEN [reader[r] EXCEPT !.waited = @ + 1]
                                    ELSE reader[r]]
    /\ age' = [v \in Versions |-> IF v < version /\ age[v] < MaxAge
                                  THEN age[v] + 1 ELSE age[v]]
    /\ UNCHANGED <<version, pc, wrote, unseen, found>>

Read(r) == (\E k \in Keys : Get(r, k)) \/ Find(r) \/ Set(r)
Write(w) == Commit(w) \/ Scan(w) \/ Delete(w)

Next ==
    \/ \E r \in Readers : Read(r) \/ ReadFails(r)
    \/ \E w \in Writers : Write(w) \/ InvalidationFails(w)
    \/ \E w \in Reviews : ApplyReviewAggregate(w)
    \/ Tick

Spec == Init /\ [][Next]_vars

\* Time passes, and a request that has found its list goes on to store it.
FairSpec == Spec /\ WF_vars(Tick) /\ \A r \in Readers : WF_vars(Set(r))

-----------------------------------------------------------------------------
(* Properties.                                                             *)

TypeOK ==
    /\ version \in Versions
    /\ cached \in [Keys -> Entry]
    /\ reader \in [Readers -> Reader]
    /\ pc \in [Commits -> {"idle", "scan", "done", "failed"}]
    /\ wrote \in [Commits -> Versions]
    /\ unseen \in [Commits -> SUBSET Keys] /\ found \in [Commits -> SUBSET Keys]
    /\ age \in [Versions -> 0 .. MaxAge]

\* README.md:133 "cached in Redis for 60s": whatever invalidations fail, are
\* never sent (reviews) or are overtaken by a slow reader, a list is served at
\* most TTL after it was stored, so at most TTL + MaxDelay after it was
\* superseded.
BoundedStaleness ==
    \A k \in Keys : Present(k) /\ cached[k].ver < version =>
        age[cached[k].ver] + cached[k].ttl <= TTL + MaxDelay

\* An invalidation that ended took every older entry with it, in spite of
\* SCAN and DEL being two commands and of other writers' invalidations, save
\* for entries that a reader stored after a write that it had not seen.
InvalidationReaches ==
    \A w \in Writers : pc[w] = "done" =>
        \A k \in Keys : Present(k) /\ cached[k].ver < wrote[w] => cached[k].late

\* Once nobody writes any more, the feed settles on the last version.
SettlesOnLastVersion ==
    <>[](\A k \in Keys : Present(k) => cached[k].ver = version)
=============================================================================
