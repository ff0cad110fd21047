------------------------- MODULE RateLimiterProofs -------------------------
(***************************************************************************)
(* RateLimiter, proved for any number of requests and any limit, ttl,      *)
(* block and delay.                                                        *)
(*                                                                         *)
(* The limit rests on INCR: no two requests of one counter were given the  *)
(* same total (Distinct).  The window rests on the request that created the*)
(* counter, or another of it, being on its way to set the expiry (Expiring)*)
(* and on every such request being in a hurry (Hurried).  The block rests  *)
(* on everybody who was let in before it (Earlier).  That a refusal has its*)
(* cause rests on what a request was told being no more than what its      *)
(* counter counted (Tallied).                                              *)
(***************************************************************************)
EXTENDS RateLimiter, TLAPS, FiniteSetTheorems

Counting == {"pttl", "pexpire"}

Distinct ==
    /\ hits.n > 0 => life > 0 /\ \A r \in Requests : counted[r] = life => totalHits[r] <= hits.n
    /\ \A q, r \in Requests : /\ counted[r] > 0 => totalHits[r] > 0
                              /\ q # r /\ counted[q] = counted[r] /\ counted[r] > 0
                                    => totalHits[q] # totalHits[r]
    /\ \A r \in Requests : pc[r] = "admitted" => totalHits[r] <= Limit

Expiring ==
    hits.n > 0 /\ hits.ttl = None =>
        age = 0 \/ \E r \in Requests : pc[r] \in Counting /\ age <= waited[r]

Hurried ==
    hits.n > 0 =>
        /\ \A r \in Requests : pc[r] = "pexpire" => age <= MaxDelay + waited[r]
        /\ hits.ttl # None => age + hits.ttl <= Window

\* A counter without an expiry waits for its last hit, or has lost it.
Awaited ==
    hits.n > 0 /\ hits.ttl = None =>
        \E r \in Requests : LastHit(r) /\ pc[r] \in Counting \cup {"failed"}

Earlier ==
    block > 0 => \A r \in Requests :
        pc[r] \in {"incr", "pttl", "pexpire"} =>
            Milliseconds(BlockDuration) - block <= waited[r]

-----------------------------------------------------------------------------
LEMMA Bounds == /\ Limit \in Nat \ {0} /\ Ttl \in Nat \ {0} /\ BlockDuration \in Nat
                /\ MaxDelay \in Nat /\ Steps \subseteq Nat \ {0}
                /\ Milliseconds(Ttl) = 1000 * Ttl
                /\ Milliseconds(BlockDuration) = 1000 * BlockDuration
                /\ Window = 1000 * Ttl + 2 * MaxDelay
  BY LimitAssumption, TtlAssumption, BlockAssumption, StepsAssumption, DelayAssumption
     DEF Milliseconds, Window

LEMMA DecideGoes ==
  ASSUME TypeOK, NEW r \in Requests, Decide(r)
  PROVE  \E l \in {"admitted", "block", "refused"} :
            /\ pc' = [pc EXCEPT ![r] = l]
            /\ l = "admitted" => totalHits[r] <= Limit
            /\ l # "admitted" => totalHits[r] > Limit
  <1>1. totalHits[r] \in Nat /\ Limit \in Nat
    BY Bounds DEF TypeOK
  <1>2. CASE totalHits[r] <= Limit
    <2>1. ~Exceeds(totalHits[r])
      BY <1>1, <1>2 DEF Exceeds
    <2>2. pc' = [pc EXCEPT ![r] = "admitted"]
      BY <2>1 DEF Decide, Goto
    <2>3. QED
      BY <1>2, <2>2
  <1>3. CASE totalHits[r] > Limit
    <2>1. pc' = [pc EXCEPT ![r] = IF BlockDuration > 0 THEN "block" ELSE "refused"]
      BY <1>1, <1>3 DEF Decide, Goto, Exceeds
    <2>2. QED
      BY <1>3, <2>1
  <1>4. QED
    BY <1>1, <1>2, <1>3

-----------------------------------------------------------------------------
LEMMA TypeInit == Init => TypeOK
  <1> SUFFICES ASSUME Init PROVE TypeOK
    OBVIOUS
  <1> USE Bounds DEF Init
  <1>1. hits \in [n : Nat, ttl : {None} \cup 1 .. Milliseconds(Ttl)]
    OBVIOUS
  <1>2. block \in 0 .. Milliseconds(BlockDuration) /\ waited \in [Requests -> 0 .. MaxDelay]
    OBVIOUS
  <1>3. pc \in [Requests -> {"idle"} \cup Working \cup Ended] /\ totalHits \in [Requests -> Nat]
    OBVIOUS
  <1>4. life \in Nat /\ counted \in [Requests -> 0 .. life] /\ age \in Nat
    OBVIOUS
  <1>5. QED
    BY <1>1, <1>2, <1>3, <1>4 DEF TypeOK

LEMMA TypeStep == TypeOK /\ [Next]_vars => TypeOK'
  <1> SUFFICES ASSUME TypeOK, [Next]_vars PROVE TypeOK'
    OBVIOUS
  <1> USE Bounds DEF TypeOK, None, Working, Ended, Goto, ghosts
  <1>1. ASSUME NEW r \in Requests, CheckBlock(r) PROVE TypeOK'
    BY <1>1 DEF CheckBlock
  <1>2. ASSUME NEW r \in Requests, Incr(r) PROVE TypeOK'
    <2>1. hits.n \in Nat /\ hits' \in [n : Nat, ttl : {None} \cup 1 .. Milliseconds(Ttl)]
      BY <1>2 DEF Incr
    <2>2. life' \in Nat /\ life <= life' /\ counted' = [counted EXCEPT ![r] = life']
      BY <1>2 DEF Incr
    <2>3. counted' \in [Requests -> 0 .. life']
      BY <2>2
    <2>4. age' \in Nat
      BY <1>2 DEF Incr
    <2>5. QED
      BY <1>2, <2>1, <2>2, <2>3, <2>4 DEF Incr
  <1>3. ASSUME NEW r \in Requests, PttlHit(r) PROVE TypeOK'
    BY <1>3, DecideGoes DEF PttlHit
  <1>4. ASSUME NEW r \in Requests, Pexpire(r) PROVE TypeOK'
    BY <1>4, DecideGoes DEF Pexpire
  <1>5. ASSUME NEW r \in Requests, SetBlock(r) PROVE TypeOK'
    BY <1>5 DEF SetBlock
  <1>6. ASSUME NEW r \in Requests, Fail(r) PROVE TypeOK'
    <2>1. age' \in Nat
      BY <1>6 DEF Fail
    <2>2. QED
      BY <1>6, <2>1 DEF Fail
  <1>7. ASSUME NEW d \in Steps, Tick(d) PROVE TypeOK'
    <2>1. hits' \in [n : Nat, ttl : {None} \cup 1 .. Milliseconds(Ttl)]
      BY <1>7 DEF Tick
    <2>2. waited' \in [Requests -> 0 .. MaxDelay]
      BY <1>7 DEF Tick
    <2>3. block' \in 0 .. Milliseconds(BlockDuration) /\ age' \in Nat
      BY <1>7 DEF Tick
    <2>4. QED
      BY <1>7, <2>1, <2>2, <2>3 DEF Tick
  <1>8. CASE Terminating \/ UNCHANGED vars
    BY <1>8 DEF Terminating, vars
  <1>9. QED
    BY <1>1, <1>2, <1>3, <1>4, <1>5, <1>6, <1>7, <1>8 DEF Next, Serve, TimePasses

\* The keys of Redis and the requests are always in a state that is declared,
\* no expiry longer than it was set for, no request in the storage too long.
THEOREM Typing == Spec => []TypeOK
  BY TypeInit, TypeStep, PTL DEF Spec

-----------------------------------------------------------------------------
(* The limit.                                                              *)

LEMMA DistinctInit == Init => Distinct
  BY DEF Init, Distinct

LEMMA DistinctStep == TypeOK /\ Distinct /\ [Next]_vars => Distinct'
  <1> SUFFICES ASSUME TypeOK, Distinct, [Next]_vars PROVE Distinct'
    OBVIOUS
  <1> USE Bounds DEF TypeOK, Working, Goto, ghosts
  \* A step that counts nobody and admits nobody above the limit.
  <1>1. ASSUME UNCHANGED <<totalHits, life, counted>>,
               hits'.n = hits.n \/ hits'.n = 0,
               \A r \in Requests :
                   pc'[r] = "admitted" => pc[r] = "admitted" \/ totalHits[r] <= Limit
        PROVE  Distinct'
    BY <1>1 DEF Distinct
  <1>2. ASSUME NEW r \in Requests, CheckBlock(r) PROVE Distinct'
    BY <1>1, <1>2 DEF CheckBlock
  <1>3. ASSUME NEW r \in Requests, Incr(r) PROVE Distinct'
    <2>1. /\ hits.n \in Nat /\ hits'.n = hits.n + 1 /\ totalHits'[r] = hits.n + 1
          /\ life' = IF hits.n = 0 THEN life + 1 ELSE life
          /\ counted'[r] = life' /\ pc'[r] = "pttl"
          /\ \A q \in Requests : q # r => /\ totalHits'[q] = totalHits[q]
                                          /\ counted'[q] = counted[q] /\ pc'[q] = pc[q]
      BY <1>3 DEF Incr
    <2>2. ASSUME NEW q \in Requests, q # r, counted[q] = life'
          PROVE  hits.n > 0 /\ totalHits[q] <= hits.n
      BY <2>1, <2>2 DEF Distinct
    <2>3. life' > 0
      BY <2>1 DEF Distinct
    <2>4. QED
      BY <2>1, <2>2, <2>3 DEF Distinct
  <1>4. ASSUME NEW r \in Requests, PttlHit(r) PROVE Distinct'
    BY <1>1, <1>4, DecideGoes DEF PttlHit
  <1>5. ASSUME NEW r \in Requests, Pexpire(r) PROVE Distinct'
    BY <1>1, <1>5, DecideGoes DEF Pexpire
  <1>6. ASSUME NEW r \in Requests, SetBlock(r) \/ Fail(r) PROVE Distinct'
    BY <1>1, <1>6 DEF SetBlock, Fail
  <1>7. ASSUME NEW d \in Steps, Tick(d) PROVE Distinct'
    BY <1>1, <1>7 DEF Tick
  <1>8. CASE Terminating \/ UNCHANGED vars
    BY <1>1, <1>8 DEF Terminating, vars
  <1>9. QED
    BY <1>2, <1>3, <1>4, <1>5, <1>6, <1>7, <1>8 DEF Next, Serve, TimePasses

LEMMA DistinctLimits == TypeOK /\ Distinct => AdmittedWithinLimit
  <1> SUFFICES ASSUME TypeOK, Distinct, NEW l \in 1 .. life
               PROVE  Cardinality(AdmittedOf(l)) <= Limit
    BY DEF AdmittedWithinLimit
  <1> DEFINE f == [r \in AdmittedOf(l) |-> totalHits[r]]
  <1>1. IsFiniteSet(AdmittedOf(l)) /\ Cardinality(AdmittedOf(l)) \in Nat
    BY RequestsFinite, FS_Subset, FS_CardinalityType DEF AdmittedOf
  <1>2. IsFiniteSet(1 .. Limit) /\ Cardinality(1 .. Limit) = Limit
    <2>1. 1 \in Int /\ Limit \in Int /\ ~(1 > Limit) /\ Limit - 1 + 1 = Limit
      BY Bounds
    <2>2. QED
      BY <2>1, FS_Interval
  <1>3. f \in [AdmittedOf(l) -> 1 .. Limit]
    BY Bounds DEF AdmittedOf, Distinct, TypeOK
  <1>4. \A q, r \in AdmittedOf(l) : q # r => f[q] # f[r]
    BY DEF AdmittedOf, Distinct, TypeOK
  <1>5. ~(Cardinality(1 .. Limit) < Cardinality(AdmittedOf(l)))
    <2> HIDE DEF f
    <2>1. QED
      BY <1>1, <1>2, <1>3, <1>4, FS_PigeonHole
  <1>6. QED
    BY <1>1, <1>2, <1>5, Bounds

\* However many instances serve however many requests at once, one counter
\* admits no more than Limit of them.
THEOREM WithinLimit == Spec => []AdmittedWithinLimit
  <1>1. TypeOK /\ Distinct /\ [Next]_vars => (TypeOK /\ Distinct)'
    BY TypeStep, DistinctStep
  <1>2. QED
    BY TypeInit, DistinctInit, <1>1, DistinctLimits, PTL DEF Spec
-----------------------------------------------------------------------------
(* The other half of the limit: nobody is refused below it.                *)

CountedBy(l) == {r \in Requests : counted[r] = l}
OverLimit(l) == Cardinality(CountedBy(l)) > Limit

\* No request is refused, now or by a block, unless some counter has counted
\* more than Limit of them.
RefusedForCause ==
    block > 0 \/ (\E r \in Requests : pc[r] = "refused") => \E l \in 1 .. life : OverLimit(l)

\* What a request was told is what the counter had counted, at most what it
\* has counted by now.
Tallied ==
    /\ \A r \in Requests :
          /\ pc[r] \in {"idle", "incr"} => counted[r] = 0
          /\ pc[r] \in {"pttl", "pexpire", "block"} => counted[r] > 0
          /\ counted[r] > 0 => totalHits[r] <= Cardinality(CountedBy(counted[r]))
          /\ pc[r] = "block" => totalHits[r] > Limit
    /\ hits.n > 0 => life > 0 /\ hits.n = Cardinality(CountedBy(life))

LEMMA CountedFinite ==
  \A l : IsFiniteSet(CountedBy(l)) /\ Cardinality(CountedBy(l)) \in Nat
  BY RequestsFinite, FS_Subset, FS_CardinalityType DEF CountedBy

\* The same after the step.
CountedNext(l) == {r \in Requests : counted'[r] = l}

LEMMA CauseInit == Init => Tallied /\ RefusedForCause
  BY DEF Init, Tallied, RefusedForCause

\* One hit: the counter it meets, or makes, has counted one request more.
LEMMA IncrCounts ==
  ASSUME TypeOK, Tallied, NEW r \in Requests, Incr(r)
  PROVE  /\ life' \in Nat \ {0} /\ life <= life' /\ counted[r] = 0
         /\ CountedNext(life') = CountedBy(life') \cup {r}
         /\ Cardinality(CountedNext(life')) = hits.n + 1
         /\ \A l \in 1 .. life' : l # life' => CountedNext(l) = CountedBy(l)
  <1>1. counted[r] = 0 /\ life' \in Nat \ {0} /\ life <= life'
    BY DEF Incr, Tallied, TypeOK
  <1>2. counted' = [counted EXCEPT ![r] = life']
    BY DEF Incr
  <1>3. /\ CountedNext(life') = CountedBy(life') \cup {r} /\ r \notin CountedBy(life')
        /\ \A l \in 1 .. life' : l # life' => CountedNext(l) = CountedBy(l)
    BY <1>1, <1>2 DEF CountedBy, CountedNext, TypeOK
  <1>4. Cardinality(CountedBy(life')) = hits.n
    <2>1. CASE hits.n = 0
      <3>1. life' = life + 1
        BY <2>1 DEF Incr
      <3>2. CountedBy(life') = {}
        BY <3>1 DEF CountedBy, TypeOK
      <3>3. QED
        BY <2>1, <3>2, FS_EmptySet
    <2>2. CASE hits.n # 0
      <3>1. hits.n > 0 /\ life' = life
        BY <2>2 DEF Incr, TypeOK
      <3>2. QED
        BY <3>1 DEF Tallied
    <2>3. QED
      BY <2>1, <2>2
  <1>5. Cardinality(CountedBy(life') \cup {r}) = Cardinality(CountedBy(life')) + 1
    BY <1>3, CountedFinite, FS_AddElement
  <1>6. QED
    BY <1>1, <1>3, <1>4, <1>5

LEMMA CauseStep ==
  TypeOK /\ Tallied /\ RefusedForCause /\ [Next]_vars => Tallied' /\ RefusedForCause'
  <1> SUFFICES ASSUME TypeOK, Tallied, RefusedForCause, [Next]_vars
               PROVE  Tallied' /\ RefusedForCause'
    OBVIOUS
  <1> USE Bounds DEF TypeOK, Goto, ghosts
  \* A step that counts nobody moves a request on, and blocks or refuses it
  \* for what it was told or because of a block.
  <1>1. ASSUME UNCHANGED <<totalHits, life, counted>>,
               hits'.n = hits.n \/ hits'.n = 0,
               \A r \in Requests :
                   \/ pc'[r] = pc[r]
                   \/ pc[r] = "idle" /\ pc'[r] = "incr"
                   \/ pc[r] = "idle" /\ pc'[r] = "refused" /\ block > 0
                   \/ pc[r] \in Counting /\ pc'[r] \in {"pexpire", "admitted"}
                   \/ pc[r] \in Counting /\ pc'[r] \in {"block", "refused"} /\ totalHits[r] > Limit
                   \/ pc[r] = "block" /\ pc'[r] = "refused"
                   \/ pc[r] \in Working /\ pc'[r] = "failed",
               block' > 0 => block > 0 \/ \E r \in Requests : pc[r] = "block"
        PROVE  Tallied' /\ RefusedForCause'
    <2>1. \A l : CountedBy(l)' = CountedBy(l)
      BY <1>1 DEF CountedBy
    <2>2. Tallied'
      BY <1>1, <2>1 DEF Tallied, Counting, Working
    <2>3. ASSUME NEW r \in Requests, pc[r] \in Counting \cup {"block"}, totalHits[r] > Limit
          PROVE  \E l \in 1 .. life : OverLimit(l)
      <3>1. counted[r] \in 1 .. life /\ totalHits[r] <= Cardinality(CountedBy(counted[r]))
        BY <2>3 DEF Tallied, Counting
      <3>2. Cardinality(CountedBy(counted[r])) \in Nat /\ totalHits[r] \in Nat
        BY CountedFinite
      <3>3. OverLimit(counted[r])
        BY <2>3, <3>1, <3>2 DEF OverLimit
      <3>4. QED
        BY <3>1, <3>3
    <2>4. \A r \in Requests : pc[r] = "block" => totalHits[r] > Limit
      BY DEF Tallied
    <2>5. (\E l \in 1 .. life : OverLimit(l)) => (\E l \in 1 .. life : OverLimit(l))'
      BY <1>1, <2>1 DEF OverLimit
    <2>6. SUFFICES ASSUME block' > 0 \/ \E r \in Requests : pc'[r] = "refused"
                   PROVE  \E l \in 1 .. life : OverLimit(l)
      BY <2>2, <2>5 DEF RefusedForCause
    <2>7. CASE block' > 0
      BY <1>1, <2>3, <2>4, <2>7 DEF RefusedForCause
    <2>8. ASSUME NEW r \in Requests, pc'[r] = "refused"
          PROVE  \E l \in 1 .. life : OverLimit(l)
      <3>1. \/ pc[r] = "refused" \/ block > 0
            \/ pc[r] \in Counting \cup {"block"} /\ totalHits[r] > Limit
        BY <1>1, <2>4, <2>8
      <3>2. QED
        BY <2>3, <3>1 DEF RefusedForCause
    <2>9. QED
      BY <2>6, <2>7, <2>8
  <1>2. ASSUME NEW r \in Requests, CheckBlock(r) PROVE Tallied' /\ RefusedForCause'
    BY <1>1, <1>2 DEF CheckBlock
  <1>3. ASSUME NEW r \in Requests, Incr(r) PROVE Tallied' /\ RefusedForCause'
    <2>1. /\ pc[r] = "incr" /\ pc' = [pc EXCEPT ![r] = "pttl"] /\ block' = block
          /\ totalHits' = [totalHits EXCEPT ![r] = hits.n + 1]
          /\ counted' = [counted EXCEPT ![r] = life'] /\ hits'.n = hits.n + 1
      BY <1>3 DEF Incr
    <2>2. /\ life' \in Nat \ {0} /\ life <= life' /\ counted[r] = 0
          /\ Cardinality(CountedNext(life')) = hits.n + 1
          /\ \A l \in 1 .. life' : l # life' => CountedNext(l) = CountedBy(l)
          /\ CountedBy(life') \subseteq CountedNext(life')
      BY <1>3, IncrCounts
    <2>3. \A l \in 1 .. life' :
              /\ Cardinality(CountedBy(l)) \in Nat /\ Cardinality(CountedNext(l)) \in Nat
              /\ Cardinality(CountedBy(l)) <= Cardinality(CountedNext(l))
      <3>1. TAKE l \in 1 .. life'
      <3>2. CountedBy(l) \subseteq CountedNext(l)
        BY <2>2
      <3>3. IsFiniteSet(CountedNext(l))
        BY RequestsFinite, FS_Subset DEF CountedNext
      <3>4. QED
        BY <3>2, <3>3, FS_Subset, FS_CardinalityType
    <2>4. Tallied'
      <3>1. ASSUME NEW q \in Requests
            PROVE  /\ pc'[q] \in {"idle", "incr"} => counted'[q] = 0
                   /\ pc'[q] \in {"pttl", "pexpire", "block"} => counted'[q] > 0
                   /\ counted'[q] > 0 => totalHits'[q] <= Cardinality(CountedNext(counted'[q]))
                   /\ pc'[q] = "block" => totalHits'[q] > Limit
        <4>1. CASE q = r
          <5>1. counted'[q] = life' /\ totalHits'[q] = hits.n + 1 /\ pc'[q] = "pttl"
            BY <2>1, <4>1
          <5>2. Cardinality(CountedNext(counted'[q])) = hits.n + 1
            BY <2>2, <5>1
          <5>3. QED
            BY <2>2, <5>1, <5>2
        <4>2. CASE q # r
          <5>1. counted'[q] = counted[q] /\ totalHits'[q] = totalHits[q] /\ pc'[q] = pc[q]
            BY <2>1, <4>2
          <5>2. counted[q] > 0 => /\ counted[q] \in 1 .. life'
                                  /\ totalHits[q] <= Cardinality(CountedBy(counted[q]))
            BY <2>2 DEF Tallied
          <5>3. counted[q] > 0 => totalHits[q] <= Cardinality(CountedNext(counted[q]))
            BY <2>3, <5>2
          <5>4. QED
            BY <5>1, <5>3 DEF Tallied
        <4>3. QED
          BY <4>1, <4>2
      <3>2. life' > 0 /\ hits'.n = Cardinality(CountedNext(life'))
        BY <2>1, <2>2
      <3>3. QED
        BY <3>1, <3>2 DEF Tallied, CountedBy, CountedNext
    <2>5. RefusedForCause'
      <3>1. SUFFICES ASSUME block' > 0 \/ \E q \in Requests : pc'[q] = "refused"
                     PROVE  \E l \in 1 .. life' : Cardinality(CountedNext(l)) > Limit
        BY SMTT(30) DEF RefusedForCause, OverLimit, CountedBy, CountedNext
      <3>2. PICK l \in 1 .. life : Cardinality(CountedBy(l)) > Limit
        BY <2>1, <3>1 DEF RefusedForCause, OverLimit
      <3>3. l \in 1 .. life' /\ Cardinality(CountedNext(l)) > Limit
        BY <2>2, <2>3, <3>2
      <3>4. QED
        BY <3>3
    <2>6. QED
      BY <2>4, <2>5
  <1>4. ASSUME NEW r \in Requests, PttlHit(r) PROVE Tallied' /\ RefusedForCause'
    <2>1. pc[r] \in Counting /\ UNCHANGED <<hits, block, totalHits, life, counted>>
      BY <1>4 DEF PttlHit, Counting
    <2>2. \/ pc' = [pc EXCEPT ![r] = "pexpire"] \/ pc' = [pc EXCEPT ![r] = "admitted"]
          \/ /\ totalHits[r] > Limit
             /\ pc' = [pc EXCEPT ![r] = "block"] \/ pc' = [pc EXCEPT ![r] = "refused"]
      BY <1>4, DecideGoes DEF PttlHit
    <2>3. QED
      BY <1>1, <2>1, <2>2
  <1>5. ASSUME NEW r \in Requests, Pexpire(r) PROVE Tallied' /\ RefusedForCause'
    <2>1. pc[r] \in Counting /\ UNCHANGED <<block, totalHits, life, counted>> /\ hits'.n = hits.n
      BY <1>5 DEF Pexpire, Counting
    <2>2. \/ pc' = [pc EXCEPT ![r] = "admitted"]
          \/ /\ totalHits[r] > Limit
             /\ pc' = [pc EXCEPT ![r] = "block"] \/ pc' = [pc EXCEPT ![r] = "refused"]
      BY <1>5, DecideGoes DEF Pexpire
    <2>3. QED
      BY <1>1, <2>1, <2>2
  <1>6. ASSUME NEW r \in Requests, SetBlock(r) PROVE Tallied' /\ RefusedForCause'
    BY <1>1, <1>6 DEF SetBlock
  <1>7. ASSUME NEW r \in Requests, Fail(r) PROVE Tallied' /\ RefusedForCause'
    BY <1>1, <1>7 DEF Fail
  <1>8. ASSUME NEW d \in Steps, Tick(d) PROVE Tallied' /\ RefusedForCause'
    <2>1. UNCHANGED <<pc, totalHits, life, counted>> /\ (hits'.n = hits.n \/ hits'.n = 0)
      BY <1>8 DEF Tick
    <2>2. block' > 0 => block > 0
      BY <1>8 DEF Tick
    <2>3. QED
      BY <1>1, <2>1, <2>2
  <1>9. CASE Terminating \/ UNCHANGED vars
    BY <1>1, <1>9 DEF Terminating, vars
  <1>10. QED
    BY <1>2, <1>3, <1>4, <1>5, <1>6, <1>7, <1>8, <1>9 DEF Next, Serve, TimePasses

\* No 429 without a cause, for any number of requests at once: when one is
\* refused some counter has counted more than Limit requests.
THEOREM RefusedWithCause == Spec => []RefusedForCause
  <1>1. TypeOK /\ Tallied /\ RefusedForCause /\ [Next]_vars
            => (TypeOK /\ Tallied /\ RefusedForCause)'
    BY TypeStep, CauseStep
  <1>2. QED
    BY TypeInit, CauseInit, <1>1, PTL DEF Spec
-----------------------------------------------------------------------------
(* The window.                                                             *)

WindowInv == Expiring /\ Hurried /\ BoundedWindow

LEMMA WindowInit == Init => WindowInv
  BY DEF Init, WindowInv, Expiring, Hurried, BoundedWindow

\* A counter without expiry is not older than somebody has waited.
LEMMA YoungWithoutExpiry ==
  ASSUME TypeOK, WindowInv, hits.n > 0, hits.ttl = None
  PROVE  age <= MaxDelay
  BY Bounds DEF TypeOK, WindowInv, Expiring

LEMMA WindowStep == TypeOK /\ WindowInv /\ [Next]_vars => WindowInv'
  <1> SUFFICES ASSUME TypeOK, WindowInv, [Next]_vars PROVE WindowInv'
    OBVIOUS
  <1> USE Bounds DEF TypeOK, None, Working, Counting, Goto, ghosts
  \* A step that leaves the counter and its age, and sets nobody on the way to
  \* the expiry back or newly on it but when there is none.
  <1>1. ASSUME UNCHANGED <<hits, waited, age>>,
               \A r \in Requests :
                   /\ pc[r] \in Counting /\ hits.ttl = None => pc'[r] \in Counting
                   /\ pc'[r] = "pexpire" => pc[r] = "pexpire" \/ hits.n = 0 \/ hits.ttl <= 0
        PROVE  WindowInv'
    <2>1. SUFFICES ASSUME hits.n > 0 PROVE WindowInv'
      BY <1>1 DEF WindowInv, Expiring, Hurried, BoundedWindow
    <2>2. Expiring'
      BY <1>1, <2>1 DEF WindowInv, Expiring
    <2>3. ASSUME NEW r \in Requests, pc'[r] = "pexpire" PROVE age <= MaxDelay + waited[r]
      <3>1. CASE pc[r] = "pexpire"
        BY <2>1, <3>1 DEF WindowInv, Hurried
      <3>2. CASE hits.ttl = None
        <4>1. age <= MaxDelay
          BY <2>1, <3>2, YoungWithoutExpiry
        <4>2. waited[r] \in Nat /\ age \in Nat
          OBVIOUS
        <4>3. QED
          BY <4>1, <4>2
      <3>3. hits.ttl <= 0 => hits.ttl = None
        OBVIOUS
      <3>4. QED
        BY <1>1, <2>1, <2>3, <3>1, <3>2, <3>3
    <2>4. Hurried' /\ BoundedWindow'
      BY <1>1, <2>1, <2>3 DEF WindowInv, Hurried, BoundedWindow
    <2>5. QED
      BY <2>2, <2>4 DEF WindowInv
  <1>2. ASSUME NEW r \in Requests, CheckBlock(r) PROVE WindowInv'
    BY <1>1, <1>2 DEF CheckBlock
  <1>3. ASSUME NEW r \in Requests, Incr(r) PROVE WindowInv'
    <2>1. /\ pc[r] = "incr" /\ pc' = [pc EXCEPT ![r] = "pttl"] /\ waited' = waited
      BY <1>3 DEF Incr
    <2>2. CASE hits.n = 0
      <3>1. hits'.n = 1 /\ hits'.ttl = None /\ age' = 0
        BY <1>3, <2>2 DEF Incr
      <3>2. QED
        BY <2>1, <3>1 DEF WindowInv, Expiring, Hurried, BoundedWindow
    <2>3. CASE hits.n # 0
      <3>1. hits'.ttl = hits.ttl /\ hits'.n = hits.n + 1 /\ age' = age
        BY <1>3, <2>3 DEF Incr
      <3>2. hits.n > 0
        BY <2>3
      <3>3. Expiring'
        BY <2>1, <3>1, <3>2 DEF WindowInv, Expiring
      <3>4. Hurried' /\ BoundedWindow'
        BY <2>1, <3>1, <3>2 DEF WindowInv, Hurried, BoundedWindow
      <3>5. QED
        BY <3>3, <3>4 DEF WindowInv
    <2>4. QED
      BY <2>2, <2>3
  <1>4. ASSUME NEW r \in Requests, PttlHit(r) PROVE WindowInv'
    <2>1. CASE hits.n = 0 \/ hits.ttl <= 0
      BY <1>1, <1>4, <2>1 DEF PttlHit
    <2>2. CASE ~(hits.n = 0 \/ hits.ttl <= 0)
      <3>1. hits.ttl # None /\ Decide(r) /\ UNCHANGED <<hits, waited, ghosts>>
        BY <1>4, <2>2 DEF PttlHit
      <3>2. \A q \in Requests : pc'[q] = "pexpire" => pc[q] = "pexpire"
        BY <3>1, DecideGoes
      <3>3. QED
        BY <1>1, <3>1, <3>2
    <2>3. QED
      BY <2>1, <2>2
  <1>5. ASSUME NEW r \in Requests, Pexpire(r) PROVE WindowInv'
    <2>1. /\ pc[r] = "pexpire" /\ Decide(r) /\ UNCHANGED <<waited, ghosts>>
          /\ hits' = IF hits.n = 0 THEN hits ELSE [hits EXCEPT !.ttl = Milliseconds(Ttl)]
      BY <1>5 DEF Pexpire
    <2>2. \A q \in Requests : pc'[q] = "pexpire" => pc[q] = "pexpire"
      BY <2>1, DecideGoes
    <2>3. CASE hits.n = 0
      BY <2>1, <2>3 DEF WindowInv, Expiring, Hurried, BoundedWindow
    <2>4. CASE hits.n > 0
      <3>1. hits'.n = hits.n /\ hits'.ttl = Milliseconds(Ttl)
        BY <2>1, <2>4
      <3>2. age <= MaxDelay + waited[r] /\ waited[r] \in 0 .. MaxDelay
        BY <2>1, <2>4 DEF WindowInv, Hurried
      <3>3. age + Milliseconds(Ttl) <= Window
        BY <3>2
      <3>4. Expiring'
        BY <3>1 DEF Expiring
      <3>5. Hurried' /\ BoundedWindow'
        BY <2>1, <2>2, <2>4, <3>1, <3>3 DEF WindowInv, Hurried, BoundedWindow
      <3>6. QED
        BY <3>4, <3>5 DEF WindowInv
    <2>5. QED
      BY <2>3, <2>4
  <1>6. ASSUME NEW r \in Requests, SetBlock(r) PROVE WindowInv'
    BY <1>1, <1>6 DEF SetBlock
  <1>7. ASSUME NEW r \in Requests, Fail(r) PROVE WindowInv'
    <2>1. /\ pc' = [pc EXCEPT ![r] = "failed"] /\ UNCHANGED <<hits, waited>>
          /\ age' = IF pc[r] \in Counting /\ hits.ttl = None THEN 0 ELSE age
      BY <1>7 DEF Fail
    <2>2. CASE pc[r] \in Counting /\ hits.ttl = None
      BY <2>1, <2>2 DEF WindowInv, Expiring, Hurried, BoundedWindow
    <2>3. CASE ~(pc[r] \in Counting /\ hits.ttl = None)
      BY <1>1, <2>1, <2>3
    <2>4. QED
      BY <2>2, <2>3
  <1>8. ASSUME NEW d \in Steps, Tick(d) PROVE WindowInv'
    <2>1. SUFFICES ASSUME hits'.n > 0 PROVE WindowInv'
      BY DEF WindowInv, Expiring, Hurried, BoundedWindow
    <2>2. /\ hits.n > 0 /\ d \in Nat /\ UNCHANGED pc
          /\ \A r \in Requests : pc[r] \in Working =>
                 waited'[r] = waited[r] + d /\ waited[r] + d <= MaxDelay
          /\ hits.ttl = None => hits' = hits
          /\ hits.ttl # None => hits'.ttl = hits.ttl - d /\ hits.ttl > d
      BY <1>8, <2>1 DEF Tick
    <2>3. /\ age' <= age + d /\ age' \in Nat /\ age \in Nat
          /\ Abandoned => age' = age
      BY <1>8, <2>2 DEF Tick
    <2>4. ASSUME hits.ttl = None, age # 0 \/ ~Abandoned
          PROVE  \E r \in Requests : pc[r] \in Counting /\ age <= waited[r]
      BY <2>2, <2>4 DEF WindowInv, Expiring, Abandoned
    <2>5. Expiring'
      BY <2>2, <2>3, <2>4 DEF Expiring
    <2>6. ASSUME NEW r \in Requests, pc'[r] = "pexpire" PROVE age' <= MaxDelay + waited'[r]
      BY <2>2, <2>3, <2>6 DEF WindowInv, Hurried
    <2>7. hits'.ttl # None => hits.ttl # None /\ age' + hits'.ttl <= Window
      BY <2>2, <2>3 DEF WindowInv, Hurried
    <2>8. age' <= Window
      <3>1. CASE hits.ttl = None
        BY <2>2, <2>3, <2>4, <3>1
      <3>2. CASE hits.ttl # None
        BY <2>2, <2>3, <3>2 DEF WindowInv, Hurried
      <3>3. QED
        BY <3>1, <3>2
    <2>9. QED
      BY <2>5, <2>6, <2>7, <2>8 DEF WindowInv, Hurried, BoundedWindow
  <1>9. CASE Terminating \/ UNCHANGED vars
    BY <1>1, <1>9 DEF Terminating, vars
  <1>10. QED
    BY <1>2, <1>3, <1>4, <1>5, <1>6, <1>7, <1>8, <1>9 DEF Next, Serve, TimePasses

\* A counter is gone after the window, however INCR, PTTL and PEXPIRE of how
\* many requests ever interleave; a request that dies between them only starts
\* the window anew.
THEOREM WindowEnds == Spec => []BoundedWindow
  <1>1. TypeOK /\ WindowInv /\ [Next]_vars => (TypeOK /\ WindowInv)'
    BY TypeStep, WindowStep
  <1>2. WindowInv => BoundedWindow
    BY DEF WindowInv
  <1>3. QED
    BY TypeInit, WindowInit, <1>1, <1>2, PTL DEF Spec

LEMMA AwaitedStep == TypeOK /\ Awaited /\ [Next]_vars => Awaited'
  <1> SUFFICES ASSUME TypeOK, Awaited, [Next]_vars PROVE Awaited'
    OBVIOUS
  <1> USE Bounds DEF TypeOK, None, Working, Counting, Goto, ghosts
  \* A step that hits no counter, and lets nobody go without the expiry.
  <1>1. ASSUME UNCHANGED <<totalHits, life, counted>>,
               hits'.n > 0 /\ hits'.ttl = None => hits' = hits,
               hits.n > 0 /\ hits.ttl = None => \A r \in Requests :
                   pc[r] \in Counting \cup {"failed"} => pc'[r] \in Counting \cup {"failed"}
        PROVE  Awaited'
    BY <1>1 DEF Awaited, LastHit
  <1>2. ASSUME NEW r \in Requests, CheckBlock(r) PROVE Awaited'
    BY <1>1, <1>2 DEF CheckBlock
  <1>3. ASSUME NEW r \in Requests, Incr(r) PROVE Awaited'
    <2>1. /\ pc'[r] = "pttl" /\ counted'[r] = life' /\ totalHits'[r] = hits.n + 1
          /\ hits'.n = hits.n + 1
      BY <1>3 DEF Incr
    <2>2. QED
      BY <2>1 DEF Awaited, LastHit
  <1>4. ASSUME NEW r \in Requests, PttlHit(r) PROVE Awaited'
    <2>1. /\ pc[r] = "pttl" /\ UNCHANGED <<hits, totalHits, life, counted>>
          /\ \A q \in Requests : q # r => pc'[q] = pc[q]
          /\ hits.ttl = None => pc'[r] = "pexpire"
      BY <1>4, DecideGoes DEF PttlHit
    <2>2. QED
      BY <1>1, <2>1
  <1>5. ASSUME NEW r \in Requests, Pexpire(r) PROVE Awaited'
    BY <1>5 DEF Pexpire, Awaited
  <1>6. ASSUME NEW r \in Requests, SetBlock(r) \/ Fail(r) PROVE Awaited'
    BY <1>1, <1>6 DEF SetBlock, Fail
  <1>7. ASSUME NEW d \in Steps, Tick(d) PROVE Awaited'
    BY <1>1, <1>7 DEF Tick
  <1>8. CASE Terminating \/ UNCHANGED vars
    BY <1>1, <1>8 DEF Terminating, vars
  <1>9. QED
    BY <1>2, <1>3, <1>4, <1>5, <1>6, <1>7, <1>8 DEF Next, Serve, TimePasses

\* Whatever requests died before it, the last hit of a counter that has no
\* expiry is about to set it, unless it died itself: one call that comes through
\* makes every earlier loss good.
THEOREM ExpiryIsComing == Spec => []Awaited
  <1>1. Init => Awaited
    BY DEF Init, Awaited
  <1>2. QED
    BY TypeInit, TypeStep, <1>1, AwaitedStep, PTL DEF Spec
-----------------------------------------------------------------------------
(* The block.                                                              *)

NoKey == hits.n = 0 => hits.ttl = None

BlockInv == NoKey /\ Earlier /\ BlockOutlivesCounter

LEMMA BlockInit == Init => BlockInv
  BY DEF Init, BlockInv, NoKey, Earlier, BlockOutlivesCounter

LEMMA BlockStep == TypeOK /\ BlockInv /\ [Next]_vars => BlockInv'
  <1> SUFFICES ASSUME TypeOK, BlockInv, [Next]_vars PROVE BlockInv'
    OBVIOUS
  <1> USE Bounds DEF TypeOK, None, Working, Goto, ghosts
  \* A step that lets nobody past the block and leaves the expiry.
  <1>1. ASSUME UNCHANGED <<block, waited>>,
               (hits' = hits) \/ (hits'.n > 0 /\ hits'.ttl \in {hits.ttl, None}),
               block > 0 => \A r \in Requests :
                   pc'[r] \in {"incr", "pttl", "pexpire"} => pc[r] \in {"incr", "pttl", "pexpire"}
        PROVE  BlockInv'
    BY <1>1 DEF BlockInv, NoKey, Earlier, BlockOutlivesCounter
  <1>2. ASSUME NEW r \in Requests, CheckBlock(r) PROVE BlockInv'
    BY <1>1, <1>2 DEF CheckBlock
  <1>3. ASSUME NEW r \in Requests, Incr(r) PROVE BlockInv'
    BY <1>1, <1>3 DEF Incr
  <1>4. ASSUME NEW r \in Requests, PttlHit(r) PROVE BlockInv'
    BY <1>1, <1>4, DecideGoes DEF PttlHit
  <1>5. ASSUME NEW r \in Requests, Pexpire(r) PROVE BlockInv'
    <2>1. /\ pc[r] = "pexpire" /\ Decide(r) /\ UNCHANGED <<block, waited>>
          /\ hits' = IF hits.n = 0 THEN hits ELSE [hits EXCEPT !.ttl = Milliseconds(Ttl)]
      BY <1>5 DEF Pexpire
    <2>2. Earlier'
      BY <2>1, DecideGoes DEF BlockInv, Earlier
    <2>3. BlockOutlivesCounter'
      <3>1. SUFFICES ASSUME BlockDuration >= Ttl, block > 0
                     PROVE  hits'.ttl <= block + MaxDelay
        BY <2>1 DEF BlockOutlivesCounter
      <3>2. Milliseconds(BlockDuration) - block <= waited[r] /\ waited[r] \in 0 .. MaxDelay
        BY <2>1, <3>1 DEF BlockInv, Earlier
      <3>3. CASE hits.n = 0
        BY <2>1, <3>1, <3>3 DEF BlockInv, BlockOutlivesCounter
      <3>4. CASE hits.n # 0
        BY <2>1, <3>1, <3>2, <3>4
      <3>5. QED
        BY <3>3, <3>4
    <2>4. NoKey'
      BY <2>1 DEF BlockInv, NoKey
    <2>5. QED
      BY <2>2, <2>3, <2>4 DEF BlockInv
  <1>6. ASSUME NEW r \in Requests, SetBlock(r) PROVE BlockInv'
    <2>1. block' = Milliseconds(BlockDuration) /\ UNCHANGED <<hits, waited>>
      BY <1>6 DEF SetBlock
    <2>2. Earlier'
      BY <2>1 DEF Earlier
    <2>3. BlockOutlivesCounter'
      BY <2>1 DEF BlockOutlivesCounter
    <2>4. NoKey'
      BY <2>1 DEF BlockInv, NoKey
    <2>5. QED
      BY <2>2, <2>3, <2>4 DEF BlockInv
  <1>7. ASSUME NEW r \in Requests, Fail(r) PROVE BlockInv'
    BY <1>1, <1>7 DEF Fail
  <1>8. ASSUME NEW d \in Steps, Tick(d) PROVE BlockInv'
    <2>1. NoKey'
      BY <1>8 DEF Tick, BlockInv, NoKey
    <2> SUFFICES ASSUME block' > 0 PROVE BlockInv'
      BY <2>1 DEF BlockInv, Earlier, BlockOutlivesCounter
    <2>2. /\ d \in Nat /\ block' = block - d /\ block > 0 /\ pc' = pc
          /\ \A r \in Requests : pc[r] \in Working => waited'[r] = waited[r] + d
          /\ hits'.ttl = None \/ hits'.ttl = hits.ttl - d
      <3>1. d \in Nat /\ pc' = pc /\ block' = IF block > d THEN block - d ELSE 0
        BY <1>8 DEF Tick
      <3>2. block' = block - d /\ block > 0
        BY <3>1
      <3>3. \A r \in Requests : pc[r] \in Working => waited'[r] = waited[r] + d
        BY <1>8 DEF Tick
      <3>4. hits'.ttl = None \/ hits'.ttl = hits.ttl - d
        BY <1>8 DEF Tick, BlockInv, NoKey
      <3>5. QED
        BY <3>1, <3>2, <3>3, <3>4
    <2>3. Earlier'
      BY <2>2 DEF BlockInv, Earlier
    <2>4. BlockOutlivesCounter'
      BY <2>2 DEF BlockInv, BlockOutlivesCounter
    <2>5. QED
      BY <2>1, <2>3, <2>4 DEF BlockInv
  <1>9. CASE Terminating \/ UNCHANGED vars
    BY <1>1, <1>9 DEF Terminating, vars
  <1>10. QED
    BY <1>2, <1>3, <1>4, <1>5, <1>6, <1>7, <1>8, <1>9 DEF Next, Serve, TimePasses

\* With a block of at least the ttl, whoever has sat it out finds no counter
\* that is older than the requests still under way.
THEOREM BlockOutlives == Spec => []BlockOutlivesCounter
  <1>1. TypeOK /\ BlockInv /\ [Next]_vars => (TypeOK /\ BlockInv)'
    BY TypeStep, BlockStep
  <1>2. BlockInv => BlockOutlivesCounter
    BY DEF BlockInv
  <1>3. QED
    BY TypeInit, BlockInit, <1>1, <1>2, PTL DEF Spec
=============================================================================
