------------------------ MODULE TrekListCacheProofs ------------------------
(***************************************************************************)
(* TrekListCache, proved for any number of keys, readers and writers and   *)
(* any TTL and delay.                                                      *)
(*                                                                         *)
(* That the version stays within Versions needs it to count the commits    *)
(* (Counted).  BoundedStaleness needs what a reader has in hand to be no   *)
(* older than it has waited (Fresh), InvalidationReaches needs every older *)
(* entry to be ahead of the SCAN or among what it found (Scanned).         *)
(***************************************************************************)
EXTENDS TrekListCache, TLAPS, FiniteSetTheorems

Committed == {w \in Commits : pc[w] # "idle"}

Counted == version = Cardinality(Committed)

Fresh ==
    /\ \A v \in Versions : v >= version => age[v] = 0
    /\ \A k \in Keys : Present(k) => cached[k].ver <= version
    /\ \A r \in Readers : reader[r].pc = "set" =>
          /\ reader[r].ver <= version
          /\ reader[r].ver < version => age[reader[r].ver] <= reader[r].waited

Scanned ==
    \A w \in Writers :
        /\ wrote[w] <= version
        /\ pc[w] = "scan" => \A k \in Keys :
              Present(k) /\ cached[k].ver < wrote[w] =>
                  cached[k].late \/ k \in unseen[w] \/ k \in found[w]

-----------------------------------------------------------------------------
LEMMA Sizes == /\ Versions = 0 .. Cardinality(Commits)
               /\ Cardinality(Commits) \in Nat
               /\ TTL \in Nat \ {0} /\ MaxDelay \in Nat
               /\ MaxAge \in Nat /\ MaxAge = TTL + MaxDelay + 1
  BY CacheAssumption, FS_CardinalityType DEF Versions, MaxAge

\* A commit adds one to the committed, of which there are no more than Commits.
LEMMA OneMore ==
  ASSUME TypeOK, Counted, NEW w \in Commits, pc[w] = "idle",
         NEW l \in {"scan", "done"}, pc' = [pc EXCEPT ![w] = l]
  PROVE  /\ Cardinality(Committed') = version + 1
         /\ version + 1 \in Versions
  <1>1. IsFiniteSet(Committed) /\ Committed \subseteq Commits /\ w \notin Committed
    BY FS_Subset, CacheAssumption DEF Committed
  <1>2. Committed' = Committed \cup {w}
    BY DEF Committed, TypeOK
  <1>3. Cardinality(Committed') = Cardinality(Committed) + 1
    BY <1>1, <1>2, FS_AddElement
  <1>4. Cardinality(Committed') <= Cardinality(Commits)
    BY <1>1, <1>2, FS_Subset, CacheAssumption
  <1>5. QED
    BY <1>3, <1>4, Sizes DEF Counted, TypeOK

\* Any other step leaves them as they are.
LEMMA NoMore ==
  ASSUME TypeOK, Counted, version' = version,
         \A w \in Commits : pc'[w] = "idle" <=> pc[w] = "idle"
  PROVE  Counted'
  <1>1. Committed' = Committed
    BY DEF Committed
  <1>2. QED
    BY <1>1 DEF Counted

LEMMA OlderTypes == ASSUME NEW e \in Entry PROVE Older(e) \in Entry
  BY Sizes DEF Older, Entry, NoEntry

-----------------------------------------------------------------------------
LEMMA TypeInit == Init => TypeOK /\ Counted
  <1> SUFFICES ASSUME Init PROVE TypeOK /\ Counted
    OBVIOUS
  <1>1. TypeOK
    BY Sizes DEF Init, TypeOK, Entry, NoEntry, Reader, Resting
  <1>2. Committed = {}
    BY DEF Init, Committed
  <1>3. QED
    BY <1>1, <1>2, FS_EmptySet DEF Counted, Init

LEMMA TypeStep == TypeOK /\ Counted /\ [Next]_vars => TypeOK' /\ Counted'
  <1> SUFFICES ASSUME TypeOK, Counted, [Next]_vars PROVE TypeOK' /\ Counted'
    OBVIOUS
  <1> USE Sizes DEF TypeOK
  <1>1. ASSUME NEW r \in Readers, NEW k \in Keys, Get(r, k) PROVE TypeOK' /\ Counted'
    <2>1. [reader[r] EXCEPT !.pc = "find", !.key = k] \in Reader
      <3>1. reader[r] \in Reader
        OBVIOUS
      <3>2. QED
        BY <3>1 DEF Reader
    <2>2. reader' \in [Readers -> Reader]
      BY <1>1, <2>1 DEF Get
    <2>3. TypeOK'
      BY <1>1, <2>2 DEF Get
    <2>4. Counted'
      BY <1>1, NoMore DEF Get
    <2>5. QED
      BY <2>3, <2>4
  <1>2. ASSUME NEW r \in Readers, Find(r) PROVE TypeOK' /\ Counted'
    <2>1. [reader[r] EXCEPT !.pc = "set", !.ver = version, !.waited = 0] \in Reader
      <3>1. reader[r] \in Reader /\ 0 \in 0 .. MaxDelay
        OBVIOUS
      <3>2. QED
        BY <3>1 DEF Reader
    <2>2. reader' \in [Readers -> Reader]
      BY <1>2, <2>1 DEF Find
    <2>3. TypeOK'
      BY <1>2, <2>2 DEF Find
    <2>4. Counted'
      BY <1>2, NoMore DEF Find
    <2>5. QED
      BY <2>3, <2>4
  <1>3. ASSUME NEW r \in Readers, Set(r) PROVE TypeOK' /\ Counted'
    <2>1. TypeOK'
      BY SMTT(30), <1>3 DEF Set, Reader, Entry, Resting
    <2>2. Counted'
      BY <1>3, NoMore DEF Set
    <2>3. QED
      BY <2>1, <2>2
  <1>4. ASSUME NEW r \in Readers, ReadFails(r) PROVE TypeOK' /\ Counted'
    BY SMTT(30), <1>4, NoMore DEF ReadFails, Reader, Resting
  <1>5. ASSUME NEW w \in Writers, Commit(w) PROVE TypeOK' /\ Counted'
    <2>1. w \in Commits
      BY DEF Commits
    <2>2. QED
      BY <1>5, <2>1, OneMore DEF Commit, NextVersion, Counted
  <1>6. ASSUME NEW w \in Writers, Scan(w) PROVE TypeOK' /\ Counted'
    <2>1. PICK k \in unseen[w] :
              /\ unseen' = [unseen EXCEPT ![w] = @ \ {k}]
              /\ found' = [found EXCEPT ![w] = IF Present(k) THEN @ \cup {k} ELSE @]
      BY <1>6 DEF Scan
    <2>2. w \in Commits /\ k \in Keys
      BY DEF Commits
    <2>3. unseen' \in [Commits -> SUBSET Keys]
      BY <2>1, <2>2
    <2>4. found' \in [Commits -> SUBSET Keys]
      BY <2>1, <2>2
    <2>5. QED
      BY <1>6, <2>3, <2>4, NoMore DEF Scan
  <1>7. ASSUME NEW w \in Writers, Delete(w) PROVE TypeOK' /\ Counted'
    <2>1. NoEntry \in Entry /\ w \in Commits
      BY DEF NoEntry, Entry, Commits
    <2>2. cached' \in [Keys -> Entry]
      BY <1>7, <2>1 DEF Delete
    <2>3. found' \in [Commits -> SUBSET Keys]
      BY <1>7, <2>1 DEF Delete
    <2>4. pc' \in [Commits -> {"idle", "scan", "done", "failed"}]
      BY <1>7, <2>1 DEF Delete
    <2>5. QED
      BY <1>7, <2>1, <2>2, <2>3, <2>4, NoMore DEF Delete
  <1>8. ASSUME NEW w \in Writers, InvalidationFails(w) PROVE TypeOK' /\ Counted'
    BY <1>8, NoMore DEF InvalidationFails, Commits
  <1>9. ASSUME NEW w \in Reviews, ApplyReviewAggregate(w) PROVE TypeOK' /\ Counted'
    <2>1. w \in Commits
      BY DEF Commits
    <2>2. QED
      BY <1>9, <2>1, OneMore DEF ApplyReviewAggregate, NextVersion, Counted
  <1>10. CASE Tick
    <2>1. cached' \in [Keys -> Entry]
      BY <1>10, OlderTypes DEF Tick
    <2>2. reader' \in [Readers -> Reader]
      <3>1. ASSUME NEW r \in Readers, reader[r].pc = "set"
            PROVE  [reader[r] EXCEPT !.waited = @ + 1] \in Reader
        <4>1. reader[r] \in Reader /\ reader[r].waited < MaxDelay
          BY <1>10, <3>1 DEF Tick
        <4>2. reader[r].waited + 1 \in 0 .. MaxDelay
          BY <4>1 DEF Reader
        <4>3. QED
          BY <4>1, <4>2 DEF Reader
      <3>2. QED
        BY <1>10, <3>1 DEF Tick
    <2>3. age' \in [Versions -> 0 .. MaxAge]
      BY <1>10 DEF Tick
    <2>4. QED
      BY <1>10, <2>1, <2>2, <2>3, NoMore DEF Tick
  <1>11. CASE UNCHANGED vars
    BY <1>11, NoMore DEF vars
  <1>12. QED
    BY <1>1, <1>2, <1>3, <1>4, <1>5, <1>6, <1>7, <1>8, <1>9, <1>10, <1>11
       DEF Next, Read, Write

\* The versions stay within those there can be, the ages and delays within
\* their bounds: the cache's state is what it is declared to be.
THEOREM Typing == Spec => []TypeOK
  <1>1. TypeOK /\ Counted /\ [Next]_vars => (TypeOK /\ Counted)'
    BY TypeStep
  <1>2. QED
    BY TypeInit, <1>1, PTL DEF Spec

LEMMA AlwaysCounted == Spec => [](TypeOK /\ Counted)
  <1>1. TypeOK /\ Counted /\ [Next]_vars => (TypeOK /\ Counted)'
    BY TypeStep
  <1>2. QED
    BY TypeInit, <1>1, PTL DEF Spec

-----------------------------------------------------------------------------
(* How old a list can be.                                                  *)

StalenessInv == Fresh /\ BoundedStaleness

\* One tick more of age, one less to live.
LEMMA TickSum ==
  ASSUME NEW a \in Nat, NEW b \in Nat, NEW t \in Nat, NEW m \in Nat,
         b <= a + 1, a + t <= m
  PROVE  b + (t - 1) <= m
  OBVIOUS

LEMMA StalenessInit == Init => StalenessInv
  BY Sizes DEF Init, StalenessInv, Fresh, BoundedStaleness, Present, NoEntry, Resting, Reader

LEMMA StalenessStep ==
  TypeOK /\ Counted /\ StalenessInv /\ [Next]_vars => StalenessInv'
  <1> SUFFICES ASSUME TypeOK, Counted, StalenessInv, [Next]_vars PROVE StalenessInv'
    OBVIOUS
  <1> USE Sizes DEF TypeOK, StalenessInv, Present
  <1>1. ASSUME NEW r \in Readers, NEW k \in Keys, Get(r, k) PROVE StalenessInv'
    BY <1>1 DEF Get, Reader, Fresh, BoundedStaleness
  <1>2. ASSUME NEW r \in Readers, Find(r) PROVE StalenessInv'
    BY SMTT(30), <1>2 DEF Find, Reader, Fresh, BoundedStaleness
  <1>3. ASSUME NEW r \in Readers, Set(r) PROVE StalenessInv'
    <2>1. reader[r] \in Reader /\ reader[r].ver <= version
          /\ (reader[r].ver < version => age[reader[r].ver] <= MaxDelay)
      BY <1>3 DEF Set, Fresh, Reader
    <2>2. Fresh'
      BY <1>3, <2>1 DEF Set, Reader, Entry, Resting, Fresh
    <2>3. BoundedStaleness'
      BY SMTT(30), <1>3, <2>1 DEF Set, Reader, Entry, BoundedStaleness
    <2>4. QED
      BY <2>2, <2>3
  <1>4. ASSUME NEW r \in Readers, ReadFails(r) PROVE StalenessInv'
    BY <1>4 DEF ReadFails, Resting, Reader, Fresh, BoundedStaleness
  <1>5. ASSUME NEW w \in Commits, NextVersion(w), UNCHANGED <<cached, reader, age>>
        PROVE  StalenessInv'
    <2>1. age[version] = 0 /\ version' = version + 1
      BY <1>5 DEF NextVersion, Fresh
    <2>2. Fresh'
      BY SMTT(30), <1>5, <2>1 DEF Fresh, Reader, Entry
    <2>3. BoundedStaleness'
      <3>1. SUFFICES ASSUME NEW k \in Keys, Present(k), cached[k].ver < version + 1
                     PROVE  age[cached[k].ver] + cached[k].ttl <= TTL + MaxDelay
        BY <1>5, <2>1 DEF BoundedStaleness
      <3>2. cached[k].ver \in Nat /\ cached[k].ttl \in 0 .. TTL
            /\ cached[k].ver <= version /\ version \in Nat
        BY <3>1 DEF Fresh, Entry
      <3>3. CASE cached[k].ver = version
        BY <3>2, <3>3, <2>1
      <3>4. CASE cached[k].ver < version
        BY <3>1, <3>4 DEF BoundedStaleness
      <3>5. QED
        BY <3>2, <3>3, <3>4
    <2>4. QED
      BY <2>2, <2>3
  <1>6. ASSUME NEW w \in Writers, Scan(w) \/ Delete(w) \/ InvalidationFails(w)
        PROVE  StalenessInv'
    <2>1. /\ UNCHANGED <<version, reader, age>>
          /\ \A k \in Keys : Present(k)' => Present(k) /\ cached'[k] = cached[k]
      BY <1>6 DEF Scan, Delete, InvalidationFails, NoEntry
    <2>2. Fresh'
      BY <2>1 DEF Fresh
    <2>3. BoundedStaleness'
      BY <2>1 DEF BoundedStaleness
    <2>4. QED
      BY <2>2, <2>3
  <1>7. CASE Tick
    <2>1. ASSUME NEW v \in Versions
          PROVE  /\ age'[v] <= age[v] + 1 /\ age[v] \in Nat /\ age'[v] \in Nat
                 /\ v >= version => age'[v] = age[v]
      BY <1>7 DEF Tick
    <2>2. ASSUME NEW k \in Keys, Present(k)'
          PROVE  /\ Present(k) /\ cached'[k].ver = cached[k].ver
                 /\ cached'[k].ttl = cached[k].ttl - 1
      BY <1>7, <2>2 DEF Tick, Older, Entry, NoEntry
    <2>3. \A v \in Versions : v >= version' => age'[v] = 0
      BY <1>7, <2>1 DEF Tick, Fresh
    <2>4. \A k \in Keys : Present(k)' => cached'[k].ver <= version'
      BY <1>7, <2>2 DEF Tick, Fresh
    <2>5. ASSUME NEW r \in Readers, reader'[r].pc = "set"
          PROVE  /\ reader'[r].ver <= version'
                 /\ reader'[r].ver < version' => age'[reader'[r].ver] <= reader'[r].waited
      <3>1. /\ reader[r].pc = "set" /\ reader[r] \in Reader
            /\ reader'[r] = [reader[r] EXCEPT !.waited = @ + 1] /\ version' = version
        BY <1>7, <2>5 DEF Tick
      <3>2. reader'[r].ver = reader[r].ver /\ reader'[r].waited = reader[r].waited + 1
        BY <3>1 DEF Reader
      <3>3. reader[r].ver \in Versions /\ reader[r].waited \in Nat
        BY <3>1 DEF Reader
      <3>4. reader[r].ver <= version
            /\ (reader[r].ver < version => age[reader[r].ver] <= reader[r].waited)
        BY <3>1 DEF Fresh
      <3>5. age'[reader[r].ver] <= age[reader[r].ver] + 1
            /\ age[reader[r].ver] \in Nat /\ age'[reader[r].ver] \in Nat
        BY <3>3, <2>1
      <3>6. QED
        BY SMTT(30), <3>1, <3>2, <3>3, <3>4, <3>5
    <2>6. BoundedStaleness'
      <3>1. SUFFICES ASSUME NEW k \in Keys, Present(k)', cached'[k].ver < version'
                     PROVE  age'[cached'[k].ver] + cached'[k].ttl <= TTL + MaxDelay
        BY DEF BoundedStaleness
      <3>2. cached[k].ver \in Versions /\ cached[k].ttl \in Nat /\ version' = version
        BY <1>7 DEF Tick, Entry
      <3>3. Present(k) /\ cached'[k].ver = cached[k].ver /\ cached'[k].ttl = cached[k].ttl - 1
        BY <3>1, <2>2
      <3>4. age[cached[k].ver] + cached[k].ttl <= TTL + MaxDelay
        BY <3>1, <3>2, <3>3 DEF BoundedStaleness
      <3>5. age'[cached[k].ver] <= age[cached[k].ver] + 1
            /\ age[cached[k].ver] \in Nat /\ age'[cached[k].ver] \in Nat
        BY <3>2, <2>1
      <3>6. age'[cached[k].ver] + (cached[k].ttl - 1) <= TTL + MaxDelay
        <4> HIDE DEF TypeOK, StalenessInv, Present
        <4>1. TTL + MaxDelay \in Nat
          OBVIOUS
        <4>2. QED
          BY <4>1, <3>2, <3>4, <3>5, TickSum
      <3>7. QED
        BY <3>3, <3>6
    <2>7. QED
      BY <2>3, <2>4, <2>5, <2>6 DEF Fresh
  <1>8. CASE UNCHANGED vars
    BY <1>8 DEF vars, Fresh, BoundedStaleness
  <1>9. QED
    BY <1>1, <1>2, <1>3, <1>4, <1>5, <1>6, <1>7, <1>8
       DEF Next, Read, Write, Commit, ApplyReviewAggregate, Commits

\* However many readers and writers there are and whatever of theirs fails, a
\* list is out of the cache TTL + MaxDelay after it was superseded.
THEOREM StalenessBounded == Spec => []BoundedStaleness
  <1>1. StalenessInv => BoundedStaleness
    BY DEF StalenessInv
  <1>2. QED
    BY StalenessInit, StalenessStep, AlwaysCounted, <1>1, PTL DEF Spec

-----------------------------------------------------------------------------
(* What an invalidation leaves.                                            *)

ReachInv == Scanned /\ InvalidationReaches

LEMMA ReachInit == Init => ReachInv
  BY Sizes DEF Init, ReachInv, Scanned, InvalidationReaches, Commits

LEMMA ReachStep ==
  TypeOK /\ ReachInv /\ [Next]_vars => ReachInv'
  <1> SUFFICES ASSUME TypeOK, ReachInv, [Next]_vars PROVE ReachInv'
    OBVIOUS
  <1> USE Sizes DEF TypeOK, ReachInv, Present
  \* A step that keeps the writers adds no entry that is older and not late.
  <1>1. ASSUME UNCHANGED <<version, pc, wrote, unseen, found>>,
               \A k \in Keys : Present(k)' =>
                   \/ Present(k) /\ cached'[k].ver = cached[k].ver
                                 /\ cached'[k].late = cached[k].late
                   \/ cached'[k].ver \in Versions /\ (cached'[k].ver < version => cached'[k].late)
        PROVE  ReachInv'
    <2>1. ASSUME NEW w \in Writers, NEW k \in Keys, Present(k)', cached'[k].ver < wrote[w]
          PROVE  \/ cached'[k].late
                 \/ Present(k) /\ cached[k].ver < wrote[w] /\ (cached[k].late => cached'[k].late)
      <3>1. wrote[w] \in Nat /\ wrote[w] <= version /\ version \in Nat
        BY DEF Scanned, Commits
      <3>2. CASE Present(k) /\ cached'[k].ver = cached[k].ver /\ cached'[k].late = cached[k].late
        BY <2>1, <3>2
      <3>3. CASE cached'[k].ver \in Versions /\ (cached'[k].ver < version => cached'[k].late)
        <4>1. cached'[k].ver < version
          BY <2>1, <3>1, <3>3
        <4>2. QED
          BY <4>1, <3>3
      <3>4. QED
        BY <1>1, <2>1, <3>2, <3>3
    <2>2. Scanned'
      <3>1. SUFFICES ASSUME NEW w \in Writers
                     PROVE  /\ wrote[w] <= version
                            /\ pc[w] = "scan" => \A k \in Keys :
                                  Present(k)' /\ cached'[k].ver < wrote[w] =>
                                      cached'[k].late \/ k \in unseen[w] \/ k \in found[w]
        BY <1>1 DEF Scanned
      <3>2. QED
        BY <2>1 DEF Scanned
    <2>3. InvalidationReaches'
      <3>1. SUFFICES ASSUME NEW w \in Writers, pc[w] = "done", NEW k \in Keys,
                            Present(k)', cached'[k].ver < wrote[w]
                     PROVE  cached'[k].late
        BY <1>1 DEF InvalidationReaches
      <3>2. QED
        BY <2>1, <3>1 DEF InvalidationReaches
    <2>4. QED
      BY <2>2, <2>3
  <1>2. ASSUME NEW r \in Readers, Read(r) \/ ReadFails(r) PROVE ReachInv'
    <2>1. CASE (\E k \in Keys : Get(r, k)) \/ Find(r) \/ ReadFails(r)
      BY <2>1, <1>1 DEF Get, Find, ReadFails
    <2>2. CASE Set(r)
      BY <2>2, <1>1 DEF Set, Reader, Entry
    <2>3. QED
      BY <1>2, <2>1, <2>2 DEF Read
  <1>3. ASSUME NEW w \in Writers, Commit(w) PROVE ReachInv'
    <2>1. version' = version + 1 /\ wrote' = [wrote EXCEPT ![w] = version + 1]
          /\ pc' = [pc EXCEPT ![w] = "scan"] /\ unseen' = [unseen EXCEPT ![w] = Keys]
          /\ UNCHANGED <<cached, found>> /\ w \in Commits
      BY <1>3 DEF Commit, NextVersion, Commits
    <2>2. Scanned'
      BY <2>1 DEF Scanned, Commits
    <2>3. InvalidationReaches'
      BY <2>1 DEF InvalidationReaches, Commits
    <2>4. QED
      BY <2>2, <2>3
  <1>4. ASSUME NEW w \in Writers, Scan(w) PROVE ReachInv'
    <2>1. Scanned'
      BY <1>4 DEF Scan, Scanned, Commits
    <2>2. InvalidationReaches'
      BY <1>4 DEF Scan, InvalidationReaches, Commits
    <2>3. QED
      BY <2>1, <2>2
  <1>5. ASSUME NEW w \in Writers, Delete(w) PROVE ReachInv'
    <2>1. \A k \in Keys : Present(k)' =>
              k \notin found[w] /\ cached'[k] = cached[k] /\ Present(k)
      BY <1>5 DEF Delete, NoEntry
    <2>2. Scanned'
      BY <1>5, <2>1 DEF Delete, Scanned, Commits
    <2>3. InvalidationReaches'
      BY <1>5, <2>1 DEF Delete, InvalidationReaches, Scanned, Commits
    <2>4. QED
      BY <2>2, <2>3
  <1>6. ASSUME NEW w \in Writers, InvalidationFails(w) PROVE ReachInv'
    <2>1. Scanned'
      BY <1>6 DEF InvalidationFails, Scanned, Commits
    <2>2. InvalidationReaches'
      BY <1>6 DEF InvalidationFails, InvalidationReaches, Commits
    <2>3. QED
      BY <2>1, <2>2
  <1>7. ASSUME NEW w \in Reviews, ApplyReviewAggregate(w) PROVE ReachInv'
    <2>1. version' = version + 1 /\ wrote' = [wrote EXCEPT ![w] = version + 1]
          /\ pc' = [pc EXCEPT ![w] = "done"]
          /\ UNCHANGED <<cached, unseen, found>> /\ w \in Commits /\ w \notin Writers
      BY <1>7, CacheAssumption DEF ApplyReviewAggregate, NextVersion, Commits
    <2>2. Scanned'
      BY <2>1 DEF Scanned, Commits
    <2>3. InvalidationReaches'
      BY <2>1 DEF InvalidationReaches, Commits
    <2>4. QED
      BY <2>2, <2>3
  <1>8. CASE Tick
    <2>1. ASSUME NEW k \in Keys, Present(k)'
          PROVE  /\ Present(k) /\ cached'[k].ver = cached[k].ver
                 /\ cached'[k].late = cached[k].late
      <3>1. cached[k] \in Entry /\ cached'[k] = Older(cached[k]) /\ cached'[k].ttl > 0
        BY <1>8, <2>1 DEF Tick
      <3>2. cached[k].ttl > 1 /\ cached'[k] = [cached[k] EXCEPT !.ttl = @ - 1]
        BY <3>1 DEF Older, NoEntry, Entry
      <3>3. QED
        BY <3>1, <3>2 DEF Entry
    <2>2. QED
      BY <1>8, <2>1, <1>1 DEF Tick
  <1>9. CASE UNCHANGED vars
    BY <1>9, <1>1 DEF vars
  <1>10. QED
    BY <1>2, <1>3, <1>4, <1>5, <1>6, <1>7, <1>8, <1>9 DEF Next, Write

\* SCAN and DEL are two commands and other writers delete too: all the same an
\* invalidation that ended has removed every entry older than its write, but
\* for those a reader stored late.
THEOREM InvalidationsReach == Spec => []InvalidationReaches
  <1>1. ReachInv => InvalidationReaches
    BY DEF ReachInv
  <1>2. QED
    BY ReachInit, ReachStep, Typing, <1>1, PTL DEF Spec

-----------------------------------------------------------------------------
(* The safety half of SettlesOnLastVersion.                                *)

\* An older version was superseded no later than a newer one.
Ordered == \A v, w \in Versions : v < w /\ w < version => age[w] <= age[v]

\* TTL + MaxDelay ticks after the last write every entry shows it, whether or
\* not that write's invalidation ever happened.
Settled ==
    \A v \in Versions : v + 1 = version /\ age[v] >= TTL + MaxDelay =>
        \A k \in Keys : Present(k) => cached[k].ver = version

LEMMA OrderedStep ==
  TypeOK /\ Counted /\ Fresh /\ Ordered /\ [Next]_vars => Ordered'
  <1> SUFFICES ASSUME TypeOK, Counted, Fresh, Ordered, [Next]_vars PROVE Ordered'
    OBVIOUS
  <1>1. version \in Nat /\ \A v \in Versions : v \in Nat /\ age[v] \in 0 .. MaxAge
    <2>1. Versions \subseteq Nat
      BY Sizes
    <2>2. QED
      BY <2>1 DEF TypeOK
  <1>2. CASE UNCHANGED <<version, age>>
    BY <1>2 DEF Ordered
  <1>3. CASE version' = version + 1 /\ UNCHANGED age
    <2>1. SUFFICES ASSUME NEW v \in Versions, NEW w \in Versions, v < w, w < version + 1
                   PROVE  age[w] <= age[v]
      BY <1>3 DEF Ordered
    <2>2. CASE w = version
      BY <1>1, <2>1, <2>2 DEF Fresh
    <2>3. CASE w < version
      BY <2>1, <2>3 DEF Ordered
    <2>4. QED
      BY <1>1, <2>1, <2>2, <2>3
  <1>4. CASE Tick
    <2>1. SUFFICES ASSUME NEW v \in Versions, NEW w \in Versions, v < w, w < version
                   PROVE  age'[w] <= age'[v]
      BY <1>4 DEF Ordered, Tick
    <2>2. v < version /\ age[w] <= age[v]
      BY <1>1, <2>1 DEF Ordered
    <2>3. /\ age'[v] = IF age[v] < MaxAge THEN age[v] + 1 ELSE age[v]
          /\ age'[w] = IF age[w] < MaxAge THEN age[w] + 1 ELSE age[w]
      BY <1>4, <2>1, <2>2 DEF Tick
    <2>4. QED
      BY <1>1, <2>2, <2>3, Sizes
  <1>5. QED
    BY <1>2, <1>3, <1>4
       DEF Next, Read, Write, vars, Get, Find, Set, ReadFails, Commit, Scan, Delete,
           InvalidationFails, ApplyReviewAggregate, NextVersion

\* The feed settles by the expiry of its entries alone: no write, no review and
\* no invalidation that failed is missing from it for longer.
THEOREM SettlesInTime == Spec => []Settled
  <1>1. Init => Ordered
    BY Sizes DEF Init, Ordered
  <1>2. TypeOK /\ Counted /\ Fresh /\ BoundedStaleness /\ Ordered => Settled
    <2> SUFFICES ASSUME TypeOK, Fresh, BoundedStaleness, Ordered, NEW v \in Versions,
                        v + 1 = version, age[v] >= TTL + MaxDelay,
                        NEW k \in Keys, Present(k), cached[k].ver # version
                 PROVE  FALSE
      BY DEF Settled
    <2> DEFINE u == cached[k].ver
    <2>1. u \in Versions /\ u \in Nat /\ cached[k].ttl \in Nat /\ cached[k].ttl > 0
      BY Sizes DEF TypeOK, Entry, Present
    <2>2. version \in Nat /\ v \in Nat /\ age[v] \in Nat /\ age[u] \in Nat
      <3>1. Versions \subseteq Nat /\ 0 .. MaxAge \subseteq Nat
        BY Sizes
      <3>2. QED
        BY <2>1, <3>1 DEF TypeOK
    <2>3. u < version
      BY <2>1, <2>2 DEF Fresh
    <2>4. age[u] + cached[k].ttl <= TTL + MaxDelay
      BY <2>3 DEF BoundedStaleness
    <2>5. age[v] <= age[u]
      BY <2>1, <2>2, <2>3 DEF Ordered
    <2>6. QED
      BY SMTT(30), <2>1, <2>2, <2>4, <2>5, Sizes
  <1>3. StalenessInv => Fresh /\ BoundedStaleness
    BY DEF StalenessInv
  <1>4. Spec => [](TypeOK /\ Counted /\ Fresh /\ BoundedStaleness)
    BY StalenessInit, StalenessStep, AlwaysCounted, <1>3, PTL DEF Spec
  <1>5. QED
    BY <1>1, <1>2, <1>4, OrderedStep, PTL DEF Spec

\* What a key shows goes back to an older list only when a reader stores one
\* that was superseded while it held it.
BackOnlyWhenLate ==
    \A k \in Keys : /\ Present(k) /\ Present(k)'
                    /\ cached'[k].ver < cached[k].ver
                    => cached'[k].late

\* Time going by, writes and invalidations never make a served list older.
THEOREM OnlyLateGoesBack == Spec => [][BackOnlyWhenLate]_vars
  <1>1. TypeOK /\ StalenessInv /\ [Next]_vars => [BackOnlyWhenLate]_vars
    <2> SUFFICES ASSUME TypeOK, Fresh, [Next]_vars, NEW k \in Keys,
                        Present(k), Present(k)', cached'[k].ver < cached[k].ver
                 PROVE  cached'[k].late
      BY DEF BackOnlyWhenLate, StalenessInv
    <2>1. /\ cached[k] \in Entry /\ cached[k].ver \in Nat /\ cached[k].ver <= version
          /\ version \in Nat
      BY Sizes DEF TypeOK, Entry, Fresh
    <2>2. CASE cached'[k] = cached[k]
      BY <2>1, <2>2
    <2>3. ASSUME NEW r \in Readers, Set(r), cached'[k] # cached[k] PROVE cached'[k].late
      <3>1. /\ cached'[k].ver = reader[r].ver
            /\ reader[r].ver < version => cached'[k].late
        BY <2>3 DEF Set, TypeOK
      <3>2. reader[r].ver \in Nat
        BY Sizes DEF TypeOK, Reader
      <3>3. QED
        BY <2>1, <3>1, <3>2
    <2>4. ASSUME NEW w \in Writers, Delete(w) PROVE cached'[k] = cached[k]
      BY <2>4 DEF Delete, NoEntry, Present
    <2>5. CASE Tick
      <3>1. cached'[k] = Older(cached[k])
        BY <2>5 DEF Tick
      <3>2. cached'[k].ver = cached[k].ver
        BY <2>1, <3>1 DEF Older, NoEntry, Entry, Present
      <3>3. QED
        BY <2>1, <3>2
    <2>6. QED
      BY <2>2, <2>3, <2>4, <2>5
         DEF Next, Read, Write, vars, Get, Find, ReadFails, Commit, Scan,
             InvalidationFails, ApplyReviewAggregate
  <1>2. QED
    BY <1>1, StalenessInit, StalenessStep, AlwaysCounted, PTL DEF Spec
=============================================================================
