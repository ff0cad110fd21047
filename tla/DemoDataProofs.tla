--------------------------- MODULE DemoDataProofs ---------------------------
(***************************************************************************)
(* DemoData and with it SocialCounters, proved for any number of accounts, *)
(* posts, calls and runs of the script.                                    *)
(*                                                                         *)
(* A counter is off by the $inc's under way or lost: a call keeps that     *)
(* balance (CallAccounts), and the script writes neither the counters nor  *)
(* the edges of a real account (Apart).                                    *)
(*                                                                         *)
(* A run that creates accounts holds a place, its first account, which the *)
(* unique email gives to one run at a time (Placed); a wipe that nobody    *)
(* overlapped gives it back when it has cleared the rest (Wiping).         *)
(*                                                                         *)
(* Until a run is done its own statements alone touch what it creates      *)
(* (Untouched), so that the edges and counters of its documents are those  *)
(* it has written so far (ByScript).                                       *)
(***************************************************************************)
EXTENDS DemoData, FiniteSetTheorems, TLAPS

\* What a call holds at each of its steps.
Holding(r) ==
    /\ pc[r] \in {"idle", "create"} => lost[r] = {}
    /\ owed[r] \cap lost[r] = {}
    /\ pc[r] # "idle" => /\ named[r] \in Edges
                         /\ {named[r].from, named[r].to} \subseteq born
                         /\ owed[r] \cup lost[r] \subseteq CountedIn(named[r])

\* The real documents stay, and the script's edges are those of its accounts.
Apart ==
    /\ Real \subseteq people /\ RealPosts \subseteq posts
    /\ IsFiniteSet(edges)
    /\ \A e \in flagged : \E s \in Runs : e \in SeededFollows(s) \cup SeededLikes(s)

-----------------------------------------------------------------------------
(* Ids and edges.                                                          *)

LEMMA Ids ==
  /\ \A s \in Runs : DemoOf(s) \subseteq DemoIds
  /\ DemoIds \subseteq Persons /\ DemoPostIds \subseteq Posts
  /\ Real \subseteq Persons /\ RealPosts \subseteq Posts
  /\ \A s \in Runs : \A d \in DemoOf(s) : <<"post", d>> \in DemoPostIds
  BY DemoAssumption DEF DemoIds, DemoPostIds

LEMMA NotReal ==
  \A s \in Runs : Mine(s) \cap (Real \cup RealPosts) = {}
  BY Ids, DemoAssumption, EdgesAssumption DEF Mine

LEMMA Counted ==
  \A e \in Edges : CountedIn(e) \subseteq Counters
  BY EdgesAssumption DEF CountedIn, Counters, Follow, Like

LEMMA FollowsOf ==
  \A s \in Runs : \A e \in SeededFollows(s) :
      /\ e.kind = "follow" /\ e.from \in DemoOf(s) /\ e.to \in DemoOf(s)
      /\ CountedIn(e) \subseteq {"following", "followers"} \X DemoOf(s)
  BY DEF SeededFollows, Follow, CountedIn

LEMMA LikesOf ==
  \A s \in Runs : \A e \in SeededLikes(s) :
      /\ e.kind = "like" /\ e.from \in DemoOf(s)
      /\ CountedIn(e) \subseteq {"likes"} \X {<<"post", d>> : d \in DemoOf(s)}
  BY DEF SeededLikes, Like, CountedIn

\* The script's edges are counted in the counters of its own documents only.
LEMMA SeededApart ==
  ASSUME NEW s \in Runs, NEW e \in SeededFollows(s) \cup SeededLikes(s), NEW c \in CountedIn(e)
  PROVE  c[2] \in Mine(s)
  BY FollowsOf, LikesOf DEF Mine

LEMMA FiniteSeeds ==
  ASSUME NEW s \in Runs
  PROVE  /\ IsFiniteSet(SeededFollows(s)) /\ IsFiniteSet(SeededLikes(s))
         /\ \A c : Cardinality({e \in SeededFollows(s) : c \in CountedIn(e)}) \in Nat
         /\ \A c : Cardinality({e \in SeededLikes(s) : c \in CountedIn(e)}) \in Nat
  <1> DEFINE D == DemoOf(s) \X DemoOf(s)
             F == [p \in D |-> Follow(p[1], p[2])]
             L == [p \in D |-> Like(p[1], <<"post", p[2]>>)]
             TF == {F[p] : p \in D}
             TL == {L[p] : p \in D}
  <1>1. IsFiniteSet(D)
    <2>1. IsFiniteSet(Persons) /\ DemoOf(s) \in SUBSET Persons
      BY Ids, EdgesAssumption
    <2>2. IsFiniteSet(DemoOf(s))
      BY <2>1, FS_Subset
    <2>3. QED
      BY <2>2, FS_Product
  <1>2. F \in Surjection(D, TF) /\ L \in Surjection(D, TL)
    BY DEF Surjection
  <1>3. IsFiniteSet(TF) /\ IsFiniteSet(TL)
    BY <1>1, <1>2, FS_Surjection
  <1>4. SeededFollows(s) \subseteq TF
    <2> SUFFICES ASSUME NEW u \in DemoOf(s), NEW v \in DemoOf(s) PROVE Follow(u, v) \in TF
      BY DEF SeededFollows
    <2>1. <<u, v>> \in D /\ F[<<u, v>>] = Follow(u, v)
      OBVIOUS
    <2>2. QED
      BY <2>1
  <1>5. SeededLikes(s) \subseteq TL
    <2> SUFFICES ASSUME NEW e \in SeededLikes(s) PROVE e \in TL
      OBVIOUS
    <2>1. PICK u \in DemoOf(s), v \in DemoOf(s) : e = Like(u, <<"post", v>>)
      BY DEF SeededLikes
    <2>2. <<u, v>> \in D /\ L[<<u, v>>] = e
      BY <2>1
    <2>3. QED
      BY <2>2
  <1>6. IsFiniteSet(SeededFollows(s)) /\ IsFiniteSet(SeededLikes(s))
    BY <1>3, <1>4, <1>5, FS_Subset
  <1>7. QED
    BY <1>6, FS_Subset, FS_CardinalityType

-----------------------------------------------------------------------------
(* A call keeps the balance of every counter that is there.                *)

LEMMA FiniteTallies ==
  ASSUME IsFiniteSet(edges)
  PROVE  \A c : /\ IsFiniteSet(Tally(c)) /\ Cardinality(Tally(c)) \in Nat
                /\ IsFiniteSet(Uncounted(Adds, c)) /\ Cardinality(Uncounted(Adds, c)) \in Nat
                /\ IsFiniteSet(Uncounted(Removes, c))
                /\ Cardinality(Uncounted(Removes, c)) \in Nat
  <1>1. \A c : /\ Tally(c) \subseteq edges /\ Uncounted(Adds, c) \subseteq Adds
               /\ Uncounted(Removes, c) \subseteq Removes
    BY DEF Tally, Uncounted
  <1>2. \A c : /\ IsFiniteSet(Tally(c)) /\ IsFiniteSet(Uncounted(Adds, c))
               /\ IsFiniteSet(Uncounted(Removes, c))
    BY <1>1, CallsAssumption, FS_Subset
  <1>3. QED
    BY <1>2, FS_CardinalityType

LEMMA SameBalance ==
  ASSUME NEW c, Accounted(c), count'[c] = count[c],
         \A e : c \in CountedIn(e) => (e \in edges' <=> e \in edges),
         \A r \in Calls : c \in owed'[r] \cup lost'[r] <=> c \in owed[r] \cup lost[r]
  PROVE  Accounted(c)'
  <1>1. Tally(c)' = Tally(c)
    BY DEF Tally
  <1>2. /\ Uncounted(Adds, c)' = Uncounted(Adds, c)
        /\ Uncounted(Removes, c)' = Uncounted(Removes, c)
    BY DEF Uncounted, Calls
  <1>3. QED
    BY <1>1, <1>2 DEF Accounted

LEMMA CallAccounts ==
  ASSUME SocialTypeOK, IsFiniteSet(edges), NEW r \in Calls, Holding(r),
         CallStep(r) \/ \E e \in Edges : Begin(r, e),
         NEW c \in Counters, Exists(c[2]), Accounted(c)
  PROVE  Accounted(c)'
  <1>T. /\ count \in [Counters -> Int] /\ owed \in [Calls -> SUBSET Counters]
        /\ lost \in [Calls -> SUBSET Counters] /\ named \in [Calls -> Edges \cup {NoEdge}]
        /\ pc[r] \in {"idle", "create"} => owed[r] = {} /\ lost[r] = {}
    BY DEF SocialTypeOK, Holding
  <1>N. /\ Cardinality(Tally(c)) \in Nat /\ IsFiniteSet(Tally(c))
        /\ \A R \in {Adds, Removes} : /\ IsFiniteSet(Uncounted(R, c))
                                      /\ Cardinality(Uncounted(R, c)) \in Nat
        /\ count[c] \in Int
    BY FiniteTallies, <1>T
  <1>B. count[c] + Cardinality(Uncounted(Adds, c))
            = Cardinality(Tally(c)) + Cardinality(Uncounted(Removes, c))
    BY DEF Accounted
  <1>1. CASE r \in Adds /\ CreateEdge(r)
    <2>1. CASE UNCHANGED <<edges, owed>>
      BY <1>1, <2>1, SameBalance DEF CreateEdge
    <2>2. CASE named[r] \notin edges /\ edges' = edges \cup {named[r]}
               /\ owed' = [owed EXCEPT ![r] = CountedIn(named[r])]
      <3>1. UNCHANGED <<count, lost>> /\ pc[r] = "create"
        BY <1>1 DEF CreateEdge
      <3>2. owed[r] = {} /\ lost[r] = {} /\ r \notin Removes
        BY <1>T, <3>1, <1>1, CallsAssumption
      <3>3. CASE c \notin CountedIn(named[r])
        BY <1>T, <2>2, <3>1, <3>2, <3>3, SameBalance
      <3>4. CASE c \in CountedIn(named[r])
        <4>1. Tally(c)' = Tally(c) \cup {named[r]} /\ named[r] \notin Tally(c)
          BY <2>2, <3>4 DEF Tally
        <4>2. /\ Uncounted(Adds, c)' = Uncounted(Adds, c) \cup {r} /\ r \notin Uncounted(Adds, c)
              /\ Uncounted(Removes, c)' = Uncounted(Removes, c)
          BY <1>T, <1>1, <2>2, <3>1, <3>2, <3>4 DEF Uncounted, Calls
        <4>3. /\ Cardinality(Tally(c)') = Cardinality(Tally(c)) + 1
              /\ Cardinality(Uncounted(Adds, c)') = Cardinality(Uncounted(Adds, c)) + 1
          <5>1. Cardinality(Tally(c)') = Cardinality(Tally(c)) + 1
            BY <1>N, <4>1, FS_AddElement
          <5>2. Cardinality(Uncounted(Adds, c)') = Cardinality(Uncounted(Adds, c)) + 1
            BY <1>N, <4>2, FS_AddElement
          <5>3. QED
            BY <5>1, <5>2
        <4>4. QED
          BY <1>B, <1>N, <3>1, <4>2, <4>3 DEF Accounted
      <3>5. QED
        BY <3>3, <3>4
    <2>3. QED
      BY <1>1, <2>1, <2>2 DEF CreateEdge
  <1>2. CASE r \in Adds /\ NotifyAuthor(r)
    BY <1>2, SameBalance DEF NotifyAuthor
  <1>3. ASSUME NEW d \in owed[r], Count(r, d) PROVE Accounted(c)'
    <2>1. /\ UNCHANGED <<edges, lost>> /\ owed' = [owed EXCEPT ![r] = @ \ {d}]
          /\ Inc(d, Sign(r))
      BY <1>3 DEF Count
    <2>2. CASE d # c
      <3>1. count'[c] = count[c]
        BY <1>T, <2>1, <2>2 DEF Inc
      <3>2. QED
        BY <1>T, <2>1, <2>2, <3>1, SameBalance
    <2>3. CASE d = c
      <3>1. count'[c] = count[c] + Sign(r)
        BY <1>T, <2>1, <2>3 DEF Inc
      <3>2. d \notin lost[r] /\ Tally(c)' = Tally(c)
        BY <2>1 DEF Holding, Tally
      <3>3. ASSUME NEW R \in {Adds, Removes}
            PROVE  IF r \in R THEN Cardinality(Uncounted(R, c)') = Cardinality(Uncounted(R, c)) - 1
                              ELSE Cardinality(Uncounted(R, c)') = Cardinality(Uncounted(R, c))
        <4>1. CASE r \in R
          <5>1. Uncounted(R, c)' = Uncounted(R, c) \ {r} /\ r \in Uncounted(R, c)
            BY <1>T, <2>1, <2>3, <3>2, <4>1 DEF Uncounted, Calls
          <5>2. QED
            BY <1>N, <4>1, <5>1, FS_RemoveElement
        <4>2. CASE r \notin R
          <5>1. Uncounted(R, c)' = Uncounted(R, c)
            BY <1>T, <2>1, <4>2 DEF Uncounted, Calls
          <5>2. QED
            BY <4>2, <5>1
        <4>3. QED
          BY <4>1, <4>2
      <3>4. CASE r \in Adds
        <4>1. r \notin Removes /\ Sign(r) = 1
          BY <3>4, CallsAssumption DEF Sign
        <4>2. /\ Cardinality(Uncounted(Adds, c)') = Cardinality(Uncounted(Adds, c)) - 1
              /\ Cardinality(Uncounted(Removes, c)') = Cardinality(Uncounted(Removes, c))
          BY <3>3, <3>4, <4>1
        <4>3. QED
          BY <1>B, <1>N, <3>1, <3>2, <4>1, <4>2 DEF Accounted
      <3>5. CASE r \notin Adds
        <4>1. r \in Removes /\ Sign(r) = -1
          BY <3>5 DEF Sign, Calls
        <4>2. /\ Cardinality(Uncounted(Adds, c)') = Cardinality(Uncounted(Adds, c))
              /\ Cardinality(Uncounted(Removes, c)') = Cardinality(Uncounted(Removes, c)) - 1
          BY <3>3, <3>5, <4>1
        <4>3. QED
          BY <1>B, <1>N, <3>1, <3>2, <4>1, <4>2 DEF Accounted
      <3>6. QED
        BY <3>4, <3>5
    <2>4. QED
      BY <2>2, <2>3
  <1>4. ASSUME NEW d \in owed[r], LoseCount(r, d) PROVE Accounted(c)'
    BY <1>T, <1>4, SameBalance DEF LoseCount
  <1>5. CASE Crash(r)
    BY <1>T, <1>5, SameBalance DEF Crash
  <1>6. ASSUME NEW e \in Edges, r \in Adds, CheckEdge(r, e) PROVE Accounted(c)'
    BY <1>6, SameBalance DEF CheckEdge
  <1>7. ASSUME NEW e \in Edges, r \in Removes, DeleteEdge(r, e) PROVE Accounted(c)'
    <2>1. CASE UNCHANGED <<edges, owed>>
      BY <1>7, <2>1, SameBalance DEF DeleteEdge
    <2>2. CASE e \in edges /\ edges' = edges \ {e} /\ owed' = [owed EXCEPT ![r] = CountedIn(e)]
      <3>1. UNCHANGED <<count, lost>> /\ pc[r] = "idle"
        BY <1>7 DEF DeleteEdge
      <3>2. owed[r] = {} /\ lost[r] = {} /\ r \notin Adds
        BY <1>T, <3>1, <1>7, CallsAssumption
      <3>3. CASE c \notin CountedIn(e)
        BY <1>T, <2>2, <3>1, <3>2, <3>3, SameBalance
      <3>4. CASE c \in CountedIn(e)
        <4>1. Tally(c)' = Tally(c) \ {e} /\ e \in Tally(c)
          BY <2>2, <3>4 DEF Tally
        <4>2. /\ Uncounted(Removes, c)' = Uncounted(Removes, c) \cup {r}
              /\ r \notin Uncounted(Removes, c)
              /\ Uncounted(Adds, c)' = Uncounted(Adds, c)
          BY <1>T, <1>7, <2>2, <3>1, <3>2, <3>4 DEF Uncounted, Calls
        <4>3. /\ Cardinality(Tally(c)') = Cardinality(Tally(c)) - 1
              /\ Cardinality(Uncounted(Removes, c)') = Cardinality(Uncounted(Removes, c)) + 1
          <5>1. Cardinality(Tally(c)') = Cardinality(Tally(c)) - 1
            BY <1>N, <4>1, FS_RemoveElement
          <5>2. Cardinality(Uncounted(Removes, c)') = Cardinality(Uncounted(Removes, c)) + 1
            BY <1>N, <4>2, FS_AddElement
          <5>3. QED
            BY <5>1, <5>2
        <4>4. QED
          BY <1>B, <1>N, <3>1, <4>2, <4>3 DEF Accounted
      <3>5. QED
        BY <3>3, <3>4
    <2>3. QED
      BY <1>7, <2>1, <2>2 DEF DeleteEdge
  <1>8. QED
    BY <1>1, <1>2, <1>3, <1>4, <1>5, <1>6, <1>7 DEF CallStep, Begin

-----------------------------------------------------------------------------
(* Types.                                                                  *)

Naming(r, e) == /\ {e.from, e.to} \subseteq born
                /\ Begin(r, e)

CallHolds == \A r \in Calls : Holding(r)

LEMMA TypeInit == Init => TypeOK /\ CallHolds /\ Apart
  <1> SUFFICES ASSUME Init PROVE TypeOK /\ CallHolds /\ Apart
    OBVIOUS
  <1>1. TypeOK
    <2>1. SocialTypeOK
      BY Ids DEF Init, SocialInit, SocialTypeOK
    <2>2. others \in [{"treks", "joinRequests"} -> SUBSET Runs]
      BY DEF Init
    <2>3. QED
      BY <2>1, <2>2, DemoAssumption DEF Init, SocialInit, TypeOK, Resting
  <1>2. CallHolds /\ Apart
    BY FS_EmptySet DEF Init, SocialInit, CallHolds, Holding, Apart
  <1>3. QED
    BY <1>1, <1>2

\* A step of a call writes at its own place only.
LEMMA CallMoves ==
  ASSUME SocialTypeOK, NEW r \in Calls, Holding(r), born' = born,
         CallStep(r) \/ \E e \in Edges : Naming(r, e)
  PROVE  /\ SocialTypeOK' /\ Holding(r)' /\ pc'[r] # "idle"
         /\ \A q \in Calls \ {r} : /\ pc'[q] = pc[q] /\ named'[q] = named[q]
                                   /\ owed'[q] = owed[q] /\ lost'[q] = lost[q]
         /\ UNCHANGED <<people, posts>>
  <1>T. /\ people \subseteq Persons /\ posts \subseteq Posts
        /\ count \in [Counters -> Int]
        /\ named \in [Calls -> Edges \cup {NoEdge}]
        /\ pc \in [Calls -> {"idle", "create", "count", "notify"} \cup Ended]
        /\ owed \in [Calls -> SUBSET Counters] /\ lost \in [Calls -> SUBSET Counters]
        /\ \A q \in Calls : owed[q] # {} => pc[q] = "count"
    BY DEF SocialTypeOK
  <1>H. /\ pc[r] \in {"idle", "create"} => lost[r] = {}
        /\ owed[r] \cap lost[r] = {}
        /\ pc[r] # "idle" => /\ named[r] \in Edges
                             /\ {named[r].from, named[r].to} \subseteq born
                             /\ owed[r] \cup lost[r] \subseteq CountedIn(named[r])
    BY DEF Holding
  <1>A. AfterCount(r) \in {"failed", "notify", "done"}
    BY DEF AfterCount
  <1> USE <1>T, <1>H DEF Goto, Ended
  <1>1. CASE r \in Adds /\ CreateEdge(r)
    <2>1. named[r] \in Edges /\ CountedIn(named[r]) \subseteq Counters
      BY <1>1, Counted DEF CreateEdge
    <2>2. QED
      BY <1>1, <2>1 DEF CreateEdge, SocialTypeOK, Holding
  <1>2. CASE r \in Adds /\ NotifyAuthor(r)
    BY <1>2 DEF NotifyAuthor, SocialTypeOK, Holding
  <1>3. ASSUME NEW d \in owed[r], Count(r, d)
        PROVE  /\ SocialTypeOK' /\ Holding(r)' /\ pc'[r] # "idle"
               /\ \A q \in Calls \ {r} : /\ pc'[q] = pc[q] /\ named'[q] = named[q]
                                         /\ owed'[q] = owed[q] /\ lost'[q] = lost[q]
               /\ UNCHANGED <<people, posts>>
    <2>1. count' \in [Counters -> Int]
      BY <1>3 DEF Count, Inc, Sign
    <2>2. QED
      BY <1>3, <1>A, <2>1 DEF Count, SocialTypeOK, Holding
  <1>4. ASSUME NEW d \in owed[r], LoseCount(r, d)
        PROVE  /\ SocialTypeOK' /\ Holding(r)' /\ pc'[r] # "idle"
               /\ \A q \in Calls \ {r} : /\ pc'[q] = pc[q] /\ named'[q] = named[q]
                                         /\ owed'[q] = owed[q] /\ lost'[q] = lost[q]
               /\ UNCHANGED <<people, posts>>
    BY <1>4 DEF LoseCount, SocialTypeOK, Holding
  <1>5. CASE Crash(r)
    BY <1>5 DEF Crash, SocialTypeOK, Holding
  <1>6. ASSUME NEW e \in Edges, {e.from, e.to} \subseteq born, CheckEdge(r, e)
        PROVE  /\ SocialTypeOK' /\ Holding(r)' /\ pc'[r] # "idle"
               /\ \A q \in Calls \ {r} : /\ pc'[q] = pc[q] /\ named'[q] = named[q]
                                         /\ owed'[q] = owed[q] /\ lost'[q] = lost[q]
               /\ UNCHANGED <<people, posts>>
    BY <1>6 DEF CheckEdge, SocialTypeOK, Holding
  <1>7. ASSUME NEW e \in Edges, {e.from, e.to} \subseteq born, DeleteEdge(r, e)
        PROVE  /\ SocialTypeOK' /\ Holding(r)' /\ pc'[r] # "idle"
               /\ \A q \in Calls \ {r} : /\ pc'[q] = pc[q] /\ named'[q] = named[q]
                                         /\ owed'[q] = owed[q] /\ lost'[q] = lost[q]
               /\ UNCHANGED <<people, posts>>
    <2>1. CountedIn(e) \subseteq Counters
      BY Counted
    <2>2. QED
      BY <1>7, <2>1 DEF DeleteEdge, SocialTypeOK, Holding
  <1>8. QED
    BY <1>1, <1>2, <1>3, <1>4, <1>5, <1>6, <1>7 DEF CallStep, Begin, Naming

LEMMA LiveTypes ==
  ASSUME TypeOK, CallHolds, NEW r \in Calls,
         CallStep(r) \/ \E e \in Edges : Naming(r, e),
         meddled' = meddled \cup Meddles(named'[r]),
         flagged' = flagged \cap edges',
         UNCHANGED <<mode, stage, listed, others, born, clashed>>
  PROVE  TypeOK' /\ CallHolds'
  <1>1. /\ SocialTypeOK' /\ Holding(r)' /\ pc'[r] # "idle"
        /\ \A q \in Calls \ {r} : /\ pc'[q] = pc[q] /\ named'[q] = named[q]
                                  /\ owed'[q] = owed[q] /\ lost'[q] = lost[q]
        /\ UNCHANGED <<people, posts>>
    BY CallMoves DEF TypeOK, CallHolds
  <1>2. CallHolds'
    BY <1>1 DEF CallHolds, Holding
  <1>3. meddled' \subseteq born'
    BY <1>1 DEF Holding, Meddles, TypeOK
  <1>4. QED
    BY <1>1, <1>2, <1>3 DEF TypeOK

\* The accounts a run has created are of those it may create.
LEMMA NextUser ==
  ASSUME NEW s \in Runs
  PROVE  LET made == {i \in 1 .. Len(Emails) : Demo(Emails[i], s) \in born}
         IN  /\ made \subseteq 1 .. Len(Emails)
             /\ IsFiniteSet(made) /\ Cardinality(made) \in Nat
             /\ Cardinality(made) >= Len(Emails) => made = 1 .. Len(Emails)
             /\ made = {} => Cardinality(made) = 0
             /\ Cardinality(made) = 0 => made = {}
  <1> DEFINE made == {i \in 1 .. Len(Emails) : Demo(Emails[i], s) \in born}
  <1>1. Len(Emails) \in Nat
    BY DemoAssumption
  <1>2. IsFiniteSet(1 .. Len(Emails)) /\ Cardinality(1 .. Len(Emails)) = Len(Emails)
    BY SMTT(30), <1>1, FS_Interval
  <1>3. /\ made \in SUBSET (1 .. Len(Emails)) /\ IsFiniteSet(made)
        /\ Cardinality(made) <= Len(Emails)
        /\ Len(Emails) = Cardinality(made) => 1 .. Len(Emails) = made
    BY <1>2, FS_Subset
  <1>4. Cardinality(made) \in Nat /\ (Cardinality(made) = 0 <=> made = {})
    BY <1>3, FS_CardinalityType, FS_EmptySet
  <1>5. QED
    BY <1>1, <1>3, <1>4

\* What the run has still to create, and what a step of it creates.
LEMMA UserStep ==
  ASSUME NEW s \in Runs, CreateUser(s)
  PROVE  \/ /\ UNCHANGED <<people, born>>
            /\ \/ /\ stage' = [stage EXCEPT ![s] = "treks"]
                  /\ DemoOf(s) \subseteq born
               \/ stage' = [stage EXCEPT ![s] = "failed"]
         \/ /\ UNCHANGED stage
            /\ \E i \in 1 .. Len(Emails) :
                  /\ \A z \in Runs : Demo(Emails[i], z) \notin people
                  /\ people' = people \cup {Demo(Emails[i], s)}
                  /\ born' = born \cup {Demo(Emails[i], s)}
                  /\ (\A j \in 1 .. Len(Emails) : Demo(Emails[j], s) \notin born) => i = 1
  <1> DEFINE made == {i \in 1 .. Len(Emails) : Demo(Emails[i], s) \in born}
             n == Cardinality(made) + 1
  <1>M. /\ n \in Nat \ {0} /\ (n > Len(Emails) => made = 1 .. Len(Emails))
        /\ Len(Emails) \in Nat /\ (made = {} => n = 1)
    <2>1. /\ Cardinality(made) \in Nat
          /\ Cardinality(made) >= Len(Emails) => made = 1 .. Len(Emails)
          /\ made = {} => Cardinality(made) = 0
      BY NextUser
    <2> HIDE DEF made
    <2>2. QED
      BY <2>1, DemoAssumption
  <1> HIDE DEF n
  <1>1. \/ /\ n > Len(Emails) /\ stage' = [stage EXCEPT ![s] = "treks"]
           /\ UNCHANGED <<people, born>>
        \/ n <= Len(Emails) /\ stage' = [stage EXCEPT ![s] = "failed"] /\ UNCHANGED <<people, born>>
        \/ /\ n <= Len(Emails)
           /\ \A z \in Runs : Demo(Emails[n], z) \notin people
           /\ people' = people \cup {Demo(Emails[n], s)}
           /\ born' = born \cup {Demo(Emails[n], s)}
           /\ UNCHANGED stage
    BY DEF CreateUser, n
  <1>2. CASE n > Len(Emails) /\ stage' = [stage EXCEPT ![s] = "treks"] /\ UNCHANGED <<people, born>>
    <2>1. DemoOf(s) \subseteq born
      BY <1>2, <1>M DEF DemoOf
    <2>2. QED
      BY <1>2, <2>1
  <1>3. CASE /\ n <= Len(Emails)
             /\ \A z \in Runs : Demo(Emails[n], z) \notin people
             /\ people' = people \cup {Demo(Emails[n], s)}
             /\ born' = born \cup {Demo(Emails[n], s)}
             /\ UNCHANGED stage
    <2>1. n \in 1 .. Len(Emails)
      BY <1>3, <1>M
    <2>2. (\A j \in 1 .. Len(Emails) : Demo(Emails[j], s) \notin born) => n = 1
      BY <1>M
    <2>3. QED
      BY <1>3, <2>1, <2>2
  <1>4. QED
    BY <1>1, <1>2, <1>3

Stages == Resting \cup {"wiping", "users", "treks", "follows", "counters",
                        "posts", "likes", "likeCounts", "joinRequests"}

LEMMA ScriptTypes ==
  ASSUME TypeOK, Apart, NEW s \in Runs, SeedStep(s) \/ Break(s)
  PROVE  /\ TypeOK' /\ Apart' /\ born \subseteq born'
         /\ UNCHANGED <<named, pc, owed, lost, mode, meddled>>
  <1>T. /\ people \subseteq Persons /\ posts \subseteq Posts
        /\ count \in [Counters -> Int]
        /\ mode \in [Runs -> {"seed", "reset", "wipe"}]
        /\ stage \in [Runs -> Stages]
        /\ listed \in [Runs -> SUBSET Collections]
        /\ flagged \subseteq edges
        /\ others \in [{"treks", "joinRequests"} -> SUBSET Runs]
        /\ people \cup posts \subseteq born /\ meddled \subseteq born
    BY DEF TypeOK, SocialTypeOK, Stages
  <1>A. /\ Real \subseteq people /\ RealPosts \subseteq posts /\ IsFiniteSet(edges)
        /\ \A e \in flagged : \E z \in Runs : e \in SeededFollows(z) \cup SeededLikes(z)
    BY DEF Apart
  <1>G. ASSUME UNCHANGED <<named, pc, owed, lost, mode, meddled>>, born \subseteq born',
               people' \subseteq Persons, posts' \subseteq Posts, count' \in [Counters -> Int],
               stage' \in [Runs -> Stages],
               listed' \in [Runs -> SUBSET Collections], flagged' \subseteq edges',
               others' \in [{"treks", "joinRequests"} -> SUBSET Runs],
               people' \cup posts' \subseteq born'
        PROVE  TypeOK'
    BY <1>G DEF TypeOK, SocialTypeOK, Stages
  <1> USE <1>T, <1>A DEF Step
  <1>1. CASE CountDemoUsers(s)
    <2>1. stage' \in [Runs -> Stages] /\ listed' \in [Runs -> SUBSET Collections]
      BY <1>1 DEF CountDemoUsers, Stages, Resting
    <2>2. QED
      BY <1>1, <1>G, <2>1 DEF CountDemoUsers, socialVars, Apart
  <1>2. CASE Wipe(s)
    <2>1. PICK x \in listed[s] :
             /\ listed' = [listed EXCEPT ![s] = @ \ {x}]
             /\ LET gone == CASE x = "follows" -> DemoEdges("follow")
                              [] x = "likes"   -> DemoEdges("like")
                              [] OTHER         -> {}
                IN  edges' = edges \ gone /\ flagged' = flagged \ gone
             /\ posts' = IF x = "posts" THEN RealPosts ELSE posts
             /\ people' = IF x = "users" THEN Real ELSE people
             /\ others' = IF x = "posts" THEN [y \in DOMAIN others |-> {}] ELSE others
             /\ stage' = [stage EXCEPT ![s] = IF listed[s] # {x} THEN "wiping"
                                              ELSE IF mode[s] = "wipe" THEN "done" ELSE "users"]
      BY <1>2 DEF Wipe
    <2>2. UNCHANGED <<count, named, pc, owed, lost, mode, born, meddled, clashed>>
      BY <1>2 DEF Wipe
    <2>3. /\ listed' \in [Runs -> SUBSET Collections]
          /\ others' \in [{"treks", "joinRequests"} -> SUBSET Runs]
          /\ stage' \in [Runs -> Stages]
      BY <2>1 DEF Stages, Resting
    <2>4. edges' \subseteq edges /\ flagged' \subseteq flagged /\ flagged' \subseteq edges'
      BY <2>1
    <2>5. /\ people' \subseteq people /\ Real \subseteq people'
          /\ posts' \subseteq posts /\ RealPosts \subseteq posts'
      BY <2>1
    <2>6. IsFiniteSet(edges')
      BY <2>4, FS_Subset
    <2>7. Apart'
      BY <2>4, <2>5, <2>6 DEF Apart
    <2>8. QED
      BY <2>2, <2>3, <2>4, <2>5, <2>7, <1>G
  <1>3. CASE CreateUser(s)
    <2>1. /\ UNCHANGED <<posts, edges, count, named, pc, owed, lost, mode, listed, flagged,
                         others, meddled, clashed>>
          /\ stage' \in [Runs -> Stages] /\ born \subseteq born'
      BY <1>3, UserStep DEF CreateUser, Stages, Resting
    <2>2. \A i \in 1 .. Len(Emails) : Demo(Emails[i], s) \in Persons
      BY Ids DEF DemoOf
    <2>3. people' \subseteq Persons /\ people \subseteq people' /\ people' \subseteq born'
      BY <1>3, <2>2, UserStep
    <2>4. QED
      BY <2>1, <2>3, <1>G DEF Apart
  <1>4. ASSUME NEW x \in {"treks", "joinRequests"}, NEW from, NEW to \in Stages,
               CreateOthers(s, x, from, to)
        PROVE  TypeOK' /\ Apart' /\ UNCHANGED <<named, pc, owed, lost, mode, meddled, born>>
    BY <1>4, <1>G DEF CreateOthers, socialVars, Apart
  <1>5. ASSUME NEW new, IsFiniteSet(new), new \subseteq SeededFollows(s) \cup SeededLikes(s),
               NEW from, NEW to \in Stages, InsertEdges(s, new, from, to)
        PROVE  TypeOK' /\ Apart' /\ UNCHANGED <<named, pc, owed, lost, mode, meddled, born>>
    <2>1. PICK written \in SUBSET (new \ edges) :
             /\ edges' = edges \cup written /\ flagged' = flagged \cup written
             /\ \/ written = new /\ Step(s, from, to)
                \/ new \cap edges # {} /\ Step(s, from, "failed")
      BY <1>5 DEF InsertEdges
    <2>2. UNCHANGED <<people, posts, count, named, pc, owed, lost, mode, listed, others,
                      born, meddled, clashed>>
      BY <1>5 DEF InsertEdges
    <2>3. IsFiniteSet(written)
      BY <1>5, FS_Subset
    <2>4. IsFiniteSet(edges')
      BY <2>1, <2>3, FS_Union
    <2>5. \A e \in flagged' : \E z \in Runs : e \in SeededFollows(z) \cup SeededLikes(z)
      BY <1>5, <2>1
    <2>6. Apart'
      BY <2>2, <2>4, <2>5 DEF Apart
    <2>7. stage' \in [Runs -> Stages] /\ flagged' \subseteq edges'
      BY <2>1 DEF Stages, Resting
    <2>8. QED
      BY <2>2, <2>6, <2>7, <1>G
  <1>6. CASE InsertFollows(s) \/ InsertLikes(s)
    BY <1>5, <1>6, FiniteSeeds DEF InsertFollows, InsertLikes, Stages
  <1>7. CASE CreateTreks(s) \/ CreateJoinRequests(s)
    BY <1>4, <1>7 DEF CreateTreks, CreateJoinRequests, Stages, Resting
  <1>8. CASE SetCounters(s) \/ SetLikeCounts(s)
    <2>1. count' \in [Counters -> Int]
      <3>2. CASE SetCounters(s)
        <4>1. count' = [c \in Counters |-> IF c[2] \in people \cap DemoOf(s)
                            THEN Cardinality({e \in SeededFollows(s) : c \in CountedIn(e)})
                            ELSE count[c]]
          BY <3>2 DEF SetCounters
        <4>2. ASSUME NEW c \in Counters PROVE count'[c] \in Int
          <5>1. Cardinality({e \in SeededFollows(s) : c \in CountedIn(e)}) \in Nat
            BY FiniteSeeds
          <5>2. count[c] \in Int
            OBVIOUS
          <5>3. QED
            BY <4>1, <5>1, <5>2
        <4>3. count' = [c \in Counters |-> count'[c]]
          BY <4>1
        <4>4. QED
          BY <4>2, <4>3
      <3>3. CASE SetLikeCounts(s)
        <4>1. count' = [c \in Counters |-> IF c[2] \in posts \cap Mine(s)
                            THEN Cardinality({e \in SeededLikes(s) : c \in CountedIn(e)})
                            ELSE count[c]]
          BY <3>3 DEF SetLikeCounts
        <4>2. ASSUME NEW c \in Counters PROVE count'[c] \in Int
          <5>1. Cardinality({e \in SeededLikes(s) : c \in CountedIn(e)}) \in Nat
            BY FiniteSeeds
          <5>2. count[c] \in Int
            OBVIOUS
          <5>3. QED
            BY <4>1, <5>1, <5>2
        <4>3. count' = [c \in Counters |-> count'[c]]
          BY <4>1
        <4>4. QED
          BY <4>2, <4>3
      <3>4. QED
        BY <1>8, <3>2, <3>3
    <2>2. stage' \in [Runs -> Stages]
      BY <1>8 DEF SetCounters, SetLikeCounts, Stages
    <2>3. QED
      BY <1>8, <2>1, <2>2, <1>G DEF SetCounters, SetLikeCounts, Apart
  <1>9. CASE CreatePosts(s)
    <2>1. {<<"post", d>> : d \in DemoOf(s)} \subseteq Posts
      BY Ids
    <2>2. stage' \in [Runs -> Stages]
      BY <1>9 DEF CreatePosts, Stages
    <2>3. QED
      BY <1>9, <2>1, <2>2, <1>G DEF CreatePosts, Apart
  <1>10. CASE Break(s)
    <2>1. stage' \in [Runs -> Stages]
      BY <1>10 DEF Break, Stages, Resting
    <2>2. QED
      BY <1>10, <2>1, <1>G DEF Break, socialVars, Apart
  <1>11. QED
    BY <1>1, <1>2, <1>3, <1>6, <1>7, <1>8, <1>9, <1>10 DEF SeedStep

LEMMA TypeStep == TypeOK /\ CallHolds /\ Apart /\ [Next]_vars => (TypeOK /\ CallHolds /\ Apart)'
  <1> SUFFICES ASSUME TypeOK, CallHolds, Apart, [Next]_vars
               PROVE  TypeOK' /\ CallHolds' /\ Apart'
    OBVIOUS
  <1>1. ASSUME NEW s \in Runs, SeedStep(s) \/ Break(s) PROVE TypeOK' /\ CallHolds' /\ Apart'
    BY <1>1, ScriptTypes DEF CallHolds, Holding
  <1>2. CASE LiveNext
    <2>1. PICK r \in Calls : /\ CallStep(r) \/ \E e \in Edges : Naming(r, e)
                             /\ meddled' = meddled \cup Meddles(named'[r])
      BY <1>2 DEF LiveNext, Naming
    <2>2. flagged' = flagged \cap edges' /\ UNCHANGED <<mode, stage, listed, others, born, clashed>>
      BY <1>2 DEF LiveNext
    <2>3. TypeOK' /\ CallHolds' /\ UNCHANGED <<people, posts>>
      BY <2>1, <2>2, LiveTypes, CallMoves DEF TypeOK, CallHolds
    <2>4. IsFiniteSet(edges')
      <3>1. \E e : edges' \subseteq edges \cup {e}
        BY <2>1 DEF CallStep, Naming, Begin, CreateEdge, NotifyAuthor, Count, LoseCount, Crash,
                    CheckEdge, DeleteEdge
      <3>2. QED
        BY <3>1, FS_AddElement, FS_Subset DEF Apart
    <2>5. QED
      BY <2>2, <2>3, <2>4 DEF Apart
  <1>3. CASE UNCHANGED vars
    BY <1>3 DEF vars, socialVars, demoVars, TypeOK, SocialTypeOK, CallHolds, Holding, Apart
  <1>4. QED
    BY <1>1, <1>2, <1>3 DEF Next, Moves

LEMMA AlwaysTyped == Spec => [](TypeOK /\ CallHolds /\ Apart)
  BY TypeInit, TypeStep, PTL DEF Spec

\* TypeOK is an invariant of DemoData, and of SocialCounters with it.
THEOREM Typing == Spec => []TypeOK
  <1>1. TypeOK /\ CallHolds /\ Apart => TypeOK
    OBVIOUS
  <1>2. QED
    BY <1>1, AlwaysTyped, PTL

-----------------------------------------------------------------------------
(* The counters of real accounts.                                          *)

\* A run that does not wipe writes the counters and edges of its own documents.
LEMMA ScriptLeaves ==
  ASSUME TypeOK, NEW s \in Runs, SeedStep(s) \/ Break(s), ~Wipe(s),
         NEW c \in Counters, c[2] \notin Mine(s)
  PROVE  /\ count'[c] = count[c]
         /\ \A e : c \in CountedIn(e) => (e \in edges' <=> e \in edges)
  <1>1. \A e \in SeededFollows(s) \cup SeededLikes(s) : c \notin CountedIn(e)
    BY SeededApart
  <1>2. count \in [Counters -> Int]
    BY DEF TypeOK, SocialTypeOK
  <1>3. CASE SetCounters(s)
    BY <1>2, <1>3 DEF SetCounters, Mine
  <1>4. CASE SetLikeCounts(s)
    BY <1>2, <1>4 DEF SetLikeCounts
  <1>5. CASE InsertFollows(s) \/ InsertLikes(s)
    <2>1. /\ UNCHANGED count
          /\ \E written \in SUBSET (SeededFollows(s) \cup SeededLikes(s)) : edges' = edges \cup written
      BY <1>5 DEF InsertFollows, InsertLikes, InsertEdges
    <2>2. QED
      BY <1>1, <2>1
  <1>6. CASE UNCHANGED <<count, edges>>
    BY <1>6
  <1>7. QED
    BY <1>3, <1>4, <1>5, <1>6
       DEF SeedStep, Break, CountDemoUsers, CreateUser, CreateTreks, CreatePosts,
           CreateJoinRequests, CreateOthers, socialVars

\* No run writes the counters of real accounts, nor the edges that they count.
LEMMA ScriptLeavesReal ==
  ASSUME TypeOK, Apart, NEW s \in Runs, SeedStep(s) \/ Break(s),
         NEW c \in Counters, c[2] \in Real \cup RealPosts
  PROVE  /\ count'[c] = count[c]
         /\ \A e : c \in CountedIn(e) => (e \in edges' <=> e \in edges)
  <1>1. \A z \in Runs : c[2] \notin Mine(z)
    BY NotReal
  <1>2. CASE Wipe(s)
    <2>1. UNCHANGED count /\ (\E gone \in SUBSET flagged : edges' = edges \ gone)
      BY <1>2 DEF Wipe, DemoEdges
    <2>2. \A z \in Runs : \A e \in SeededFollows(z) \cup SeededLikes(z) : c \notin CountedIn(e)
      BY <1>1, SeededApart
    <2>3. QED
      BY <2>1, <2>2 DEF Apart
  <1>3. CASE ~Wipe(s)
    BY <1>1, <1>3, ScriptLeaves
  <1>4. QED
    BY <1>2, <1>3

LEMMA RealStep ==
  TypeOK /\ CallHolds /\ Apart /\ RealCountsMatch /\ [Next]_vars => RealCountsMatch'
  <1> SUFFICES ASSUME TypeOK, CallHolds, Apart, RealCountsMatch, [Next]_vars,
                      NEW c \in Counters, c[2] \in Real \cup RealPosts
               PROVE  Accounted(c)'
    BY DEF RealCountsMatch
  <1>1. Accounted(c) /\ Exists(c[2])
    BY DEF RealCountsMatch, Apart, Exists
  <1>2. ASSUME NEW s \in Runs, SeedStep(s) \/ Break(s) PROVE Accounted(c)'
    BY <1>1, <1>2, ScriptLeavesReal, ScriptTypes, SameBalance
  <1>3. CASE LiveNext
    <2>1. PICK r \in Calls : CallStep(r) \/ \E e \in Edges : Begin(r, e)
      BY <1>3 DEF LiveNext
    <2>2. QED
      BY <1>1, <2>1, CallAccounts DEF TypeOK, CallHolds, Apart
  <1>4. CASE UNCHANGED vars
    BY <1>1, <1>4, SameBalance DEF vars, socialVars
  <1>5. QED
    BY <1>2, <1>3, <1>4 DEF Next, Moves

\* Through all seeding, resetting, wiping and dying of runs the counters of
\* real accounts and posts differ from their edges only by what is under way
\* or was lost.
THEOREM RealCountsAreRight == Spec => []RealCountsMatch
  <1>1. Init => RealCountsMatch
    <2> SUFFICES ASSUME Init, NEW c \in Counters PROVE Accounted(c)
      BY DEF RealCountsMatch
    <2>1. count[c] = 0
      BY DEF Init, SocialInit
    <2>2. Tally(c) = {} /\ Uncounted(Adds, c) = {} /\ Uncounted(Removes, c) = {}
      BY DEF Init, SocialInit, Tally, Uncounted, Calls
    <2>3. QED
      BY <2>1, <2>2, FS_EmptySet DEF Accounted
  <1>2. QED
    BY <1>1, RealStep, AlwaysTyped, PTL DEF Spec

\* Nothing of what a script finds without isDemo changes: real documents and
\* their counters, and every edge the script has not flagged itself.
KeepsToDemo ==
    /\ Real \subseteq people' /\ RealPosts \subseteq posts'
    /\ edges' \ flagged' = edges \ flagged
    /\ \A c \in Counters : c[2] \in Real \cup RealPosts => count'[c] = count[c]

\* "Nothing here touches, reads, or modifies any document that doesn't already
\* have isDemo:true" (seed-demo-sahyadri.ts), of every step of every run.
OnlyDemoData == \A s \in Runs : SeedStep(s) \/ Break(s) => KeepsToDemo

\* The script keeps to its own data, whatever calls do meanwhile to real
\* documents and to those of the script.
THEOREM ScriptKeepsToDemo == Spec => [][OnlyDemoData]_vars
  <1>1. ASSUME TypeOK, Apart, Apart', NEW s \in Runs, SeedStep(s) \/ Break(s)
        PROVE  KeepsToDemo
    <2>1. flagged \subseteq edges
      BY <1>1 DEF TypeOK
    <2>2. edges' \ flagged' = edges \ flagged
      <3>1. CASE Wipe(s)
        <4>1. \E gone \in SUBSET flagged : edges' = edges \ gone /\ flagged' = flagged \ gone
          BY <3>1 DEF Wipe, DemoEdges
        <4>2. QED
          BY <2>1, <4>1
      <3>2. CASE InsertFollows(s) \/ InsertLikes(s)
        <4>1. PICK new : \E written \in SUBSET (new \ edges) :
                  edges' = edges \cup written /\ flagged' = flagged \cup written
          BY <3>2 DEF InsertFollows, InsertLikes, InsertEdges
        <4>2. QED
          BY <2>1, <4>1
      <3>3. CASE UNCHANGED <<edges, flagged>>
        BY <3>3
      <3>4. QED
        BY <1>1, <3>1, <3>2, <3>3
           DEF SeedStep, Break, CountDemoUsers, CreateUser, CreateTreks, CreatePosts,
               SetCounters, SetLikeCounts, CreateJoinRequests, CreateOthers, socialVars
    <2>3. Real \subseteq people' /\ RealPosts \subseteq posts'
      BY <1>1 DEF Apart
    <2>4. \A c \in Counters : c[2] \in Real \cup RealPosts => count'[c] = count[c]
      BY <1>1, ScriptLeavesReal
    <2>5. QED
      BY <2>2, <2>3, <2>4 DEF KeepsToDemo
  <1>2. TypeOK /\ Apart /\ Apart' => OnlyDemoData
    BY <1>1 DEF OnlyDemoData
  <1>3. QED
    BY <1>2, AlwaysTyped, PTL DEF Spec

-----------------------------------------------------------------------------
(* One set of demo content.                                                *)

\* The account by which a run holds its place: no other run gets past it.
First(s) == Demo(Emails[1], s)

\* A run that has not begun to seed has created nothing.
Unborn == \A s \in Runs : stage[s] \in {"ready", "wiping"} =>
              Mine(s) \cap born = {} /\ ~Seeded(s)

Creating == {"treks", "follows", "counters", "posts", "likes", "likeCounts", "joinRequests"}

NoWipe == \A z \in Runs : stage[z] # "wiping"

\* Where nobody wipes, whatever a run has created it holds its place, and one
\* run holds it at most.
Placed == NoWipe =>
    \A s \in Runs :
        /\ Seeded(s) \/ stage[s] \in Creating => First(s) \in people
        /\ stage[s] = "users" /\ DemoOf(s) \cap born # {} => First(s) \in people
        /\ \A z \in Runs : First(s) \in people /\ First(z) \in people => s = z

Cleared(x) ==
    /\ x = "posts" => posts = RealPosts /\ others.treks = {} /\ others.joinRequests = {}
    /\ x = "users" => people = Real

\* Who wipes is alone, and what it has wiped stays away.
Wiping == \A z \in Runs : stage[z] = "wiping" =>
    /\ \A s \in Runs \ {z} : ~Busy(s)
    /\ \A x \in Collections \ listed[z] : Cleared(x)
    /\ listed[z] \subseteq Collections

OnceInv == Unborn /\ (~clashed => Placed /\ Wiping /\ SeedOnce)

LEMMA Mines ==
  /\ \A s \in Runs : First(s) \in DemoOf(s) /\ DemoOf(s) \subseteq Mine(s)
  /\ \A s, z \in Runs : s # z => Mine(s) \cap Mine(z) = {}
  /\ \A s \in Runs : Mine(s) \subseteq Persons \cup Posts
  /\ \A s \in Runs : DemoOf(s) \cap Real = {} /\ DemoOf(s) \cap Posts = {}
  <1>1. \A s \in Runs : First(s) \in DemoOf(s) /\ DemoOf(s) \subseteq Mine(s)
    BY DemoAssumption DEF First, DemoOf, Mine
  <1>2. /\ \A s \in Runs : DemoOf(s) \subseteq Persons
        /\ \A s \in Runs : {<<"post", d>> : d \in DemoOf(s)} \subseteq Posts
    BY Ids
  <1>3. \A s, z \in Runs : s # z => DemoOf(s) \cap DemoOf(z) = {}
    BY DEF DemoOf, Demo
  <1>4. \A s, z \in Runs : s # z =>
           {<<"post", d>> : d \in DemoOf(s)} \cap {<<"post", d>> : d \in DemoOf(z)} = {}
    BY <1>3
  <1>5. \A s, z \in Runs : s # z => Mine(s) \cap Mine(z) = {}
    BY <1>2, <1>3, <1>4, EdgesAssumption DEF Mine
  <1>6. QED
    BY <1>1, <1>2, <1>5, Ids, DemoAssumption, EdgesAssumption DEF Mine

LEMMA OnceInit == Init => OnceInv
  <1> SUFFICES ASSUME Init PROVE OnceInv
    OBVIOUS
  <1>1. \A s \in Runs : ~Seeded(s) /\ Mine(s) \cap born = {} /\ First(s) \notin people
    BY NotReal, Mines DEF Init, Seeded, Exists
  <1>2. \A s \in Runs : stage[s] = "ready" /\ "ready" \notin Creating
    BY DEF Init, Creating
  <1>3. QED
    BY <1>1, <1>2 DEF OnceInv, Unborn, Placed, Wiping, SeedOnce

\* Nothing of this changes where the documents of users, posts and the like do not.
LEMMA OnceSame ==
  ASSUME OnceInv, UNCHANGED <<people, posts, stage, listed, others, born, clashed>>
  PROVE  OnceInv'
  BY DEF OnceInv, Unborn, Placed, Wiping, SeedOnce, NoWipe, Seeded, Exists, Busy, Cleared

\* A run writes its own place and creates its own documents only.
LEMMA ScriptWrites ==
  ASSUME TypeOK, Apart, NEW s \in Runs, SeedStep(s) \/ Break(s)
  PROVE  /\ \A z \in Runs \ {s} : stage'[z] = stage[z] /\ listed'[z] = listed[z]
         /\ people' \cup posts' \subseteq people \cup posts \cup Mine(s)
         /\ born' \subseteq born \cup Mine(s)
         /\ others'.treks \subseteq others.treks \cup {s}
         /\ others'.joinRequests \subseteq others.joinRequests \cup {s}
         /\ stage'[s] \in {"ready", "wiping"} =>
               stage[s] \in {"ready", "wiping"} /\ born' = born
                  /\ people' \subseteq people /\ posts' \subseteq posts
                  /\ others'.treks \subseteq others.treks
                  /\ others'.joinRequests \subseteq others.joinRequests
  <1>T. /\ stage \in [Runs -> Stages] /\ listed \in [Runs -> SUBSET Collections]
        /\ others \in [{"treks", "joinRequests"} -> SUBSET Runs]
        /\ Real \subseteq people /\ RealPosts \subseteq posts
    BY DEF TypeOK, Stages, Apart
  <1> USE <1>T DEF Step, Stages, Resting
  <1>1. CASE CountDemoUsers(s)
    BY <1>1 DEF CountDemoUsers, socialVars
  <1>2. CASE Wipe(s)
    BY <1>2 DEF Wipe
  <1>3. CASE CreateUser(s)
    <2>1. \A i \in 1 .. Len(Emails) : Demo(Emails[i], s) \in Mine(s)
      BY DEF Mine, DemoOf
    <2>2. /\ UNCHANGED <<posts, others, listed>> /\ stage[s] = "users"
      BY <1>3 DEF CreateUser
    <2>3. people' \subseteq people \cup Mine(s) /\ born' \subseteq born \cup Mine(s)
      BY <1>3, <2>1, UserStep
    <2>4. stage' = stage \/ \E x \in {"treks", "failed"} : stage' = [stage EXCEPT ![s] = x]
      BY <1>3, UserStep
    <2>5. QED
      BY <2>2, <2>3, <2>4
  <1>4. CASE CreateTreks(s) \/ CreateJoinRequests(s)
    BY <1>4 DEF CreateTreks, CreateJoinRequests, CreateOthers, socialVars
  <1>5. CASE InsertFollows(s) \/ InsertLikes(s)
    BY <1>5 DEF InsertFollows, InsertLikes, InsertEdges
  <1>6. CASE SetCounters(s)
    BY <1>6 DEF SetCounters
  <1>7. CASE SetLikeCounts(s)
    BY <1>7 DEF SetLikeCounts
  <1>8. CASE CreatePosts(s)
    BY <1>8 DEF CreatePosts, Mine
  <1>9. CASE Break(s)
    BY <1>9 DEF Break, socialVars
  <1>10. QED
    BY <1>1, <1>2, <1>3, <1>4, <1>5, <1>6, <1>7, <1>8, <1>9 DEF SeedStep

LEMMA UnbornStep ==
  ASSUME TypeOK, Apart, Unborn, NEW s \in Runs, SeedStep(s) \/ Break(s)
  PROVE  Unborn'
  <1>1. \A z \in Runs : Mine(z)' = Mine(z)
    BY DEF Mine, DemoOf
  <1>2. \A z \in Runs \ {s} : /\ stage'[z] = stage[z] /\ Mine(z) \cap born' \subseteq born
                              /\ (Seeded(z)' => Seeded(z))
    BY ScriptWrites, Mines, <1>1 DEF Seeded, Exists
  <1>3. stage'[s] \in {"ready", "wiping"} => /\ stage[s] \in {"ready", "wiping"} /\ born' = born
                                             /\ (Seeded(s)' => Seeded(s))
    BY ScriptWrites, <1>1 DEF Seeded, Exists
  <1>4. QED
    BY <1>1, <1>2, <1>3 DEF Unborn

LEMMA PlacedOnce == NoWipe /\ Placed => SeedOnce
  BY DEF Placed, SeedOnce

\* A step of a run that neither begins nor ends a wipe, nor creates accounts.
LEMMA PlacedStep ==
  ASSUME TypeOK, Apart, Placed, NoWipe, NoWipe', NEW s \in Runs, SeedStep(s) \/ Break(s),
         UNCHANGED people,
         First(s) \in people \/ (Seeded(s)' => Seeded(s)),
         stage'[s] \in Creating => First(s) \in people,
         stage'[s] = "users" => DemoOf(s) \cap born' = {}
  PROVE  Placed'
  <1>1. \A z \in Runs : /\ Mine(z)' = Mine(z) /\ First(z)' = First(z) /\ DemoOf(z)' = DemoOf(z)
    BY DEF Mine, DemoOf, First
  <1>2. \A z \in Runs \ {s} : /\ stage'[z] = stage[z] /\ Mine(z) \cap born' \subseteq born
                              /\ (Seeded(z)' => Seeded(z))
    BY ScriptWrites, Mines, <1>1 DEF Seeded, Exists
  <1>3. \A z \in Runs : DemoOf(z) \subseteq Mine(z)
    BY Mines
  <1>4. ASSUME NEW z \in Runs
        PROVE  /\ Seeded(z)' \/ stage'[z] \in Creating => First(z) \in people
               /\ stage'[z] = "users" /\ DemoOf(z) \cap born' # {} => First(z) \in people
               /\ \A y \in Runs : First(z) \in people /\ First(y) \in people => z = y
    <2>1. CASE z = s
      BY <2>1 DEF Placed
    <2>2. CASE z # s
      BY <2>2, <1>2, <1>3 DEF Placed
    <2>3. QED
      BY <2>1, <2>2
  <1>5. QED
    BY <1>1, <1>4 DEF Placed

LEMMA OnceBegins ==
  ASSUME TypeOK, Apart, OnceInv, NEW s \in Runs, CountDemoUsers(s), ~clashed'
  PROVE  Placed' /\ Wiping' /\ SeedOnce'
  <1>T. stage \in [Runs -> Stages] /\ listed \in [Runs -> SUBSET Collections]
    BY DEF TypeOK, Stages
  <1>1. /\ UNCHANGED <<socialVars, mode, flagged, others, born, meddled>> /\ stage[s] = "ready"
        /\ \/ stage' = [stage EXCEPT ![s] = "users"] /\ UNCHANGED listed
           \/ stage' = [stage EXCEPT ![s] = "done"] /\ UNCHANGED listed
           \/ /\ stage' = [stage EXCEPT ![s] = "wiping"]
              /\ listed' = [listed EXCEPT ![s] = Collections]
        /\ ~clashed
        /\ \A z \in Runs \ {s} : Busy(z) => stage'[s] # "wiping" /\ stage[z] # "wiping"
    BY DEF CountDemoUsers
  <1>2. NoWipe
    BY <1>1 DEF NoWipe, Busy, Resting
  <1>3. /\ Placed /\ SeedOnce /\ Mine(s) \cap born = {}
    BY <1>1 DEF OnceInv, Unborn
  <1>4. \A z \in Runs : Seeded(z)' <=> Seeded(z)
    BY <1>1 DEF Seeded, Exists, socialVars, Mine, DemoOf
  <1>5. SeedOnce'
    BY <1>1, <1>3, <1>4 DEF SeedOnce
  <1>6. CASE stage'[s] = "wiping"
    <2>1. \A z \in Runs \ {s} : ~Busy(z)' /\ stage'[z] # "wiping"
      BY <1>T, <1>1, <1>2, <1>6 DEF Busy, NoWipe
    <2>2. listed'[s] = Collections
      BY <1>T, <1>1, <1>6
    <2>3. QED
      BY <1>5, <1>6, <2>1, <2>2 DEF Wiping, Placed, NoWipe
  <1>7. CASE stage'[s] # "wiping"
    <2>1. stage'[s] \in {"users", "done"} /\ NoWipe'
      BY <1>T, <1>1, <1>2, <1>7 DEF NoWipe
    <2>2. UNCHANGED people /\ DemoOf(s) \cap born' = {}
      BY <1>1, <1>3, Mines DEF socialVars
    <2>3. SeedStep(s)
      BY DEF SeedStep
    <2>4. Placed'
      BY <1>2, <1>3, <1>4, <2>1, <2>2, <2>3, PlacedStep DEF Creating
    <2>5. QED
      BY <1>5, <2>1, <2>4 DEF Wiping, NoWipe
  <1>8. QED
    BY <1>6, <1>7

LEMMA OnceWipes ==
  ASSUME TypeOK, Apart, OnceInv, NEW s \in Runs, Wipe(s), ~clashed'
  PROVE  Placed' /\ Wiping' /\ SeedOnce'
  <1>T. /\ stage \in [Runs -> Stages] /\ listed \in [Runs -> SUBSET Collections]
        /\ others \in [{"treks", "joinRequests"} -> SUBSET Runs]
        /\ Real \subseteq people /\ RealPosts \subseteq posts
    BY DEF TypeOK, Stages, Apart
  <1>1. PICK x \in listed[s] :
           /\ listed' = [listed EXCEPT ![s] = @ \ {x}]
           /\ posts' = IF x = "posts" THEN RealPosts ELSE posts
           /\ people' = IF x = "users" THEN Real ELSE people
           /\ others' = IF x = "posts" THEN [y \in DOMAIN others |-> {}] ELSE others
           /\ stage' = [stage EXCEPT ![s] = IF listed[s] # {x} THEN "wiping"
                                            ELSE IF mode[s] = "wipe" THEN "done" ELSE "users"]
    BY DEF Wipe
  <1>2. stage[s] = "wiping" /\ UNCHANGED <<born, clashed>> /\ ~clashed
    BY DEF Wipe
  <1>3. /\ Unborn /\ SeedOnce
        /\ \A z \in Runs \ {s} : ~Busy(z)
        /\ \A y \in Collections \ listed[s] : Cleared(y)
    BY <1>2 DEF OnceInv, Wiping
  <1>4. \A z \in Runs \ {s} : ~Busy(z)' /\ stage'[z] \in Resting
    BY <1>T, <1>1, <1>3 DEF Busy
  <1>5. /\ people' \subseteq people /\ posts' \subseteq posts
        /\ others'.treks \subseteq others.treks /\ others'.joinRequests \subseteq others.joinRequests
    BY <1>T, <1>1
  <1>6. \A z \in Runs : Seeded(z)' => Seeded(z)
    BY <1>5 DEF Seeded, Exists, Mine, DemoOf
  <1>7. SeedOnce'
    BY <1>2, <1>3, <1>6 DEF SeedOnce
  <1>8. ASSUME NEW y \in Collections, y = x \/ Cleared(y) PROVE Cleared(y)'
    BY <1>T, <1>1, <1>8 DEF Cleared
  <1>9. CASE listed[s] # {x}
    <2>1. stage'[s] = "wiping" /\ listed'[s] = listed[s] \ {x}
      BY <1>T, <1>1, <1>9
    <2>2. \A y \in Collections \ listed'[s] : Cleared(y)'
      BY <1>3, <1>8, <2>1
    <2>3. Wiping'
      BY <1>T, <1>4, <2>1, <2>2 DEF Wiping, Resting
    <2>4. QED
      BY <1>7, <2>1, <2>3 DEF Placed, NoWipe
  <1>10. CASE listed[s] = {x}
    <2>1. stage'[s] \in {"done", "users"}
      BY <1>T, <1>1, <1>10
    <2>2. Cleared("posts")' /\ Cleared("users")'
      BY <1>3, <1>8, <1>10 DEF Collections
    <2>3. people' = Real /\ posts' = RealPosts /\ others'.treks = {} /\ others'.joinRequests = {}
      BY <2>2 DEF Cleared
    <2>4. \A z \in Runs : ~Seeded(z)' /\ First(z)' \notin people'
      BY <2>3, NotReal, Mines DEF Seeded, Exists, Mine, DemoOf, First
    <2>5. DemoOf(s)' \cap born' = {}
      BY <1>2, <1>3, Mines DEF Unborn, DemoOf
    <2>6. NoWipe' /\ Wiping'
      BY <1>4, <2>1 DEF NoWipe, Wiping, Resting
    <2>7. Placed'
      BY <1>4, <2>1, <2>4, <2>5 DEF Placed, Creating, Resting
    <2>8. QED
      BY <1>7, <2>6, <2>7
  <1>11. QED
    BY <1>9, <1>10

\* The accounts: the first one takes the place, if nobody has it.
LEMMA OnceCreates ==
  ASSUME TypeOK, Apart, Placed, NoWipe, NoWipe', NEW s \in Runs, CreateUser(s)
  PROVE  Placed'
  <1>T. /\ stage \in [Runs -> Stages] /\ people \cup posts \subseteq born
        /\ Real \subseteq people /\ RealPosts \subseteq posts
    BY DEF TypeOK, Stages, Apart
  <1>1. SeedStep(s) /\ stage[s] = "users" /\ UNCHANGED <<posts, others>>
    BY DEF SeedStep, CreateUser
  <1>2. First(s) \in DemoOf(s)
    BY Mines
  <1>3. CASE stage' = [stage EXCEPT ![s] = "treks"] /\ DemoOf(s) \subseteq born
             /\ UNCHANGED <<people, born>>
    <2>1. First(s) \in people
      BY <1>1, <1>2, <1>3 DEF Placed
    <2>2. stage'[s] = "treks"
      BY <1>T, <1>3
    <2>3. QED
      BY <1>1, <1>3, <2>1, <2>2, PlacedStep
  <1>4. CASE stage' = [stage EXCEPT ![s] = "failed"] /\ UNCHANGED <<people, born>>
    <2>1. stage'[s] = "failed" /\ (Seeded(s)' => Seeded(s))
      BY <1>T, <1>1, <1>4 DEF Seeded, Exists, Mine, DemoOf
    <2>2. QED
      BY <1>1, <1>4, <2>1, PlacedStep DEF Creating
  <1>5. ASSUME NEW i \in 1 .. Len(Emails),
               \A z \in Runs : Demo(Emails[i], z) \notin people,
               people' = people \cup {Demo(Emails[i], s)},
               born' = born \cup {Demo(Emails[i], s)},
               (\A j \in 1 .. Len(Emails) : Demo(Emails[j], s) \notin born) => i = 1,
               UNCHANGED stage
        PROVE  Placed'
    <2>1. Demo(Emails[i], s) \in DemoOf(s) /\ DemoOf(s) \subseteq Mine(s)
      BY Mines DEF DemoOf
    <2>2. \A z \in Runs : First(z)' = First(z) /\ Mine(z)' = Mine(z) /\ DemoOf(z)' = DemoOf(z)
      BY DEF First, Mine, DemoOf
    <2>3. \A z \in Runs \ {s} : /\ First(z) \in people' => First(z) \in people
                                /\ (Seeded(z)' => Seeded(z))
                                /\ DemoOf(z) \cap born' \subseteq born
      BY <1>1, <1>5, <2>1, <2>2, Mines DEF Seeded, Exists
    <2>4. CASE DemoOf(s) \cap born = {}
      <3>1. i = 1
        BY <1>5, <2>4 DEF DemoOf
      <3>2. /\ First(s) \in people'
            /\ \A z \in Runs : First(z) \notin people
        BY <1>5, <3>1 DEF First
      <3>3. QED
        BY <1>5, <2>2, <2>3, <3>2 DEF Placed
    <2>5. CASE DemoOf(s) \cap born # {}
      <3>1. First(s) \in people
        BY <1>1, <2>5 DEF Placed
      <3>2. QED
        BY <1>5, <2>2, <2>3, <3>1 DEF Placed
    <2>6. QED
      BY <2>4, <2>5
  <1>6. QED
    BY <1>3, <1>4, <1>5, UserStep

LEMMA ClashedStays ==
  ASSUME NEW s \in Runs, SeedStep(s) \/ Break(s)
  PROVE  clashed => clashed'
  <1>1. CASE SeedStep(s)
    BY <1>1 DEF SeedStep, CountDemoUsers, Wipe, CreateUser, CreateTreks, CreateOthers,
       InsertFollows, InsertLikes, InsertEdges, SetCounters, CreatePosts, SetLikeCounts,
       CreateJoinRequests
  <1>2. CASE Break(s)
    BY <1>2 DEF Break
  <1>3. QED
    BY <1>1, <1>2

LEMMA OnceSeeds ==
  ASSUME TypeOK, Apart, OnceInv, NEW s \in Runs, SeedStep(s) \/ Break(s),
         stage[s] \in Creating \cup {"users"}, ~clashed'
  PROVE  Placed' /\ Wiping' /\ SeedOnce'
  <1>T. stage \in [Runs -> Stages]
    BY DEF TypeOK, Stages
  <1>1. ~clashed /\ Placed /\ Wiping
    BY ClashedStays DEF OnceInv
  <1>2. NoWipe
    BY <1>1 DEF Wiping, NoWipe, Busy, Resting, Creating
  <1>3. CASE CreateUser(s)
    <2>1. NoWipe'
      BY <1>T, <1>2, <1>3, UserStep DEF NoWipe
    <2>2. Placed'
      BY <1>1, <1>2, <1>3, <2>1, OnceCreates
    <2>3. QED
      BY <2>1, <2>2 DEF Placed, Wiping, NoWipe, SeedOnce
  <1>4. CASE Break(s)
    <2>1. /\ stage'[s] = "failed" /\ NoWipe' /\ UNCHANGED <<people, posts, others, born>>
      BY <1>T, <1>2, <1>4 DEF Break, NoWipe, socialVars
    <2>2. Seeded(s)' => Seeded(s)
      BY <2>1 DEF Seeded, Exists, Mine, DemoOf
    <2>3. Placed'
      BY <1>1, <1>2, <2>1, <2>2, PlacedStep DEF Creating
    <2>4. QED
      BY <2>1, <2>3 DEF Placed, Wiping, NoWipe, SeedOnce
  <1>5. CASE ~CreateUser(s) /\ ~Break(s)
    <2>1. /\ stage[s] \in Creating /\ UNCHANGED people
          /\ \E x \in Creating \cup {"done", "failed"} : stage' = [stage EXCEPT ![s] = x]
      BY <1>5 DEF SeedStep, Creating, CountDemoUsers, Wipe, CreateTreks, CreateOthers,
           InsertFollows, InsertLikes, InsertEdges, SetCounters, CreatePosts, SetLikeCounts,
           CreateJoinRequests, Step, socialVars
    <2>2. NoWipe' /\ stage'[s] # "users"
      BY <1>T, <1>2, <2>1 DEF NoWipe, Creating
    <2>3. First(s) \in people
      BY <1>1, <1>2, <2>1 DEF Placed
    <2>4. Placed'
      BY <1>1, <1>2, <2>1, <2>2, <2>3, PlacedStep
    <2>5. QED
      BY <2>2, <2>4 DEF Placed, Wiping, NoWipe, SeedOnce
  <1>6. QED
    BY <1>3, <1>4, <1>5

LEMMA OnceStep ==
  TypeOK /\ CallHolds /\ Apart /\ OnceInv /\ [Next]_vars => OnceInv'
  <1> SUFFICES ASSUME TypeOK, CallHolds, Apart, OnceInv, [Next]_vars PROVE OnceInv'
    OBVIOUS
  <1>1. ASSUME NEW s \in Runs, SeedStep(s) \/ Break(s) PROVE OnceInv'
    <2>1. Unborn'
      BY <1>1, UnbornStep DEF OnceInv
    <2>2. ASSUME ~clashed' PROVE Placed' /\ Wiping' /\ SeedOnce'
      <3>1. CASE CountDemoUsers(s)
        BY <2>2, <3>1, OnceBegins
      <3>2. CASE Wipe(s)
        BY <2>2, <3>2, OnceWipes
      <3>3. CASE ~CountDemoUsers(s) /\ ~Wipe(s)
        <4>1. stage[s] \in Creating \cup {"users"}
          BY <1>1, <2>2, <3>3
             DEF TypeOK, SeedStep, Break, Busy, Resting, Creating, CreateUser, CreateTreks,
                 CreateOthers, InsertFollows, InsertLikes, InsertEdges, SetCounters, CreatePosts,
                 SetLikeCounts, CreateJoinRequests, Step
        <4>2. QED
          BY <1>1, <2>2, <4>1, OnceSeeds
      <3>4. QED
        BY <3>1, <3>2, <3>3
    <2>3. QED
      BY <2>1, <2>2 DEF OnceInv
  <1>2. CASE LiveNext
    <2>1. PICK r \in Calls : CallStep(r) \/ \E e \in Edges : Naming(r, e)
      BY <1>2 DEF LiveNext, Naming
    <2>2. UNCHANGED <<mode, stage, listed, others, born, clashed>>
      BY <1>2 DEF LiveNext
    <2>3. UNCHANGED <<people, posts>>
      BY <2>1, <2>2, CallMoves DEF TypeOK, CallHolds
    <2>4. QED
      BY <2>2, <2>3, OnceSame
  <1>3. CASE UNCHANGED vars
    BY <1>3, OnceSame DEF vars, socialVars, demoVars
  <1>4. QED
    BY <1>1, <1>2, <1>3 DEF Next, Moves

\* Seeding twice, overlapping and dying wherever it may, leaves the demo content
\* of one run, unless a wipe overlapped another run or died half way.
THEOREM OneSeeding == Spec => []SeedOnce
  <1>1. TypeOK /\ CallHolds /\ Apart /\ OnceInv => SeedOnce
    BY DEF OnceInv, SeedOnce
  <1>2. QED
    BY <1>1, OnceInit, OnceStep, AlwaysTyped, PTL DEF Spec

-----------------------------------------------------------------------------
(* The counters of demo accounts.                                          *)

\* While a run is not done, no call names what it creates, but for what is
\* known as meddled.
Untouched == \A s \in Runs : stage[s] # "done" =>
    \A x \in Mine(s) \ meddled : \A r \in Calls :
        pc[r] # "idle" => x \notin {named[r].from, named[r].to}

\* What the script writes that a counter of its run counts, and when it has
\* written the edges and the counter.
Script(s, c) == IF c[1] = "likes" THEN {e \in SeededLikes(s) : c \in CountedIn(e)}
                                  ELSE {e \in SeededFollows(s) : c \in CountedIn(e)}

Written(s, c) == stage[s] \in IF c[1] = "likes" THEN {"likeCounts", "joinRequests"}
                                                ELSE Creating \ {"treks", "follows"}

IsSet(s, c) == stage[s] \in IF c[1] = "likes" THEN {"joinRequests"}
                                              ELSE Creating \ {"treks", "follows", "counters"}

Due(s, c) == /\ Tally(c) = (IF Written(s, c) THEN Script(s, c) ELSE {})
             /\ IsSet(s, c) /\ Shown(c) => count[c] = Cardinality(Script(s, c))

Underway == Creating \cup {"ready", "wiping", "users"}

ByScript == ~clashed =>
    \A s \in Runs : stage[s] \in Underway =>
        \A c \in Counters : c[2] \in Mine(s) \ meddled => Due(s, c)

CountInv == Untouched /\ ByScript /\ DemoCountsMatch

LEMMA Kinds ==
  \A c \in Counters : \/ c[1] = "likes" /\ c[2] \in Posts /\ c[2] \notin Persons
                      \/ c[1] \in {"following", "followers"} /\ c[2] \in Persons /\ c[2] \notin Posts
  BY EdgesAssumption DEF Counters

LEMMA MyKinds ==
  \A s \in Runs : \A x \in Mine(s) : x \in Persons => x \in DemoOf(s)
  BY Ids, EdgesAssumption DEF Mine

LEMMA Ends == \A e \in Edges : \A c \in CountedIn(e) : c[2] \in {e.from, e.to}
  BY DEF CountedIn

LEMMA ScriptSame ==
  \A s \in Runs : /\ Mine(s)' = Mine(s)
                  /\ \A c : Script(s, c)' = Script(s, c)
  BY DEF Mine, DemoOf, Script, SeededFollows, SeededLikes

\* Where no call is at a counter, only edges and counter count.
LEMMA NothingOwed ==
  ASSUME TypeOK, CallHolds, Untouched, NEW s \in Runs, stage[s] # "done",
         NEW c \in Counters, c[2] \in Mine(s) \ meddled
  PROVE  Uncounted(Adds, c) = {} /\ Uncounted(Removes, c) = {}
  <1>1. ASSUME NEW r \in Calls PROVE c \notin owed[r] \cup lost[r]
    <2>1. CASE pc[r] = "idle"
      BY <2>1 DEF TypeOK, SocialTypeOK, CallHolds, Holding
    <2>2. CASE pc[r] # "idle"
      <3>1. /\ named[r] \in Edges /\ owed[r] \cup lost[r] \subseteq CountedIn(named[r])
            /\ c[2] \notin {named[r].from, named[r].to}
        BY <2>2 DEF CallHolds, Holding, Untouched
      <3>2. QED
        BY <3>1, Ends
    <2>3. QED
      BY <2>1, <2>2
  <1>2. QED
    BY <1>1 DEF Uncounted, Calls

\* A call writes the edge that it names, and where that is counted.
LEMMA LiveLeaves ==
  ASSUME TypeOK, CallHolds, NEW r \in Calls, born' = born,
         CallStep(r) \/ \E e \in Edges : Naming(r, e),
         NEW c \in Counters, c \notin CountedIn(named'[r])
  PROVE  /\ count'[c] = count[c]
         /\ \A e : c \in CountedIn(e) => (e \in edges' <=> e \in edges)
  <1>T. /\ count \in [Counters -> Int] /\ named \in [Calls -> Edges \cup {NoEdge}]
        /\ pc[r] = "count" => owed[r] \subseteq CountedIn(named[r])
    BY DEF TypeOK, SocialTypeOK, CallHolds, Holding
  <1>1. CASE r \in Adds /\ CreateEdge(r)
    BY <1>1 DEF CreateEdge
  <1>2. CASE r \in Adds /\ NotifyAuthor(r)
    BY <1>2 DEF NotifyAuthor
  <1>3. ASSUME NEW d \in owed[r], Count(r, d)
        PROVE  count'[c] = count[c] /\ edges' = edges
    BY <1>T, <1>3 DEF Count, Inc
  <1>4. ASSUME NEW d \in owed[r], LoseCount(r, d) PROVE UNCHANGED <<count, edges>>
    BY <1>4 DEF LoseCount
  <1>5. CASE Crash(r)
    BY <1>5 DEF Crash
  <1>6. ASSUME NEW e \in Edges, CheckEdge(r, e) PROVE UNCHANGED <<count, edges>>
    BY <1>6 DEF CheckEdge
  <1>7. ASSUME NEW e \in Edges, DeleteEdge(r, e)
        PROVE  UNCHANGED count /\ \A f : c \in CountedIn(f) => (f \in edges' <=> f \in edges)
    <2>1. named'[r] = e
      BY <1>T, <1>7 DEF DeleteEdge
    <2>2. QED
      BY <1>7, <2>1 DEF DeleteEdge
  <1>8. QED
    BY <1>1, <1>2, <1>3, <1>4, <1>5, <1>6, <1>7 DEF CallStep, Naming, Begin

LEMMA UntouchedStep ==
  TypeOK /\ CallHolds /\ Apart /\ Untouched /\ [Next]_vars => Untouched'
  <1> SUFFICES ASSUME TypeOK, CallHolds, Apart, Untouched, [Next]_vars PROVE Untouched'
    OBVIOUS
  <1>1. ASSUME NEW s \in Runs, SeedStep(s) \/ Break(s) PROVE Untouched'
    <2>1. UNCHANGED <<named, pc, meddled>>
      BY <1>1, ScriptTypes
    <2>2. \A z \in Runs : stage[z] = "done" => stage'[z] = "done"
      <3>1. stage[s] # "done"
        BY <1>1 DEF SeedStep, Break, Busy, Resting, CountDemoUsers, Wipe, CreateUser, CreateTreks,
                    CreateOthers, InsertFollows, InsertLikes, InsertEdges, SetCounters, CreatePosts,
                    SetLikeCounts, CreateJoinRequests, Step
      <3>2. QED
        BY <1>1, <3>1, ScriptWrites
    <2>3. QED
      BY <2>1, <2>2, ScriptSame DEF Untouched
  <1>2. CASE LiveNext
    <2>1. PICK r \in Calls : /\ CallStep(r) \/ \E e \in Edges : Naming(r, e)
                             /\ meddled' = meddled \cup Meddles(named'[r])
      BY <1>2 DEF LiveNext, Naming
    <2>2. UNCHANGED <<mode, stage, listed, others, born, clashed>>
      BY <1>2 DEF LiveNext
    <2>3. \A q \in Calls \ {r} : pc'[q] = pc[q] /\ named'[q] = named[q]
      BY <2>1, <2>2, CallMoves DEF TypeOK, CallHolds
    <2>4. ASSUME NEW s \in Runs, stage[s] # "done", NEW x \in Mine(s) \ meddled', NEW q \in Calls,
                 pc'[q] # "idle"
          PROVE  x \notin {named'[q].from, named'[q].to}
      <3>1. CASE q = r
        BY <2>1, <2>4, <3>1 DEF Meddles
      <3>2. CASE q # r
        BY <2>1, <2>3, <2>4, <3>2 DEF Untouched
      <3>3. QED
        BY <3>1, <3>2
    <2>5. QED
      BY <2>2, <2>4, ScriptSame DEF Untouched
  <1>3. CASE UNCHANGED vars
    BY <1>3, ScriptSame DEF vars, socialVars, demoVars, Untouched
  <1>4. QED
    BY <1>1, <1>2, <1>3 DEF Next, Moves

LEMMA DueSame ==
  ASSUME NEW s \in Runs, NEW c \in Counters, Due(s, c), stage'[s] = stage[s],
         count'[c] = count[c], Shown(c)' => Shown(c),
         \A e : c \in CountedIn(e) => (e \in edges' <=> e \in edges)
  PROVE  Due(s, c)'
  <1>1. Tally(c)' = Tally(c)
    BY DEF Tally
  <1>2. QED
    BY <1>1, ScriptSame DEF Due, Written, IsSet

\* What a run does for the counters of what it creates.
LEMMA DueStep ==
  ASSUME TypeOK, Apart, NEW s \in Runs, SeedStep(s) \/ Break(s),
         stage[s] \in Underway, stage'[s] \in Underway,
         NEW c \in Counters, c[2] \in Mine(s), Due(s, c)
  PROVE  Due(s, c)'
  <1>T. /\ stage \in [Runs -> Stages] /\ count \in [Counters -> Int]
        /\ people \subseteq Persons /\ posts \subseteq Posts
    BY DEF TypeOK, SocialTypeOK, Stages
  <1>K. \/ c[1] = "likes" /\ c[2] \in Posts /\ c[2] \notin Persons
        \/ c[1] # "likes" /\ c[1] \in {"following", "followers"} /\ c[2] \in DemoOf(s)
              /\ c[2] \in Persons /\ c[2] \notin Posts
    BY Kinds, MyKinds
  <1>D. /\ Tally(c) = (IF Written(s, c) THEN Script(s, c) ELSE {})
        /\ IsSet(s, c) /\ Shown(c) => count[c] = Cardinality(Script(s, c))
    BY DEF Due
  <1>S. Script(s, c)' = Script(s, c)
    BY ScriptSame
  <1> USE <1>T DEF Step
  <1>1. ASSUME UNCHANGED edges, ~Written(s, c), ~Written(s, c)', ~IsSet(s, c)'
        PROVE  Due(s, c)'
    BY <1>1, <1>D DEF Due, Tally
  <1>2. CASE CountDemoUsers(s)
    <2>1. UNCHANGED edges /\ stage[s] = "ready" /\ stage'[s] \in {"users", "wiping"}
      BY <1>2 DEF CountDemoUsers, socialVars, Underway, Creating
    <2>2. QED
      BY <1>1, <2>1 DEF Written, IsSet, Creating
  <1>3. CASE Wipe(s)
    <2>1. edges' \subseteq edges /\ stage[s] = "wiping" /\ stage'[s] \in {"users", "wiping"}
      BY <1>3 DEF Wipe, Underway, Creating
    <2>2. Tally(c) = {}
      BY <1>D, <2>1 DEF Written, Creating
    <2>3. Tally(c)' = {}
      BY <2>1, <2>2 DEF Tally
    <2>4. QED
      BY <2>1, <2>3 DEF Due, Written, IsSet, Creating
  <1>4. CASE CreateUser(s)
    <2>1. UNCHANGED edges /\ stage[s] = "users" /\ stage'[s] \in {"users", "treks"}
      BY <1>4, UserStep DEF CreateUser, Underway, Creating
    <2>2. QED
      BY <1>1, <2>1 DEF Written, IsSet, Creating
  <1>5. CASE CreateTreks(s)
    <2>1. UNCHANGED edges /\ stage[s] = "treks" /\ stage'[s] = "follows"
      BY <1>5 DEF CreateTreks, CreateOthers, socialVars
    <2>2. QED
      BY <1>1, <2>1 DEF Written, IsSet, Creating
  <1>6. CASE InsertFollows(s)
    <2>1. /\ edges' = edges \cup SeededFollows(s) /\ stage[s] = "follows" /\ stage'[s] = "counters"
          /\ UNCHANGED <<people, posts, count>>
      BY <1>6 DEF InsertFollows, InsertEdges, Underway, Creating
    <2>2. Tally(c) = {}
      BY <1>D, <2>1 DEF Written, Creating
    <2>3. Tally(c)' = {e \in SeededFollows(s) : c \in CountedIn(e)}
      BY <2>1, <2>2 DEF Tally
    <2>4. CASE c[1] = "likes"
      <3>1. Tally(c)' = {}
        BY <2>3, <2>4, FollowsOf
      <3>2. QED
        BY <2>1, <2>4, <3>1 DEF Due, Written, IsSet
    <2>5. CASE c[1] # "likes"
      BY <1>S, <2>1, <2>3, <2>5 DEF Due, Written, IsSet, Creating, Script
    <2>6. QED
      BY <2>4, <2>5
  <1>7. CASE SetCounters(s)
    <2>1. /\ UNCHANGED <<edges, people, posts>> /\ stage[s] = "counters" /\ stage'[s] = "posts"
          /\ count'[c] = IF c[2] \in people \cap DemoOf(s)
                         THEN Cardinality({e \in SeededFollows(s) : c \in CountedIn(e)})
                         ELSE count[c]
      BY <1>7 DEF SetCounters
    <2>2. Tally(c)' = Tally(c) /\ (Shown(c)' <=> c[2] \in people \cup posts)
      BY <2>1 DEF Tally, Shown, Exists
    <2>3. CASE c[1] = "likes"
      BY <1>D, <2>1, <2>2, <2>3 DEF Due, Written, IsSet
    <2>4. CASE c[1] # "likes"
      <3>1. Shown(c)' => count'[c] = Cardinality(Script(s, c))
        BY <1>K, <2>1, <2>2, <2>4 DEF Script
      <3>2. QED
        BY <1>D, <1>S, <2>1, <2>2, <2>4, <3>1 DEF Due, Written, IsSet, Creating
    <2>5. QED
      BY <2>3, <2>4
  <1>8. CASE CreatePosts(s)
    <2>1. /\ UNCHANGED <<edges, people, count>> /\ stage[s] = "posts" /\ stage'[s] = "likes"
          /\ posts' \subseteq Posts
      BY <1>8, Ids DEF CreatePosts
    <2>2. Tally(c)' = Tally(c)
      BY <2>1 DEF Tally
    <2>3. CASE c[1] = "likes"
      BY <1>D, <2>1, <2>2, <2>3 DEF Due, Written, IsSet
    <2>4. CASE c[1] # "likes"
      <3>1. Shown(c)' => Shown(c)
        BY <1>K, <2>1, <2>4 DEF Shown, Exists
      <3>2. QED
        BY <1>D, <1>S, <2>1, <2>2, <2>4, <3>1 DEF Due, Written, IsSet, Creating
    <2>5. QED
      BY <2>3, <2>4
  <1>9. CASE InsertLikes(s)
    <2>1. /\ edges' = edges \cup SeededLikes(s) /\ stage[s] = "likes" /\ stage'[s] = "likeCounts"
          /\ UNCHANGED <<people, posts, count>>
      BY <1>9 DEF InsertLikes, InsertEdges, Underway, Creating
    <2>2. Tally(c)' = Tally(c) \cup {e \in SeededLikes(s) : c \in CountedIn(e)}
      BY <2>1 DEF Tally
    <2>3. CASE c[1] = "likes"
      <3>1. Tally(c) = {}
        BY <1>D, <2>1, <2>3 DEF Written
      <3>2. QED
        BY <1>S, <2>1, <2>2, <2>3, <3>1 DEF Due, Written, IsSet, Script
    <2>4. CASE c[1] # "likes"
      <3>1. Tally(c)' = Tally(c) /\ (Shown(c)' => Shown(c))
        BY <2>1, <2>2, <2>4, LikesOf DEF Shown, Exists
      <3>2. QED
        BY <1>D, <1>S, <2>1, <2>4, <3>1 DEF Due, Written, IsSet, Creating
    <2>5. QED
      BY <2>3, <2>4
  <1>10. CASE SetLikeCounts(s)
    <2>1. /\ UNCHANGED <<edges, people, posts>>
          /\ stage[s] = "likeCounts" /\ stage'[s] = "joinRequests"
          /\ count'[c] = IF c[2] \in posts \cap Mine(s)
                         THEN Cardinality({e \in SeededLikes(s) : c \in CountedIn(e)})
                         ELSE count[c]
      BY <1>10 DEF SetLikeCounts
    <2>2. Tally(c)' = Tally(c) /\ (Shown(c)' <=> Shown(c)) /\ (Shown(c) <=> c[2] \in people \cup posts)
      BY <2>1 DEF Tally, Shown, Exists
    <2>3. CASE c[1] = "likes"
      <3>1. Shown(c) => count'[c] = Cardinality(Script(s, c))
        BY <1>K, <2>1, <2>2, <2>3 DEF Script
      <3>2. QED
        BY <1>D, <1>S, <2>1, <2>2, <2>3, <3>1 DEF Due, Written, IsSet
    <2>4. CASE c[1] # "likes"
      <3>1. count'[c] = count[c]
        BY <1>K, <2>1, <2>4
      <3>2. QED
        BY <1>D, <1>S, <2>1, <2>2, <2>4, <3>1 DEF Due, Written, IsSet, Creating
    <2>5. QED
      BY <2>3, <2>4
  <1>11. CASE CreateJoinRequests(s) \/ Break(s)
    BY <1>11 DEF CreateJoinRequests, CreateOthers, Break, Underway, Creating
  <1>12. QED
    BY <1>2, <1>3, <1>4, <1>5, <1>6, <1>7, <1>8, <1>9, <1>10, <1>11 DEF SeedStep

LEMMA CountInit == Init => CountInv
  <1> SUFFICES ASSUME Init PROVE CountInv
    OBVIOUS
  <1>1. \A s \in Runs : stage[s] = "ready" /\ \A r \in Calls : pc[r] = "idle"
    BY DEF Init, SocialInit
  <1>2. \A c : Tally(c) = {}
    BY DEF Init, SocialInit, Tally
  <1>3. QED
    BY <1>1, <1>2
       DEF CountInv, Untouched, ByScript, Due, Written, IsSet, Creating, DemoCountsMatch

\* A run that takes a step has not ended, and only a wiping run wipes.
LEMMA StepsFrom ==
  ASSUME TypeOK, NEW s \in Runs, SeedStep(s) \/ Break(s)
  PROVE  /\ stage[s] \in Underway
         /\ stage[s] = "wiping" => Wipe(s) \/ (Break(s) /\ clashed')
         /\ stage[s] # "wiping" => ~Wipe(s)
  <1>1. stage[s] \in Stages
    BY DEF TypeOK, Stages
  <1>2. CASE Break(s)
    BY <1>1, <1>2 DEF Break, Busy, Stages, Resting, Underway, Creating, Wipe
  <1>3. CASE SeedStep(s)
    BY <1>3 DEF SeedStep, CountDemoUsers, Wipe, CreateUser, CreateTreks,
            CreateOthers, InsertFollows, InsertLikes, InsertEdges, SetCounters, CreatePosts,
            SetLikeCounts, CreateJoinRequests, Step, Underway, Creating
  <1>4. QED
    BY <1>2, <1>3

LEMMA ShownBefore ==
  ASSUME TypeOK, Apart, NEW s \in Runs, SeedStep(s) \/ Break(s), NEW z \in Runs \ {s},
         NEW c, c[2] \in Mine(z)
  PROVE  c[2] \notin Mine(s) /\ (Shown(c)' => Shown(c))
  BY ScriptWrites, Mines DEF Shown, Exists

LEMMA ByScriptStep ==
  TypeOK /\ CallHolds /\ Apart /\ OnceInv /\ Untouched /\ ByScript /\ [Next]_vars => ByScript'
  <1> SUFFICES ASSUME TypeOK, CallHolds, Apart, OnceInv, Untouched, ByScript, [Next]_vars,
                      ~clashed', NEW z \in Runs, stage'[z] \in Underway,
                      NEW c \in Counters, c[2] \in Mine(z) \ meddled'
               PROVE  Due(z, c)'
    BY ScriptSame DEF ByScript, Underway
  <1>1. ASSUME NEW s \in Runs, SeedStep(s) \/ Break(s) PROVE Due(z, c)'
    <2>1. ~clashed /\ meddled' = meddled
      BY <1>1, ClashedStays, ScriptTypes
    <2>2. stage[z] \in Underway
      BY <1>1, StepsFrom, ScriptWrites
    <2>3. Due(z, c)
      BY <2>1, <2>2 DEF ByScript
    <2>4. CASE z = s
      BY <1>1, <2>2, <2>3, <2>4, DueStep
    <2>5. CASE z # s /\ Wipe(s)
      <3>1. stage[s] = "wiping" /\ edges' \subseteq edges /\ stage'[z] = stage[z]
        BY <1>1, <2>5, ScriptWrites DEF Wipe
      <3>2. stage[z] = "ready"
        BY <2>1, <2>2, <2>5, <3>1 DEF OnceInv, Wiping, Busy, Resting, Underway, Creating
      <3>3. Tally(c)' = {}
        BY <2>3, <3>1, <3>2 DEF Due, Written, Creating, Tally
      <3>4. QED
        BY <3>1, <3>2, <3>3 DEF Due, Written, IsSet, Creating
    <2>6. CASE z # s /\ ~Wipe(s)
      <3>1. stage'[z] = stage[z] /\ c[2] \notin Mine(s) /\ (Shown(c)' => Shown(c))
        BY <1>1, <2>6, ScriptWrites, ShownBefore
      <3>2. /\ count'[c] = count[c]
            /\ \A e : c \in CountedIn(e) => (e \in edges' <=> e \in edges)
        BY <1>1, <2>6, <3>1, ScriptLeaves
      <3>3. QED
        BY <2>3, <3>1, <3>2, DueSame
    <2>7. QED
      BY <2>4, <2>5, <2>6
  <1>2. CASE LiveNext
    <2>1. PICK r \in Calls : /\ CallStep(r) \/ \E e \in Edges : Naming(r, e)
                             /\ meddled' = meddled \cup Meddles(named'[r])
      BY <1>2 DEF LiveNext, Naming
    <2>2. UNCHANGED <<mode, stage, listed, others, born, clashed>>
      BY <1>2 DEF LiveNext
    <2>3. Holding(r)' /\ pc'[r] # "idle" /\ UNCHANGED <<people, posts>>
      BY <2>1, <2>2, CallMoves DEF TypeOK, CallHolds
    <2>4. named'[r] \in Edges
      BY <2>3 DEF Holding
    <2>5. c[2] \notin {named'[r].from, named'[r].to}
      BY <2>1, <2>2 DEF Meddles, Underway, Creating
    <2>6. c \notin CountedIn(named'[r])
      BY <2>4, <2>5, Ends
    <2>7. /\ count'[c] = count[c]
          /\ \A e : c \in CountedIn(e) => (e \in edges' <=> e \in edges)
      BY <2>1, <2>2, <2>6, LiveLeaves
    <2>8. Due(z, c) /\ stage'[z] = stage[z] /\ (Shown(c)' => Shown(c))
      BY <2>1, <2>2, <2>3 DEF ByScript, Shown, Exists
    <2>9. QED
      BY <2>7, <2>8, DueSame
  <1>3. CASE UNCHANGED vars
    <2>1. UNCHANGED <<people, posts, edges, count, stage, meddled, clashed>>
      BY <1>3 DEF vars, socialVars, demoVars
    <2>2. Due(z, c) /\ (Shown(c)' => Shown(c))
      BY <2>1 DEF ByScript, Shown, Exists
    <2>3. QED
      BY <2>1, <2>2, DueSame
  <1>4. QED
    BY <1>1, <1>2, <1>3 DEF Next, Moves

\* After a wipe nothing of the script is there.
LEMMA WipeEnds ==
  ASSUME TypeOK, OnceInv, NEW s \in Runs, Wipe(s), stage'[s] # "wiping", ~clashed'
  PROVE  people' = Real /\ posts' = RealPosts
  <1>1. PICK x \in listed[s] :
           /\ posts' = IF x = "posts" THEN RealPosts ELSE posts
           /\ people' = IF x = "users" THEN Real ELSE people
           /\ stage' = [stage EXCEPT ![s] = IF listed[s] # {x} THEN "wiping"
                                            ELSE IF mode[s] = "wipe" THEN "done" ELSE "users"]
    BY DEF Wipe
  <1>2. listed[s] = {x}
    BY <1>1 DEF TypeOK
  <1>3. \A y \in Collections \ {x} : Cleared(y)
    BY <1>2 DEF Wipe, OnceInv, Wiping
  <1>4. QED
    BY <1>1, <1>3 DEF Cleared, Collections

LEMMA DemoStep ==
  TypeOK /\ CallHolds /\ Apart /\ OnceInv /\ CountInv /\ [Next]_vars => DemoCountsMatch'
  <1> SUFFICES ASSUME TypeOK, CallHolds, Apart, OnceInv, CountInv, [Next]_vars,
                      ~clashed', \A y \in Runs : stage'[y] # "wiping",
                      NEW z \in Runs, stage'[z] = "done",
                      NEW c \in Counters, c[2] \in Mine(z) \ meddled', Shown(c)'
               PROVE  Accounted(c)'
    BY ScriptSame DEF DemoCountsMatch
  <1>T. /\ people \cup posts \subseteq born /\ stage \in [Runs -> Stages]
    BY DEF TypeOK, Stages
  <1>1. ASSUME NEW s \in Runs, SeedStep(s) \/ Break(s) PROVE Accounted(c)'
    <2>1. ~clashed /\ UNCHANGED <<meddled, owed, lost>>
      BY <1>1, ClashedStays, ScriptTypes
    <2>2. CASE stage[s] = "wiping"
      <3>1. people' = Real /\ posts' = RealPosts
        BY <1>1, <2>2, StepsFrom, WipeEnds
      <3>2. QED
        BY <3>1, NotReal DEF Shown, Exists
    <2>3. CASE stage[s] # "wiping"
      <3>1. ~Wipe(s) /\ \A y \in Runs : stage[y] # "wiping"
        BY <1>1, <2>3, StepsFrom, ScriptWrites
      <3>2. CASE z = s
        <4>1. UNCHANGED <<people, posts, edges, count>> /\ stage[s] \in {"ready", "joinRequests"}
          BY <1>1, <1>T, <3>1, <3>2, UserStep
             DEF SeedStep, Break, CountDemoUsers, CreateUser, CreateTreks,
                 CreateOthers, InsertFollows, InsertLikes, InsertEdges, SetCounters, CreatePosts,
                 SetLikeCounts, CreateJoinRequests, Step, socialVars, Stages
        <4>2. Shown(c)
          BY <4>1 DEF Shown, Exists
        <4>3. stage[s] = "joinRequests"
          BY <1>T, <3>2, <4>1, <4>2 DEF OnceInv, Unborn, Shown, Exists
        <4>4. Due(s, c)
          BY <2>1, <3>2, <4>3 DEF CountInv, ByScript, Underway, Creating
        <4>5. Tally(c) = Script(s, c) /\ count[c] = Cardinality(Script(s, c))
          BY <4>2, <4>3, <4>4 DEF Due, Written, IsSet, Creating
        <4>6. Uncounted(Adds, c) = {} /\ Uncounted(Removes, c) = {}
          BY <2>1, <3>2, <4>3, NothingOwed DEF CountInv
        <4>7. Accounted(c)
          BY <4>5, <4>6, FS_EmptySet DEF Accounted
        <4>8. QED
          BY <2>1, <4>1, <4>7, SameBalance
      <3>3. CASE z # s
        <4>1. stage[z] = "done" /\ c[2] \notin Mine(s) /\ Shown(c)
          BY <1>1, <3>3, ScriptWrites, ShownBefore
        <4>2. Accounted(c)
          BY <2>1, <3>1, <4>1 DEF CountInv, DemoCountsMatch
        <4>3. /\ count'[c] = count[c]
              /\ \A e : c \in CountedIn(e) => (e \in edges' <=> e \in edges)
          BY <1>1, <3>1, <4>1, ScriptLeaves
        <4>4. QED
          BY <2>1, <4>2, <4>3, SameBalance
      <3>4. QED
        BY <3>2, <3>3
    <2>4. QED
      BY <2>2, <2>3
  <1>2. CASE LiveNext
    <2>1. PICK r \in Calls : /\ CallStep(r) \/ \E e \in Edges : Naming(r, e)
                             /\ meddled' = meddled \cup Meddles(named'[r])
      BY <1>2 DEF LiveNext, Naming
    <2>2. UNCHANGED <<mode, stage, listed, others, born, clashed>>
      BY <1>2 DEF LiveNext
    <2>3. UNCHANGED <<people, posts>>
      BY <2>1, <2>2, CallMoves DEF TypeOK, CallHolds
    <2>4. Exists(c[2]) /\ Accounted(c)
      BY <2>1, <2>2, <2>3 DEF CountInv, DemoCountsMatch, Shown, Exists
    <2>5. QED
      BY <2>1, <2>4, CallAccounts DEF TypeOK, CallHolds, Apart, Naming
  <1>3. CASE UNCHANGED vars
    <2>1. UNCHANGED <<people, posts, edges, count, stage, meddled, clashed, owed, lost>>
      BY <1>3 DEF vars, socialVars, demoVars
    <2>2. Accounted(c)
      BY <2>1 DEF CountInv, DemoCountsMatch, Shown, Exists
    <2>3. QED
      BY <2>1, <2>2, SameBalance
  <1>4. QED
    BY <1>1, <1>2, <1>3 DEF Next, Moves

\* The counters of demo accounts are right from the end of their run to the
\* next wipe, unless calls named them while they were being seeded.
THEOREM DemoCountsAreRight == Spec => []DemoCountsMatch
  <1>1. /\ TypeOK /\ CallHolds /\ Apart /\ OnceInv /\ CountInv /\ [Next]_vars => CountInv'
        /\ CountInv => DemoCountsMatch
    BY UntouchedStep, ByScriptStep, DemoStep DEF CountInv
  <1>2. QED
    BY <1>1, CountInit, OnceInit, OnceStep, AlwaysTyped, PTL DEF Spec
=============================================================================
