------------------------ MODULE RefreshTokensProofs ------------------------
(***************************************************************************)
(* RefreshTokens, proved for any number of logins, refreshes and logouts.  *)
(*                                                                         *)
(* Lifecycle says where a request is in its life and which token it holds; *)
(* everything rests on it.  One chain per family counts its branches: the  *)
(* usable tokens that nobody rotates and the rotations under way (Chain);  *)
(* that an ended session stays ended needs that it has none (Closed); that *)
(* no alarm is false needs every revoked token to have a cause (Caused).   *)
(***************************************************************************)
EXTENDS RefreshTokens, FiniteSetTheorems, TLAPS

Presenters == Refreshes \cup Logouts

Lifecycle ==
    /\ \A r \in Requests : pc[r] = "idle" => given[r] = NoToken
    /\ \A r \in Requests : given[r] \in known \cup {NoToken}
    /\ \A r \in Presenters : pc[r] \in {"rotate", "issue", "revokeFamily"} => given[r] \in known
    /\ \A l \in Logins : pc[l] \in {"issue", "answer", "done", "failed"} /\ family[l] = l
    /\ \A t \in known : pc[t] = "done" /\ family[t] \in Families
    /\ \A t \in Tokens : pc[t] \in {"idle", "rotate", "issue"} => state[t] = "none"
    /\ \A t \in Tokens : pc[t] = "answer" => family[t] \in Families
    /\ \A t \in Refreshes : family[t] \in Families => pc[family[t]] # "issue"

\* Where a family can grow on: a usable token that nobody rotates, and a
\* rotation under way.
Free(f) == {t \in Usable(f) : \A q \in Refreshes : pc[q] = "rotate" => given[q] # t}

Branches(f) == Free(f) \cup Rotating(f)

\* The refreshes of family f that found their token live beside another.
Doubled(f) == {r \in raced : Serves(r, f)}

Chain ==
    /\ \A r \in raced : pc[r] # "idle"
    /\ \A f \in Families : Cardinality(Branches(f)) <= 1 + Cardinality(Doubled(f))

Closed ==
    \A f \in ended \ overtaken : Usable(f) = {} /\ Rotating(f) = {} /\ pc[f] # "issue"

Alarmed(f) == PresentedTwice(f) \/ LoggedOut(f)

Caused ==
    \A t \in Tokens : state[t] = "revoked" =>
        (\E q \in Refreshes : given[q] = t) \/ Alarmed(family[t])

-----------------------------------------------------------------------------
(* Types and the lives of requests and tokens.                             *)

LEMMA LifecycleInit == Init => TypeOK /\ Lifecycle
  BY RequestsAssumption
     DEF Init, TypeOK, Lifecycle, Issued, Tokens, Requests, Families, Presenters, Running

LEMMA LifecycleStep ==
  TypeOK /\ Lifecycle /\ [Next]_vars => TypeOK' /\ Lifecycle'
  <1> SUFFICES ASSUME TypeOK, Lifecycle, [Next]_vars PROVE TypeOK' /\ Lifecycle'
    OBVIOUS
  <1> USE RequestsAssumption DEF TypeOK, Lifecycle, Tokens, Requests, Families, Presenters,
                                 Running, Goto, ghosts
  <1>1. ASSUME NEW r \in Requests, NEW t \in Tokens, FindToken(r, t)
        PROVE  TypeOK' /\ Lifecycle'
    <2>1. TypeOK'
      BY <1>1 DEF FindToken, Issued
    <2>2. Lifecycle'
      BY <1>1 DEF FindToken, Issued
    <2>3. QED
      BY <2>1, <2>2
  <1>2. ASSUME NEW r \in Requests, NEW t \in Tokens, FindSession(r, t)
        PROVE  TypeOK' /\ Lifecycle'
    <2>1. TypeOK'
      BY <1>2 DEF FindSession, Issued
    <2>2. Lifecycle'
      BY <1>2 DEF FindSession, Issued
    <2>3. QED
      BY <2>1, <2>2
  <1>3. ASSUME NEW r \in Requests, RevokeOld(r) PROVE TypeOK' /\ Lifecycle'
    <2>1. TypeOK'
      BY <1>3 DEF RevokeOld, Issued
    <2>2. Lifecycle'
      BY <1>3 DEF RevokeOld, Issued
    <2>3. QED
      BY <2>1, <2>2
  <1>4. ASSUME NEW r \in Requests, IssueToken(r) PROVE TypeOK' /\ Lifecycle'
    <2>1. r \in Tokens /\ pc[r] = "issue" /\ r \notin known
      BY <1>4 DEF IssueToken
    <2>2. PICK f \in Families : family' = [family EXCEPT ![r] = f]
                                /\ (r \in Logins => f = r)
                                /\ (r \notin Logins => pc[f] # "issue")
      <3>1. CASE r \in Logins
        BY <1>4, <3>1 DEF IssueToken
      <3>2. CASE r \notin Logins
        <4>1. r \in Refreshes /\ given[r] \in known
          BY <2>1, <3>2
        <4>2. family[given[r]] \in Families /\ pc[family[given[r]]] # "issue"
          BY <4>1
        <4>3. QED
          BY <1>4, <3>2, <4>2 DEF IssueToken
      <3>3. QED
        BY <3>1, <3>2
    <2>3. TypeOK'
      BY <1>4, <2>1, <2>2 DEF IssueToken, Issued
    <2>4. Lifecycle'
      BY <1>4, <2>1, <2>2 DEF IssueToken, Issued
    <2>5. QED
      BY <2>3, <2>4
  <1>5. ASSUME NEW r \in Requests, Answer(r) PROVE TypeOK' /\ Lifecycle'
    BY <1>5 DEF Answer, Issued
  <1>6. ASSUME NEW r \in Requests, RevokeFamily(r) PROVE TypeOK' /\ Lifecycle'
    <2>1. r \in Presenters /\ given[r] \in known /\ family[given[r]] \in Families
      BY <1>6 DEF RevokeFamily
    <2>2. TypeOK'
      BY <1>6, <2>1 DEF RevokeFamily, RevokedFamily, Issued
    <2>3. Lifecycle'
      BY <1>6, <2>1 DEF RevokeFamily, RevokedFamily, Issued
    <2>4. QED
      BY <2>2, <2>3
  <1>7. ASSUME NEW r \in Requests, Crash(r) PROVE TypeOK' /\ Lifecycle'
    BY <1>7 DEF Crash, Issued
  <1>8. ASSUME NEW t \in Tokens, Expire(t) \/ Purge(t) PROVE TypeOK' /\ Lifecycle'
    BY <1>8 DEF Expire, Purge, Issued
  <1>9. CASE Stop \/ UNCHANGED vars
    BY <1>9 DEF Stop, vars, Issued
  <1>10. QED
    BY <1>1, <1>2, <1>3, <1>4, <1>5, <1>6, <1>7, <1>8, <1>9 DEF Next

\* Every token issued belongs to the family of some login, and every request
\* and token is in a state the collection and the handlers know.
THEOREM Typing == Spec => []TypeOK
  <1>1. TypeOK /\ Lifecycle /\ [Next]_vars => (TypeOK /\ Lifecycle)'
    BY LifecycleStep
  <1>2. QED
    BY LifecycleInit, <1>1, PTL DEF Spec

LEMMA AlwaysLifecycle == Spec => [](TypeOK /\ Lifecycle)
  <1>1. TypeOK /\ Lifecycle /\ [Next]_vars => (TypeOK /\ Lifecycle)'
    BY LifecycleStep
  <1>2. QED
    BY LifecycleInit, <1>1, PTL DEF Spec
-----------------------------------------------------------------------------
(* One chain per family.                                                   *)

\* A login that has not issued yet: nobody holds a token of its family.
LEMMA Unborn ==
  ASSUME TypeOK, Lifecycle, NEW f \in Families, pc[f] = "issue"
  PROVE  Usable(f) = {} /\ Rotating(f) = {}
  <1> USE RequestsAssumption DEF Lifecycle, Tokens, Requests, Families, Presenters
  <1>1. ASSUME NEW t \in Tokens, family[t] = f PROVE t = f
    BY <1>1
  <1>2. Usable(f) = {}
    BY <1>1 DEF Usable
  <1>3. Rotating(f) = {}
    <2>1. SUFFICES ASSUME NEW q \in Rotating(f) PROVE FALSE
      OBVIOUS
    <2>2. given[q] \in known /\ family[given[q]] = f
      BY <2>1 DEF Rotating
    <2>3. given[q] \in Tokens /\ pc[given[q]] = "done"
      BY <2>2 DEF TypeOK
    <2>4. QED
      BY <1>1, <2>2, <2>3
  <1>4. QED
    BY <1>2, <1>3

LEMMA ChainFinite ==
  ASSUME TypeOK, NEW f
  PROVE  /\ IsFiniteSet(Branches(f)) /\ Cardinality(Branches(f)) \in Nat
         /\ IsFiniteSet(Doubled(f)) /\ Cardinality(Doubled(f)) \in Nat
         /\ IsFiniteSet(Heads(f))
  <1>1. Branches(f) \subseteq Requests /\ Doubled(f) \subseteq Requests /\ Heads(f) \subseteq Requests
    BY DEF TypeOK, Branches, Free, Doubled, Heads, Usable, Rotating, Requests, Tokens
  <1>2. QED
    BY <1>1, RequestsAssumption, FS_Subset, FS_CardinalityType

LEMMA ChainInit == Init => Chain
  <1> SUFFICES ASSUME Init PROVE Chain
    OBVIOUS
  <1>1. raced = {} /\ \A f \in Families : Branches(f) = {} /\ Doubled(f) = {}
    BY RequestsAssumption
       DEF Init, Branches, Free, Doubled, Usable, Rotating, Requests, Tokens, Families
  <1>2. QED
    BY <1>1, FS_EmptySet DEF Chain

\* One element goes and one comes.
LEMMA Swapped ==
  ASSUME NEW A, NEW B, NEW a \in A, NEW b, IsFiniteSet(A), B \subseteq (A \ {a}) \cup {b}
  PROVE  Cardinality(B) <= Cardinality(A)
  <1>1. IsFiniteSet(A \ {a}) /\ Cardinality(A \ {a}) = Cardinality(A) - 1
    BY FS_RemoveElement
  <1>2. /\ IsFiniteSet((A \ {a}) \cup {b})
        /\ \/ Cardinality((A \ {a}) \cup {b}) = Cardinality(A \ {a})
           \/ Cardinality((A \ {a}) \cup {b}) = Cardinality(A \ {a}) + 1
    BY <1>1, FS_AddElement
  <1>3. Cardinality(B) <= Cardinality((A \ {a}) \cup {b})
    BY <1>2, FS_Subset
  <1>4. Cardinality(A) \in Nat /\ Cardinality(B) \in Nat
    BY <1>2, FS_CardinalityType, FS_Subset
  <1>5. QED
    BY <1>1, <1>2, <1>3, <1>4

\* A step that adds no branch.
LEMMA NoBranch ==
  ASSUME TypeOK, TypeOK', Chain, raced' = raced, \A r \in raced : pc'[r] # "idle",
         \A f \in Families : /\ Branches(f)' \subseteq Branches(f)
                             /\ Doubled(f)' = Doubled(f)
  PROVE  Chain'
  <1> SUFFICES ASSUME NEW f \in Families
               PROVE  Cardinality(Branches(f)') <= 1 + Cardinality(Doubled(f)')
    BY DEF Chain
  <1>1. /\ Cardinality(Branches(f)') <= Cardinality(Branches(f))
        /\ Cardinality(Branches(f)') \in Nat
    BY ChainFinite, FS_Subset, FS_CardinalityType
  <1>2. Cardinality(Branches(f)) <= 1 + Cardinality(Doubled(f))
    BY DEF Chain
  <1>3. QED
    BY <1>1, <1>2, ChainFinite

\* A step after which what is given, and the family of what was given, are as
\* before.
LEMMA SameDoubled ==
  ASSUME TypeOK, Lifecycle, Chain, raced' = raced,
         \A r \in raced : given'[r] = given[r], \A t \in known : family'[t] = family[t]
  PROVE  \A f : Doubled(f)' = Doubled(f)
  <1>1. \A r \in raced : r \in Requests
    BY DEF TypeOK, Requests, Tokens
  <1>2. \A r \in raced : given[r] \in Tokens => given[r] \in known
    BY <1>1, RequestsAssumption DEF Lifecycle
  <1>3. \A r \in raced : \A f : Serves(r, f)' <=> Serves(r, f)
    BY <1>2 DEF Serves
  <1>4. QED
    BY <1>3 DEF Doubled

LEMMA ChainFind ==
  ASSUME TypeOK, Lifecycle, Chain, TypeOK',
         NEW r \in Requests, NEW t \in Tokens, FindToken(r, t)
  PROVE  Chain'
  <1> USE RequestsAssumption DEF Tokens, Requests, Families, Goto, ghosts
  <1>1. /\ r \in Refreshes /\ pc[r] = "idle" /\ r \notin raced /\ t \in known
        /\ pc'[r] \in {"failed", "revokeFamily", "rotate"} /\ given'[r] = t
        /\ \A q \in Requests : q # r => pc'[q] = pc[q] /\ given'[q] = given[q]
        /\ raced \subseteq Refreshes
        /\ UNCHANGED <<state, family>>
    BY DEF FindToken, TypeOK, Chain
  <1>2. \A f : Usable(f)' = Usable(f)
    BY <1>1 DEF Usable
  <1>3. CASE pc'[r] # "rotate"
    <2>1. raced' = raced
      BY <1>1, <1>3 DEF FindToken, TypeOK
    <2>2. \A f : Branches(f)' \subseteq Branches(f)
      <3>1. \A f : Rotating(f)' = Rotating(f)
        BY <1>1, <1>3 DEF Rotating
      <3>2. \A f : Free(f)' \subseteq Free(f)
        BY <1>1, <1>2 DEF Free
      <3>3. QED
        BY <3>1, <3>2 DEF Branches
    <2>3. \A q \in raced : pc'[q] # "idle" /\ given'[q] = given[q]
      BY <1>1 DEF Chain
    <2>4. QED
      BY <1>1, <2>1, <2>2, <2>3, NoBranch, SameDoubled
  <1>4. CASE pc'[r] = "rotate"
    <2> DEFINE g == family[t]
    <2>1. /\ state[t] = "live" /\ t \in Usable(g) /\ g \in Families
          /\ raced' = IF \E q \in Refreshes : pc[q] = "rotate" /\ given[q] = t
                      THEN raced \cup {r} ELSE raced
      BY <1>1, <1>4 DEF FindToken, Lifecycle, Usable, TypeOK
    <2>2. \A f : Free(f)' \subseteq Free(f) \ {t}
      BY <1>1, <1>2, <1>4 DEF Free
    <2>3. \A f : Rotating(f)' \subseteq IF f = g THEN Rotating(f) \cup {r} ELSE Rotating(f)
      BY <1>1 DEF Rotating
    <2>4. t \notin Rotating(g)
      BY <2>1 DEF Lifecycle, Rotating
    <2>5. \A q \in raced' : pc'[q] # "idle"
      BY <1>1, <1>4, <2>1 DEF Chain
    <2>6. \A q \in raced : \A f : Serves(q, f)' <=> Serves(q, f)
      BY <1>1 DEF Serves
    <2>7. Serves(r, g)'
      BY <1>1 DEF Serves
    <2> SUFFICES ASSUME NEW f \in Families
                 PROVE  Cardinality(Branches(f)') <= 1 + Cardinality(Doubled(f)')
      BY <2>5 DEF Chain
    <2>8. /\ IsFiniteSet(Branches(f)) /\ Cardinality(Branches(f)) \in Nat
          /\ IsFiniteSet(Branches(f)') /\ Cardinality(Branches(f)') \in Nat
          /\ IsFiniteSet(Doubled(f)) /\ Cardinality(Doubled(f)) \in Nat
          /\ IsFiniteSet(Doubled(f)') /\ Cardinality(Doubled(f)') \in Nat
          /\ Cardinality(Branches(f)) <= 1 + Cardinality(Doubled(f))
      <3>1. Branches(f)' \subseteq Requests /\ Doubled(f)' \subseteq Requests
        BY DEF TypeOK, Branches, Free, Doubled, Usable, Rotating
      <3>2. QED
        BY <3>1, ChainFinite, FS_Subset, FS_CardinalityType DEF Chain
    <2>9. Doubled(f) \subseteq Doubled(f)'
      BY <2>1, <2>6 DEF Doubled
    <2>10. Cardinality(Doubled(f)) <= Cardinality(Doubled(f)')
      BY <2>8, <2>9, FS_Subset
    <2>11. CASE f # g
      <3>1. Branches(f)' \subseteq Branches(f)
        BY <2>2, <2>3, <2>11 DEF Branches
      <3>2. Cardinality(Branches(f)') <= Cardinality(Branches(f))
        BY <2>8, <3>1, FS_Subset
      <3>3. QED
        BY <2>8, <2>10, <3>2
    <2>12. CASE f = g /\ r \notin raced'
      <3>1. t \in Branches(f)
        BY <1>1, <2>1, <2>12 DEF Branches, Free
      <3>2. Branches(f)' \subseteq (Branches(f) \ {t}) \cup {r}
        BY <2>2, <2>3, <2>4, <2>12 DEF Branches
      <3>3. Cardinality(Branches(f)') <= Cardinality(Branches(f))
        BY <2>8, <3>1, <3>2, Swapped
      <3>4. QED
        BY <2>8, <2>10, <3>3
    <2>13. CASE f = g /\ r \in raced'
      <3>1. Branches(f)' \subseteq Branches(f) \cup {r}
        BY <2>2, <2>3, <2>13 DEF Branches
      <3>2. /\ IsFiniteSet(Branches(f) \cup {r})
            /\ \/ Cardinality(Branches(f) \cup {r}) = Cardinality(Branches(f))
               \/ Cardinality(Branches(f) \cup {r}) = Cardinality(Branches(f)) + 1
        BY <2>8, FS_AddElement
      <3>3. Cardinality(Branches(f)') <= Cardinality(Branches(f)) + 1
        BY <2>8, <3>1, <3>2, FS_Subset
      <3>4. r \notin Doubled(f) /\ Doubled(f) \cup {r} \subseteq Doubled(f)'
        BY <1>1, <2>7, <2>9, <2>13 DEF Doubled
      <3>5. /\ IsFiniteSet(Doubled(f) \cup {r})
            /\ Cardinality(Doubled(f) \cup {r}) = Cardinality(Doubled(f)) + 1
        BY <2>8, <3>4, FS_AddElement
      <3>6. Cardinality(Doubled(f)) + 1 <= Cardinality(Doubled(f)')
        BY <2>8, <3>4, <3>5, FS_Subset
      <3>7. QED
        BY <2>8, <3>3, <3>6
    <2>14. QED
      BY <2>11, <2>12, <2>13
  <1>5. QED
    BY <1>3, <1>4

LEMMA ChainIssue ==
  ASSUME TypeOK, Lifecycle, Chain, TypeOK', NEW r \in Requests, IssueToken(r)
  PROVE  Chain'
  <1> USE RequestsAssumption DEF Tokens, Requests, Families, Presenters, Goto, ghosts
  <1> DEFINE g == IF r \in Logins THEN r ELSE family[given[r]]
  <1>1. /\ r \in Tokens /\ pc[r] = "issue" /\ state' = [state EXCEPT ![r] = "live"]
        /\ family' = [family EXCEPT ![r] = g] /\ pc' = [pc EXCEPT ![r] = "answer"]
        /\ UNCHANGED <<given, raced>> /\ r \notin known
    BY DEF IssueToken, Lifecycle
  <1>2. g \in Families /\ (r \notin Logins => r \in Rotating(g))
    BY <1>1 DEF Lifecycle, Rotating
  <1>3. \A q \in Refreshes : pc[q] \in {"rotate", "issue"} =>
            given[q] \in known /\ given[q] # r /\ family'[given[q]] = family[given[q]]
    BY <1>1 DEF Lifecycle, TypeOK
  <1>4. \A f \in Families : Rotating(f)' = Rotating(f) \ {r}
    BY <1>1, <1>3 DEF Rotating, TypeOK
  <1>5. \A f \in Families : Usable(f)' \subseteq IF f = g THEN Usable(f) \cup {r} ELSE Usable(f)
    BY <1>1 DEF Usable, TypeOK
  <1>6. \A f \in Families : Free(f)' \subseteq IF f = g THEN Free(f) \cup {r} ELSE Free(f)
    BY <1>1, <1>5 DEF Free, TypeOK
  <1>7. \A f \in Families : Branches(f)' \subseteq IF f = g THEN Branches(f) \cup {r} ELSE Branches(f)
    BY <1>4, <1>6 DEF Branches
  <1>8. \A f : Doubled(f)' = Doubled(f)
    BY <1>1, SameDoubled DEF TypeOK
  <1>9. \A q \in raced : pc'[q] # "idle"
    BY <1>1 DEF Chain, TypeOK
  <1>10. CASE r \notin Logins
    <2>1. \A f \in Families : Branches(f)' \subseteq Branches(f)
      BY <1>2, <1>7, <1>10 DEF Branches
    <2>2. QED
      BY <1>1, <1>8, <1>9, <2>1, NoBranch
  <1>11. CASE r \in Logins
    <2> SUFFICES ASSUME NEW f \in Families
                 PROVE  Cardinality(Branches(f)') <= 1 + Cardinality(Doubled(f)')
      BY <1>1, <1>9 DEF Chain
    <2>1. CASE f = r
      <3>1. Branches(f) = {}
        BY <1>1, <2>1, Unborn DEF Branches, Free
      <3>2. Branches(f)' \subseteq {r}
        BY <1>7, <1>11, <2>1, <3>1
      <3>3. Cardinality(Branches(f)') <= 1 /\ Cardinality(Branches(f)') \in Nat
        <4>1. IsFiniteSet({r}) /\ Cardinality({r}) = 1
          BY FS_Singleton
        <4>2. Branches(f)' \in SUBSET {r}
          BY <3>2
        <4>3. IsFiniteSet(Branches(f)') /\ Cardinality(Branches(f)') <= Cardinality({r})
          BY <4>1, <4>2, FS_Subset
        <4>4. QED
          BY <4>1, <4>3, FS_CardinalityType
      <3>4. QED
        BY <1>8, <3>3, ChainFinite
    <2>2. CASE f # r
      <3>1. Branches(f)' \subseteq Branches(f)
        BY <1>7, <1>11, <2>2
      <3>2. /\ Cardinality(Branches(f)') <= Cardinality(Branches(f))
            /\ Cardinality(Branches(f)') \in Nat
        BY <3>1, ChainFinite, FS_Subset, FS_CardinalityType
      <3>3. QED
        BY <1>8, <3>2, ChainFinite DEF Chain
    <2>3. QED
      BY <2>1, <2>2
  <1>12. QED
    BY <1>10, <1>11

LEMMA ChainCrash ==
  ASSUME TypeOK, Lifecycle, Chain, TypeOK', NEW r \in Requests, Crash(r)
  PROVE  Chain'
  <1> USE RequestsAssumption DEF Tokens, Requests, Families, Presenters, Goto, ghosts
  <1>1. /\ pc[r] # "idle" /\ pc'[r] = "failed" /\ \A q \in Requests : q # r => pc'[q] = pc[q]
        /\ UNCHANGED <<state, family, given, raced>>
    BY DEF Crash, Running, TypeOK
  <1>2. \A f : Usable(f)' = Usable(f) /\ Rotating(f)' = Rotating(f) \ {r}
    BY <1>1 DEF Usable, Rotating
  <1>3. \A f : Doubled(f)' = Doubled(f)
    BY <1>1, SameDoubled
  <1>4. \A q \in raced : pc'[q] # "idle"
    BY <1>1 DEF Chain, TypeOK
  <1>5. CASE r \notin Refreshes \/ pc[r] # "rotate"
    <2>1. \A f : Free(f)' = Free(f)
      BY <1>1, <1>2, <1>5 DEF Free
    <2>2. QED
      BY <1>1, <1>2, <1>3, <1>4, <2>1, NoBranch DEF Branches
  <1>6. CASE r \in Refreshes /\ pc[r] = "rotate"
    <2> DEFINE g == family[given[r]]
    <2>1. r \in Rotating(g)
      BY <1>6 DEF Rotating
    <2>2. \A f : Free(f)' \subseteq IF f = g THEN Free(f) \cup {given[r]} ELSE Free(f)
      BY <1>1, <1>2 DEF Free, Usable
    <2>3. r \notin Free(g)
      BY <1>6 DEF Free, Usable, Lifecycle
    <2> SUFFICES ASSUME NEW f \in Families
                 PROVE  Cardinality(Branches(f)') <= 1 + Cardinality(Doubled(f)')
      BY <1>1, <1>4 DEF Chain
    <2>4. Cardinality(Branches(f)') <= Cardinality(Branches(f))
      <3>1. CASE f = g
        <4>1. Branches(f)' \subseteq (Branches(f) \ {r}) \cup {given[r]} /\ r \in Branches(f)
          BY <1>2, <2>1, <2>2, <2>3, <3>1 DEF Branches
        <4>2. QED
          BY <4>1, ChainFinite, Swapped
      <3>2. CASE f # g
        <4>1. Branches(f)' \subseteq Branches(f)
          BY <1>2, <2>2, <3>2 DEF Branches
        <4>2. QED
          BY <4>1, ChainFinite, FS_Subset
      <3>3. QED
        BY <3>1, <3>2
    <2>5. Branches(f)' \subseteq Requests
      BY DEF Branches, Free, Usable, Rotating
    <2>6. Cardinality(Branches(f)') \in Nat
      BY <2>5, FS_Subset, FS_CardinalityType
    <2>7. QED
      BY <1>3, <2>4, <2>6, ChainFinite DEF Chain
  <1>7. QED
    BY <1>5, <1>6

LEMMA ChainStep ==
  TypeOK /\ Lifecycle /\ Chain /\ [Next]_vars => Chain'
  <1> SUFFICES ASSUME TypeOK, Lifecycle, Chain, [Next]_vars PROVE Chain'
    OBVIOUS
  <1>T. TypeOK'
    BY LifecycleStep
  <1> USE RequestsAssumption, <1>T DEF Tokens, Requests, Families, Presenters, Running, Goto, ghosts
  \* A step that adds no usable token, begins no rotation and breaks none off.
  <1>1. ASSUME UNCHANGED <<raced, given, family>>,
               \A f : Usable(f)' \subseteq Usable(f) /\ Rotating(f)' \subseteq Rotating(f),
               \A r \in Refreshes : pc[r] = "rotate" =>
                    pc'[r] = "rotate" \/ state'[given[r]] # "live",
               \A r \in Requests : pc[r] # "idle" => pc'[r] # "idle"
        PROVE  Chain'
    <2>1. \A f : Free(f)' \subseteq Free(f)
      BY <1>1 DEF Free, Usable
    <2>2. \A f : Doubled(f)' = Doubled(f)
      BY <1>1, SameDoubled
    <2>3. \A r \in raced : pc'[r] # "idle"
      BY <1>1 DEF Chain, TypeOK
    <2>4. QED
      BY <1>1, <2>1, <2>2, <2>3, NoBranch DEF Branches
  <1>2. ASSUME NEW r \in Requests, NEW t \in Tokens, FindToken(r, t) PROVE Chain'
    BY <1>2, ChainFind
  <1>3. ASSUME NEW r \in Requests, NEW t \in Tokens, FindSession(r, t) PROVE Chain'
    <2>1. /\ r \in Logouts /\ \A q \in Refreshes : pc'[q] = pc[q] /\ given'[q] = given[q]
          /\ raced \subseteq Refreshes
          /\ UNCHANGED <<state, family, raced>>
      BY <1>3 DEF FindSession, TypeOK
    <2>2. \A f : Usable(f)' = Usable(f) /\ Rotating(f)' = Rotating(f)
      BY <2>1 DEF Usable, Rotating
    <2>3. \A f : Branches(f)' = Branches(f)
      BY <2>1, <2>2 DEF Branches, Free
    <2>4. \A f : Doubled(f)' = Doubled(f)
      BY <2>1, SameDoubled
    <2>5. \A q \in raced : pc'[q] # "idle"
      BY <2>1 DEF Chain
    <2>6. QED
      BY <2>1, <2>3, <2>4, <2>5, NoBranch
  <1>4. ASSUME NEW r \in Requests, RevokeOld(r) PROVE Chain'
    <2>1. /\ r \in Refreshes /\ pc[r] = "rotate" /\ given[r] \in Tokens
          /\ pc'[r] \in {"issue", "failed"} /\ \A q \in Requests : q # r => pc'[q] = pc[q]
          /\ state'[given[r]] # "live"
          /\ \A t \in Tokens : state'[t] = "live" => state[t] = "live"
          /\ UNCHANGED <<family, given, raced>>
      BY <1>4 DEF RevokeOld, Lifecycle, Issued, TypeOK
    <2>2. \A f : Usable(f)' \subseteq Usable(f) /\ Rotating(f)' \subseteq Rotating(f)
      BY <2>1 DEF Usable, Rotating
    <2>3. QED
      BY <1>1, <2>1, <2>2
  <1>5. ASSUME NEW r \in Requests, IssueToken(r) PROVE Chain'
    BY <1>5, ChainIssue
  <1>6. ASSUME NEW r \in Requests, Answer(r) PROVE Chain'
    <2>1. /\ pc[r] = "answer" /\ pc'[r] \in {"done", "failed"}
          /\ \A q \in Requests : q # r => pc'[q] = pc[q]
          /\ UNCHANGED <<state, family, given, raced>>
      BY <1>6 DEF Answer, TypeOK
    <2>2. \A f : Usable(f)' = Usable(f) /\ Rotating(f)' \subseteq Rotating(f)
      BY <2>1 DEF Usable, Rotating
    <2>3. QED
      BY <1>1, <2>1, <2>2
  <1>7. ASSUME NEW r \in Requests, Crash(r) PROVE Chain'
    BY <1>7, ChainCrash
  <1>8. ASSUME NEW r \in Requests, RevokeFamily(r) PROVE Chain'
    <2>1. /\ state' = RevokedFamily(family[given[r]]) /\ pc[r] = "revokeFamily"
          /\ pc'[r] \in {"done", "failed"} /\ \A q \in Requests : q # r => pc'[q] = pc[q]
          /\ UNCHANGED <<family, given, raced>>
      BY <1>8 DEF RevokeFamily, TypeOK
    <2>2. \A f : Usable(f)' \subseteq Usable(f) /\ Rotating(f)' \subseteq Rotating(f)
      BY <2>1 DEF Usable, Rotating, RevokedFamily
    <2>3. QED
      BY <1>1, <2>1, <2>2
  <1>9. ASSUME NEW t \in Tokens, Expire(t) \/ Purge(t) PROVE Chain'
    <2>1. /\ state' = state \/ state' = [state EXCEPT ![t] = "purged"]
          /\ UNCHANGED <<family, pc, given, raced>>
      BY <1>9 DEF Expire, Purge
    <2>2. \A f : Usable(f)' \subseteq Usable(f) /\ Rotating(f)' \subseteq Rotating(f)
      BY <2>1 DEF Usable, Rotating, TypeOK
    <2>3. QED
      BY <1>1, <2>1, <2>2
  <1>10. CASE Stop \/ UNCHANGED vars
    <2>1. UNCHANGED vars
      BY <1>10 DEF Stop
    <2>2. \A f : Usable(f)' \subseteq Usable(f) /\ Rotating(f)' \subseteq Rotating(f)
      BY <2>1 DEF vars, Usable, Rotating
    <2>3. QED
      BY <1>1, <2>1, <2>2 DEF vars
  <1>11. QED
    BY <1>2, <1>3, <1>4, <1>5, <1>6, <1>7, <1>8, <1>9, <1>10 DEF Next

LEMMA AlwaysChain == Spec => [](TypeOK /\ Lifecycle /\ Chain)
  BY ChainInit, ChainStep, AlwaysLifecycle, PTL DEF Spec

\* Every usable token is a branch, or it is being rotated and so has one.
LEMMA HeadsFew ==
  ASSUME TypeOK, Lifecycle, NEW f \in Families
  PROVE  Cardinality(Heads(f)) <= Cardinality(Branches(f))
  <1> USE RequestsAssumption DEF Tokens, Requests
  <1> DEFINE Rotates(q, t) == pc[q] = "rotate" /\ given[q] = t
             m == [h \in Heads(f) |-> IF h \in Branches(f) THEN h
                                     ELSE CHOOSE q \in Refreshes : Rotates(q, h)]
  <1>1. \A h \in Heads(f) \cap Branches(f) : m[h] = h /\ pc[h] # "rotate"
    BY DEF Heads, Usable, Lifecycle
  <1>2. ASSUME NEW h \in Heads(f), h \notin Branches(f)
        PROVE  m[h] \in Refreshes /\ Rotates(m[h], h) /\ m[h] \in Branches(f)
    <2>1. h \in Usable(f) /\ \E q \in Refreshes : Rotates(q, h)
      BY <1>2 DEF Heads, Branches, Free
    <2>2. m[h] \in Refreshes /\ Rotates(m[h], h)
      BY <1>2, <2>1
    <2>3. QED
      BY <2>1, <2>2 DEF Usable, Rotating, Branches
  <1>3. m \in [Heads(f) -> Branches(f)]
    BY <1>1, <1>2
  <1>4. ASSUME NEW h \in Heads(f), NEW i \in Heads(f), m[h] = m[i] PROVE h = i
    BY <1>1, <1>2, <1>4
  <1>5. m \in Injection(Heads(f), Branches(f))
    BY <1>3, <1>4 DEF Injection, IsInjective
  <1>6. QED
    BY <1>5, ChainFinite, FS_Injection

\* However many tabs refresh, retry and log out: a family has no more usable
\* tokens, those being issued included, than one and one for every refresh that
\* found its token live beside another.
THEOREM OneChain == Spec => []OneUsableToken
  <1>1. TypeOK /\ Lifecycle /\ Chain => OneUsableToken
    <2> SUFFICES ASSUME TypeOK, Lifecycle, Chain, NEW f \in Families
                 PROVE  Cardinality(Heads(f)) <= 1 + Cardinality({r \in raced : Serves(r, f)})
      BY DEF OneUsableToken
    <2>1. /\ Cardinality(Heads(f)) <= Cardinality(Branches(f))
          /\ Cardinality(Branches(f)) <= 1 + Cardinality(Doubled(f))
      BY HeadsFew DEF Chain
    <2>2. Cardinality(Heads(f)) \in Nat
      BY ChainFinite, FS_CardinalityType
    <2>3. QED
      BY <2>1, <2>2, ChainFinite DEF Doubled
  <1>2. QED
    BY AlwaysChain, <1>1, PTL
-----------------------------------------------------------------------------
(* An ended session, and an alarm.                                         *)

LEMMA ClosedInit == Init => Closed
  BY DEF Init, Closed

LEMMA ClosedStep ==
  TypeOK /\ Lifecycle /\ Closed /\ [Next]_vars => Closed'
  <1> SUFFICES ASSUME TypeOK, Lifecycle, Closed, [Next]_vars PROVE Closed'
    OBVIOUS
  <1> USE RequestsAssumption DEF Tokens, Requests, Families, Presenters, Running, Goto, ghosts
  \* A step that ends no family and starts no rotation in one that has ended.
  <1>1. ASSUME ended' = ended, overtaken' = overtaken,
               \A f \in ended \ overtaken : /\ Usable(f)' \subseteq Usable(f)
                                            /\ Rotating(f)' \subseteq Rotating(f),
               \A f \in Families : pc'[f] = "issue" => pc[f] = "issue"
        PROVE  Closed'
    BY <1>1 DEF Closed, TypeOK
  <1>2. ASSUME NEW r \in Requests, NEW t \in Tokens, FindToken(r, t) PROVE Closed'
    <2>1. /\ r \in Refreshes /\ t \in known /\ given' = [given EXCEPT ![r] = t]
          /\ pc'[r] \in {"rotate", "failed", "revokeFamily"}
          /\ pc'[r] = "rotate" => state[t] = "live"
          /\ \A q \in Requests : q # r => pc'[q] = pc[q] /\ given'[q] = given[q]
          /\ UNCHANGED <<state, family, ended, overtaken>>
      BY <1>2 DEF FindToken, TypeOK
    <2>2. ASSUME NEW f \in ended \ overtaken
          PROVE  Usable(f)' = Usable(f) /\ Rotating(f)' \subseteq Rotating(f)
      <3>1. Usable(f)' = Usable(f)
        BY <2>1 DEF Usable
      <3>2. r \notin Rotating(f)'
        BY <2>1, <2>2 DEF Closed, Rotating, Usable, TypeOK
      <3>3. QED
        BY <2>1, <3>1, <3>2 DEF Rotating
    <2>3. QED
      BY <1>1, <2>1, <2>2
  <1>3. ASSUME NEW r \in Requests, NEW t \in Tokens, FindSession(r, t) PROVE Closed'
    <2>1. /\ r \in Logouts /\ \A q \in Tokens : pc'[q] = pc[q] /\ given'[q] = given[q]
          /\ UNCHANGED <<state, family, ended, overtaken>>
      BY <1>3 DEF FindSession, TypeOK
    <2>2. \A f \in ended : Usable(f)' = Usable(f) /\ Rotating(f)' = Rotating(f)
      BY <2>1 DEF Usable, Rotating
    <2>3. QED
      BY <1>1, <2>1, <2>2
  <1>4. ASSUME NEW r \in Requests, RevokeOld(r) PROVE Closed'
    <2>1. /\ r \in Refreshes /\ pc[r] = "rotate"
          /\ state' = state \/ state' = [state EXCEPT ![given[r]] = "revoked"]
          /\ \A q \in Requests : q # r => pc'[q] = pc[q]
          /\ UNCHANGED <<family, given, ended, overtaken>>
      BY <1>4 DEF RevokeOld, TypeOK
    <2>2. \A f \in ended : Usable(f)' \subseteq Usable(f) /\ Rotating(f)' \subseteq Rotating(f)
      BY <2>1 DEF Usable, Rotating, TypeOK
    <2>3. QED
      BY <1>1, <2>1, <2>2
  <1>5. ASSUME NEW r \in Requests, IssueToken(r) PROVE Closed'
    <2> DEFINE g == IF r \in Logins THEN r ELSE family[given[r]]
    <2>1. /\ r \in Tokens /\ pc[r] = "issue" /\ state' = [state EXCEPT ![r] = "live"]
          /\ family' = [family EXCEPT ![r] = g] /\ pc' = [pc EXCEPT ![r] = "answer"]
          /\ UNCHANGED <<given, ended, overtaken>>
      BY <1>5 DEF IssueToken
    <2>2. r \in Logins \/ r \in Rotating(g)
      BY <2>1 DEF Rotating
    <2>3. g \notin ended \ overtaken
      BY <2>1, <2>2 DEF Closed
    <2>4. \A q \in Refreshes : pc[q] \in {"rotate", "issue"} =>
              family'[given[q]] = family[given[q]]
      BY <2>1 DEF Lifecycle, TypeOK
    <2>5. ASSUME NEW f \in ended \ overtaken
          PROVE  Usable(f)' \subseteq Usable(f) /\ Rotating(f)' \subseteq Rotating(f)
      <3>1. Usable(f)' \subseteq Usable(f)
        BY <2>1, <2>3, <2>5 DEF Usable, TypeOK
      <3>2. Rotating(f)' \subseteq Rotating(f)
        BY <2>1, <2>4 DEF Rotating, TypeOK
      <3>3. QED
        BY <3>1, <3>2
    <2>6. \A f \in Families : pc'[f] = "issue" => pc[f] = "issue"
      BY <2>1 DEF TypeOK
    <2>7. QED
      BY <1>1, <2>1, <2>5, <2>6
  <1>6. ASSUME NEW r \in Requests, Answer(r) \/ Crash(r) PROVE Closed'
    <2>1. /\ pc'[r] \in {"done", "failed"} /\ \A q \in Requests : q # r => pc'[q] = pc[q]
          /\ UNCHANGED <<state, family, given, ended, overtaken>>
      BY <1>6 DEF Answer, Crash, TypeOK
    <2>2. \A f \in ended : Usable(f)' = Usable(f) /\ Rotating(f)' \subseteq Rotating(f)
      BY <2>1 DEF Usable, Rotating
    <2>3. \A f \in Families : pc'[f] = "issue" => pc[f] = "issue"
      BY <2>1
    <2>4. QED
      BY <1>1, <2>1, <2>2, <2>3
  <1>7. ASSUME NEW r \in Requests, RevokeFamily(r) PROVE Closed'
    <2> DEFINE g == family[given[r]]
    <2>1. /\ r \in Presenters /\ given[r] \in known /\ state' = RevokedFamily(g)
          /\ ended' = ended \cup {g}
          /\ overtaken' = IF Rotating(g) # {} THEN overtaken \cup {g} ELSE overtaken \ {g}
          /\ pc'[r] \in {"done", "failed"} /\ \A q \in Requests : q # r => pc'[q] = pc[q]
          /\ UNCHANGED <<family, given>>
      BY <1>7 DEF RevokeFamily, Lifecycle, TypeOK
    <2>2. \A f \in Families : Rotating(f)' \subseteq Rotating(f)
      BY <2>1 DEF Rotating
    <2>3. \A f \in Families : Usable(f)' \subseteq Usable(f)
      BY <2>1 DEF Usable, RevokedFamily
    <2>4. Usable(g)' = {}
      BY <2>1 DEF Usable, RevokedFamily, Issued, TypeOK
    <2>5. g \in Families /\ pc[g] # "issue"
      BY <2>1 DEF Lifecycle, TypeOK
    <2>6. SUFFICES ASSUME NEW f \in ended' \ overtaken'
                   PROVE  Usable(f)' = {} /\ Rotating(f)' = {} /\ pc'[f] # "issue"
      BY DEF Closed
    <2>7. CASE f = g
      <3>1. Rotating(g) = {}
        BY <2>1, <2>6, <2>7
      <3>2. QED
        BY <2>1, <2>2, <2>4, <2>5, <2>7, <3>1
    <2>8. CASE f # g
      BY <2>1, <2>2, <2>3, <2>6, <2>8 DEF Closed, TypeOK
    <2>9. QED
      BY <2>7, <2>8
  <1>8. ASSUME NEW t \in Tokens, Expire(t) \/ Purge(t) PROVE Closed'
    <2>1. /\ state' = state \/ state' = [state EXCEPT ![t] = "purged"]
          /\ UNCHANGED <<family, pc, given, ended, overtaken>>
      BY <1>8 DEF Expire, Purge
    <2>2. \A f \in ended : Usable(f)' \subseteq Usable(f) /\ Rotating(f)' \subseteq Rotating(f)
      BY <2>1 DEF Usable, Rotating, TypeOK
    <2>3. QED
      BY <1>1, <2>1, <2>2
  <1>9. CASE Stop \/ UNCHANGED vars
    BY <1>9 DEF Stop, vars, Closed, Usable, Rotating
  <1>10. QED
    BY <1>2, <1>3, <1>4, <1>5, <1>6, <1>7, <1>8, <1>9 DEF Next

\* A session ended by logout or by reuse has no usable token ever again, unless
\* a rotation of it had passed its check before it was ended the last time.
THEOREM StaysEnded == Spec => []EndedStaysEnded
  <1>1. Closed => EndedStaysEnded
    BY DEF Closed, EndedStaysEnded
  <1>2. QED
    BY ClosedInit, ClosedStep, AlwaysLifecycle, <1>1, PTL DEF Spec
-----------------------------------------------------------------------------
AlarmInv == Caused /\ NoFalseAlarm

LEMMA AlarmInit == Init => AlarmInv
  BY RequestsAssumption
     DEF Init, AlarmInv, Caused, NoFalseAlarm, Requests, Tokens

\* What was presented stays presented, what was logged out stays so.
LEMMA AlarmsStay ==
  ASSUME TypeOK, Lifecycle, NEW f \in Families, Alarmed(f),
         \A r \in Requests : given[r] # NoToken => given'[r] = given[r],
         \A t \in known : family'[t] = family[t]
  PROVE  Alarmed(f)'
  <1> USE RequestsAssumption DEF Tokens, Requests, Families, Presenters
  <1>1. \A r \in Requests : given[r] \in Tokens =>
            given'[r] = given[r] /\ family'[given[r]] = family[given[r]]
    BY DEF Lifecycle
  <1>2. CASE PresentedTwice(f)
    <2>1. PICK q, r \in Refreshes : /\ q # r /\ given[q] = given[r]
                                    /\ given[q] \in Tokens /\ family[given[q]] = f
      BY <1>2 DEF PresentedTwice
    <2>2. QED
      BY <1>1, <2>1 DEF Alarmed, PresentedTwice
  <1>3. CASE LoggedOut(f)
    <2>1. PICK o \in Logouts : given[o] \in Tokens /\ family[given[o]] = f
      BY <1>3 DEF LoggedOut
    <2>2. QED
      BY <1>1, <2>1 DEF Alarmed, LoggedOut
  <1>4. QED
    BY <1>2, <1>3 DEF Alarmed

LEMMA AlarmStep ==
  TypeOK /\ Lifecycle /\ AlarmInv /\ [Next]_vars => AlarmInv'
  <1> SUFFICES ASSUME TypeOK, Lifecycle, AlarmInv, [Next]_vars PROVE AlarmInv'
    OBVIOUS
  <1> USE RequestsAssumption DEF Tokens, Requests, Families, Presenters, Running, Goto, ghosts
  <1>1. NoFalseAlarm <=> \A r \in Refreshes : pc[r] = "revokeFamily" => Alarmed(family[given[r]])
    BY DEF NoFalseAlarm, Alarmed
  \* A step that revokes no token and begins no revocation.
  <1>2. ASSUME \A r \in Requests : given[r] # NoToken => given'[r] = given[r],
               \A t \in known : family'[t] = family[t],
               \A t \in Tokens : state'[t] = "revoked" =>
                   state[t] = "revoked" /\ family'[t] = family[t],
               \A r \in Refreshes : pc'[r] = "revokeFamily" => pc[r] = "revokeFamily"
        PROVE  AlarmInv'
    <2>1. ASSUME NEW t \in Tokens, state'[t] = "revoked"
          PROVE  (\E q \in Refreshes : given'[q] = t) \/ Alarmed(family[t])'
      <3>1. state[t] = "revoked" /\ family'[t] = family[t] /\ family[t] \in Families
        BY <1>2, <2>1 DEF TypeOK, Issued
      <3>2. CASE \E q \in Refreshes : given[q] = t
        BY <1>2, <3>2
      <3>3. CASE Alarmed(family[t])
        BY <1>2, <3>1, <3>3, AlarmsStay
      <3>4. QED
        BY <3>1, <3>2, <3>3 DEF AlarmInv, Caused
    <2>2. ASSUME NEW r \in Refreshes, pc'[r] = "revokeFamily"
          PROVE  Alarmed(family[given[r]])'
      <3>1. /\ pc[r] = "revokeFamily" /\ given[r] \in known /\ given'[r] = given[r]
            /\ family'[given[r]] = family[given[r]] /\ family[given[r]] \in Families
        BY <1>2, <2>2 DEF Lifecycle, TypeOK
      <3>2. Alarmed(family[given[r]])
        BY <1>1, <3>1 DEF AlarmInv
      <3>3. QED
        BY <1>2, <3>1, <3>2, AlarmsStay
    <2>3. QED
      BY <2>1, <2>2 DEF AlarmInv, Caused, NoFalseAlarm, Alarmed
  <1>3. ASSUME NEW r \in Requests, NEW t \in Tokens, FindToken(r, t) PROVE AlarmInv'
    <2>1. /\ r \in Refreshes /\ pc[r] = "idle" /\ given[r] = NoToken /\ t \in known
          /\ given' = [given EXCEPT ![r] = t]
          /\ \A q \in Requests : q # r => pc'[q] = pc[q]
          /\ pc'[r] = "revokeFamily" => state[t] = "revoked"
          /\ UNCHANGED <<state, family, known>>
      BY <1>3 DEF FindToken, Lifecycle, TypeOK
    <2>2. given'[r] = t /\ \A q \in Requests : q # r => given'[q] = given[q]
      BY <2>1 DEF TypeOK
    <2>3. CASE pc'[r] # "revokeFamily"
      BY <1>2, <2>1, <2>2, <2>3
    <2>4. CASE pc'[r] = "revokeFamily"
      <3>1. state[t] = "revoked" /\ family[t] \in Families
        BY <2>1, <2>4 DEF Lifecycle
      <3>2. Alarmed(family[t])'
        <4>1. CASE \E q \in Refreshes : given[q] = t
          <5>1. PICK q \in Refreshes : given[q] = t
            BY <4>1
          <5>2. q # r /\ given'[q] = t
            BY <2>1, <2>2, <5>1 DEF TypeOK
          <5>3. PresentedTwice(family[t])'
            BY <2>1, <2>2, <5>2 DEF PresentedTwice
          <5>4. QED
            BY <5>3 DEF Alarmed
        <4>2. CASE Alarmed(family[t])
          BY <2>1, <2>2, <3>1, <4>2, AlarmsStay
        <4>3. QED
          BY <3>1, <4>1, <4>2 DEF AlarmInv, Caused
      <3>3. ASSUME NEW u \in Tokens, state'[u] = "revoked"
            PROVE  (\E q \in Refreshes : given'[q] = u) \/ Alarmed(family[u])'
        <4>1. state[u] = "revoked" /\ family[u] \in Families
          BY <2>1, <3>3 DEF TypeOK, Issued
        <4>2. CASE \E q \in Refreshes : given[q] = u
          BY <2>1, <2>2, <4>2
        <4>3. CASE Alarmed(family[u])
          BY <2>1, <2>2, <4>1, <4>3, AlarmsStay
        <4>4. QED
          BY <4>1, <4>2, <4>3 DEF AlarmInv, Caused
      <3>4. ASSUME NEW q \in Refreshes, pc'[q] = "revokeFamily"
            PROVE  Alarmed(family[given[q]])'
        <4>1. CASE q = r
          BY <2>1, <2>2, <3>2, <4>1 DEF Alarmed, PresentedTwice, LoggedOut
        <4>2. CASE q # r
          <5>1. /\ pc[q] = "revokeFamily" /\ given[q] \in known /\ given'[q] = given[q]
                /\ family[given[q]] \in Families
            BY <2>1, <2>2, <3>4, <4>2 DEF Lifecycle
          <5>2. Alarmed(family[given[q]])
            BY <1>1, <5>1 DEF AlarmInv
          <5>3. Alarmed(family[given[q]])'
            BY <2>1, <2>2, <5>1, <5>2, AlarmsStay
          <5>4. QED
            BY <5>3
        <4>3. QED
          BY <4>1, <4>2
      <3>5. QED
        BY <3>3, <3>4 DEF AlarmInv, Caused, NoFalseAlarm, Alarmed
    <2>5. QED
      BY <2>3, <2>4
  <1>4. ASSUME NEW r \in Requests, NEW t \in Tokens, FindSession(r, t) PROVE AlarmInv'
    <2>1. /\ r \in Logouts /\ given[r] = NoToken /\ given' = [given EXCEPT ![r] = t]
          /\ \A q \in Refreshes : pc'[q] = pc[q]
          /\ UNCHANGED <<state, family>>
      BY <1>4 DEF FindSession, Lifecycle, TypeOK
    <2>2. QED
      BY <1>2, <2>1 DEF TypeOK
  <1>5. ASSUME NEW r \in Requests, RevokeOld(r) PROVE AlarmInv'
    <2>1. /\ r \in Refreshes
          /\ state' = state \/ state' = [state EXCEPT ![given[r]] = "revoked"]
          /\ \A q \in Requests : pc'[q] = "revokeFamily" => pc[q] = "revokeFamily"
          /\ UNCHANGED <<family, given>>
      BY <1>5 DEF RevokeOld, TypeOK
    <2>2. ASSUME NEW t \in Tokens, state'[t] = "revoked"
          PROVE  (\E q \in Refreshes : given'[q] = t) \/ Alarmed(family[t])'
      <3>1. CASE t = given[r]
        BY <2>1, <3>1
      <3>2. CASE t # given[r]
        <4>1. state[t] = "revoked"
          BY <2>1, <2>2, <3>2 DEF TypeOK
        <4>2. QED
          BY <2>1, <4>1 DEF AlarmInv, Caused, Alarmed, PresentedTwice, LoggedOut
      <3>3. QED
        BY <3>1, <3>2
    <2>3. NoFalseAlarm'
      BY <2>1 DEF AlarmInv, NoFalseAlarm, PresentedTwice, LoggedOut
    <2>4. QED
      BY <2>2, <2>3 DEF AlarmInv, Caused
  <1>6. ASSUME NEW r \in Requests, IssueToken(r) PROVE AlarmInv'
    <2>1. /\ r \in Tokens /\ r \notin known /\ state' = [state EXCEPT ![r] = "live"]
          /\ \A t \in Tokens : t # r => family'[t] = family[t]
          /\ pc' = [pc EXCEPT ![r] = "answer"] /\ UNCHANGED given
      BY <1>6 DEF IssueToken, Lifecycle, TypeOK
    <2>2. QED
      BY <1>2, <2>1 DEF TypeOK
  <1>7. ASSUME NEW r \in Requests, Answer(r) \/ Crash(r) PROVE AlarmInv'
    <2>1. /\ pc'[r] \in {"done", "failed"} /\ \A q \in Requests : q # r => pc'[q] = pc[q]
          /\ UNCHANGED <<state, family, given>>
      BY <1>7 DEF Answer, Crash, TypeOK
    <2>2. QED
      BY <1>2, <2>1
  <1>8. ASSUME NEW r \in Requests, RevokeFamily(r) PROVE AlarmInv'
    <2> DEFINE g == family[given[r]]
    <2>1. /\ r \in Presenters /\ pc[r] = "revokeFamily" /\ given[r] \in known
          /\ given[r] \in Tokens /\ state' = RevokedFamily(g)
          /\ pc'[r] \in {"done", "failed"} /\ \A q \in Requests : q # r => pc'[q] = pc[q]
          /\ UNCHANGED <<family, given>>
      BY <1>8 DEF RevokeFamily, Lifecycle, TypeOK
    <2>2. Alarmed(g)
      BY <1>1, <2>1 DEF AlarmInv, Alarmed, LoggedOut
    <2>3. \A f : Alarmed(f)' = Alarmed(f)
      BY <2>1 DEF Alarmed, PresentedTwice, LoggedOut
    <2>4. \A t \in Tokens : state'[t] = "revoked" => state[t] = "revoked" \/ family[t] = g
      BY <2>1 DEF RevokedFamily
    <2>5. Caused'
      BY <2>1, <2>2, <2>3, <2>4 DEF AlarmInv, Caused
    <2>6. NoFalseAlarm'
      BY <2>1 DEF AlarmInv, NoFalseAlarm, PresentedTwice, LoggedOut
    <2>7. QED
      BY <2>5, <2>6 DEF AlarmInv
  <1>9. ASSUME NEW t \in Tokens, Expire(t) \/ Purge(t) PROVE AlarmInv'
    <2>1. /\ state' = state \/ state' = [state EXCEPT ![t] = "purged"]
          /\ UNCHANGED <<family, pc, given>>
      BY <1>9 DEF Expire, Purge
    <2>2. QED
      BY <1>2, <2>1 DEF TypeOK
  <1>10. CASE Stop \/ UNCHANGED vars
    BY <1>2, <1>10 DEF Stop, vars
  <1>11. QED
    BY <1>3, <1>4, <1>5, <1>6, <1>7, <1>8, <1>9, <1>10 DEF Next

\* Whatever other sessions do and however calls fail, a refresh is told that
\* its session was reused only if a token of the family was presented twice or
\* somebody logged out.
THEOREM AlarmsAreTrue == Spec => []NoFalseAlarm
  <1>1. AlarmInv => NoFalseAlarm
    BY DEF AlarmInv
  <1>2. QED
    BY AlarmInit, AlarmStep, AlwaysLifecycle, <1>1, PTL DEF Spec

-----------------------------------------------------------------------------
(* A session is not lost without a cause.                                  *)

\* No token of family f has outlived its time.
Unexpired(f) == \A t \in Tokens : state[t] # "none" /\ family[t] = f => t \notin expired

\* What a token in the collection tells of the request that issued it.
Lineage ==
    /\ \A t \in Tokens : state[t] # "none" => pc[t] \in {"answer", "done", "failed"}
    /\ \A t \in Tokens : pc[t] \in {"answer", "done"} => state[t] # "none"
    /\ \A t \in Tokens : pc[t] = "done" => t \in known
    /\ \A t \in Refreshes : state[t] # "none" =>
          given[t] \in known /\ family[t] = family[given[t]]

\* The chain of a session that nobody ended has a usable head, unless a
\* refresh is between the two writes or died there.
Continued ==
    \A f \in Families \ ended : state[f] # "none" /\ Unexpired(f) =>
        \/ Usable(f) # {}
        \/ \E r \in Refreshes : Serves(r, f) /\ pc[r] \in {"issue", "failed"}

\* As long as no token of a session expired, nobody ended it and none of its
\* refreshes failed, its client holds a usable token or is about to be sent
\* one: rotations and their races alone never log anybody out.
SessionContinues ==
    \A f \in (known \cap Families) \ ended :
        /\ Unexpired(f)
        /\ \A r \in Refreshes : Serves(r, f) => pc[r] # "failed"
        => \/ \E t \in known : t \in Usable(f)
           \/ \E r \in Refreshes : Serves(r, f) /\ pc[r] \in {"issue", "answer"}

\* A token that was revoked or purged is never usable again.
RevokedForGood ==
    \A t \in Tokens : state[t] \in {"revoked", "purged"} =>
        state'[t] \in {"revoked", "purged"}

LEMMA LineageStep ==
  TypeOK /\ Lifecycle /\ Lineage /\ [Next]_vars => Lineage'
  <1> SUFFICES ASSUME TypeOK, Lifecycle, Lineage, [Next]_vars PROVE Lineage'
    OBVIOUS
  <1> USE RequestsAssumption DEF Lineage, TypeOK, Tokens, Requests, Goto, Issued
  <1>1. ASSUME NEW r \in Requests, NEW t \in Tokens, FindToken(r, t) PROVE Lineage'
    <2>1. /\ r \in Refreshes /\ state[r] = "none" /\ pc'[r] \in {"failed", "revokeFamily", "rotate"}
          /\ \A q \in Requests : q # r => pc'[q] = pc[q] /\ given'[q] = given[q]
          /\ UNCHANGED <<state, family, known>>
      BY <1>1 DEF FindToken, Lifecycle
    <2>2. QED
      BY <2>1
  <1>2. ASSUME NEW r \in Requests, NEW t \in Tokens, FindSession(r, t) PROVE Lineage'
    <2>1. /\ r \notin Tokens
          /\ \A q \in Requests : q # r => pc'[q] = pc[q] /\ given'[q] = given[q]
          /\ UNCHANGED <<state, family, known>>
      BY <1>2 DEF FindSession
    <2>2. QED
      BY <2>1
  <1>3. ASSUME NEW r \in Requests, RevokeOld(r) PROVE Lineage'
    <2>1. /\ r \in Refreshes /\ state[r] = "none" /\ pc'[r] \in {"issue", "failed"}
          /\ \A q \in Requests : q # r => pc'[q] = pc[q]
          /\ UNCHANGED <<given, family, known>>
      BY <1>3 DEF RevokeOld, Lifecycle
    <2>2. \A t \in Tokens : state'[t] # "none" <=> state[t] # "none"
      BY <1>3 DEF RevokeOld
    <2>3. QED
      BY <2>1, <2>2
  <1>4. ASSUME NEW r \in Requests, IssueToken(r) PROVE Lineage'
    <2>1. /\ r \in Tokens /\ r \notin known /\ pc' = [pc EXCEPT ![r] = "answer"]
          /\ state' = [state EXCEPT ![r] = "live"]
          /\ family' = [family EXCEPT ![r] = IF r \in Logins THEN r ELSE family[given[r]]]
          /\ r \in Refreshes => given[r] \in known
          /\ UNCHANGED <<given, known>>
      BY <1>4 DEF IssueToken, Lifecycle, Presenters
    <2>2. \A t \in Refreshes : t # r /\ state[t] # "none" => given[t] # r
      BY <2>1
    <2>3. \A t \in Refreshes : state'[t] # "none" =>
             given'[t] \in known' /\ family'[t] = family'[given'[t]]
      BY <2>1, <2>2
    <2>4. QED
      BY <2>1, <2>3
  <1>5. ASSUME NEW r \in Requests, Answer(r) PROVE Lineage'
    BY <1>5 DEF Answer
  <1>6. ASSUME NEW r \in Requests, RevokeFamily(r) PROVE Lineage'
    <2>1. /\ \A t \in Tokens : state'[t] # "none" <=> state[t] # "none"
          /\ UNCHANGED <<given, family, known>>
      BY <1>6 DEF RevokeFamily, RevokedFamily
    <2>2. /\ pc[r] = "revokeFamily" /\ \A q \in Requests : q # r => pc'[q] = pc[q]
          /\ r \in Tokens => pc'[r] = "failed"
      BY <1>6 DEF RevokeFamily
    <2>3. QED
      BY <2>1, <2>2
  <1>7. ASSUME NEW r \in Requests, Crash(r) PROVE Lineage'
    BY <1>7 DEF Crash, Running
  <1>8. ASSUME NEW t \in Tokens, Expire(t) \/ Purge(t) PROVE Lineage'
    BY <1>8 DEF Expire, Purge
  <1>9. CASE Stop \/ UNCHANGED vars
    BY <1>9 DEF Stop, vars
  <1>10. QED
    BY <1>1, <1>2, <1>3, <1>4, <1>5, <1>6, <1>7, <1>8, <1>9 DEF Next

LEMMA ContinuedStep ==
  TypeOK /\ Lifecycle /\ Continued /\ [Next]_vars => Continued'
  <1> SUFFICES ASSUME TypeOK, Lifecycle, Continued, [Next]_vars,
                      NEW f \in Families, f \notin ended', state'[f] # "none", Unexpired(f)'
               PROVE  \/ Usable(f)' # {}
                      \/ \E r \in Refreshes : Serves(r, f)' /\ pc'[r] \in {"issue", "failed"}
    BY DEF Continued
  <1> DEFINE Goal == \/ Usable(f)' # {}
                     \/ \E r \in Refreshes : Serves(r, f)' /\ pc'[r] \in {"issue", "failed"}
  <1> USE RequestsAssumption DEF TypeOK, Tokens, Requests, Families
  \* A step that issues nothing, revokes nothing of f, and sets no refresh back.
  <1>1. ASSUME ended \subseteq ended', expired \subseteq expired', UNCHANGED family,
               \A t \in Tokens : state[t] = "none" <=> state'[t] = "none",
               \A t \in Tokens : state[t] = "live" /\ family[t] = f => state'[t] = "live",
               \A r \in Refreshes : pc[r] \in {"issue", "failed"} =>
                                        given'[r] = given[r] /\ pc'[r] \in {"issue", "failed"}
        PROVE  Goal
    <2>1. f \notin ended /\ state[f] # "none" /\ Unexpired(f)
      BY <1>1 DEF Unexpired
    <2>2. CASE Usable(f) # {}
      BY <1>1, <2>2 DEF Usable
    <2>3. ASSUME NEW r \in Refreshes, Serves(r, f), pc[r] \in {"issue", "failed"}
          PROVE  Goal
      BY <1>1, <2>3 DEF Serves
    <2>4. QED
      BY <2>1, <2>2, <2>3 DEF Continued
  <1> HIDE DEF Goal
  <1>2. ASSUME NEW r \in Requests, NEW t \in Tokens, FindToken(r, t) \/ FindSession(r, t)
        PROVE  Goal
    <2>1. /\ pc[r] = "idle" /\ \A q \in Requests : q # r => pc'[q] = pc[q] /\ given'[q] = given[q]
          /\ UNCHANGED <<state, family, ended, expired>>
      BY <1>2 DEF FindToken, FindSession, Goto, ghosts
    <2>2. QED
      BY <1>1, <2>1
  <1>3. ASSUME NEW r \in Requests, RevokeOld(r) PROVE Goal
    <2>1. /\ r \in Refreshes /\ given[r] \in known /\ given[r] \in Tokens
          /\ pc'[r] \in {"issue", "failed"} /\ \A q \in Requests : q # r => pc'[q] = pc[q]
          /\ UNCHANGED <<given, family, ended, expired>>
      BY <1>3 DEF RevokeOld, Goto, ghosts, Lifecycle, Presenters
    <2>2. CASE family[given[r]] = f
      BY <2>1, <2>2 DEF Goal, Serves
    <2>3. CASE family[given[r]] # f
      <3>1. /\ \A t \in Tokens : state[t] = "none" <=> state'[t] = "none"
            /\ \A t \in Tokens : family[t] = f => state'[t] = state[t]
        BY <1>3, <2>3 DEF RevokeOld, Issued
      <3>2. QED
        BY <1>1, <2>1, <3>1
    <2>4. QED
      BY <2>2, <2>3
  <1>4. ASSUME NEW r \in Requests, IssueToken(r) PROVE Goal
    <2> DEFINE g == IF r \in Logins THEN r ELSE family[given[r]]
    <2>1. /\ r \in Tokens /\ pc[r] = "issue" /\ state[r] = "none" /\ r \notin known
          /\ state' = [state EXCEPT ![r] = "live"] /\ pc' = [pc EXCEPT ![r] = "answer"]
          /\ family' = [family EXCEPT ![r] = g]
          /\ UNCHANGED <<given, ended, expired>>
      BY <1>4 DEF IssueToken, Goto, ghosts, Lifecycle
    <2>2. CASE g = f
      <3>1. r \in Usable(f)'
        BY <2>1, <2>2 DEF Usable
      <3>2. QED
        BY <3>1 DEF Goal
    <2>3. CASE g # f
      <3>1. f # r /\ f \notin ended /\ state[f] # "none"
        BY <2>1, <2>3
      <3>2. Unexpired(f)
        BY <2>1 DEF Unexpired
      <3>3. Usable(f) \subseteq Usable(f)'
        BY <2>1 DEF Usable
      <3>4. ASSUME NEW q \in Refreshes, Serves(q, f), pc[q] \in {"issue", "failed"}
            PROVE  Serves(q, f)' /\ pc'[q] \in {"issue", "failed"}
        <4>1. given[q] \in Tokens /\ family[given[q]] = f
          BY <3>4 DEF Serves
        <4>2. given[q] \in known
          BY <4>1 DEF Lifecycle
        <4>3. q # r
          BY <2>1, <2>3, <3>4, <4>1
        <4>4. QED
          BY <2>1, <3>4, <4>1, <4>2, <4>3 DEF Serves
      <3>5. QED
        BY <3>1, <3>2, <3>3, <3>4 DEF Goal, Continued
    <2>4. QED
      BY <2>2, <2>3
  <1>5. ASSUME NEW r \in Requests, Answer(r) \/ Crash(r) PROVE Goal
    BY <1>1, <1>5 DEF Answer, Crash, Goto, ghosts, Running
  <1>6. ASSUME NEW r \in Requests, RevokeFamily(r) PROVE Goal
    <2>1. family[given[r]] # f
      BY <1>6 DEF RevokeFamily
    <2>2. /\ \A t \in Tokens : state[t] = "none" <=> state'[t] = "none"
          /\ \A t \in Tokens : family[t] = f => state'[t] = state[t]
      BY <1>6, <2>1 DEF RevokeFamily, RevokedFamily, Issued
    <2>3. /\ pc[r] = "revokeFamily" /\ \A q \in Requests : q # r => pc'[q] = pc[q]
          /\ ended \subseteq ended' /\ UNCHANGED <<given, family, expired>>
      BY <1>6 DEF RevokeFamily, Goto
    <2>4. QED
      BY <1>1, <2>2, <2>3
  <1>7. ASSUME NEW t \in Tokens, Expire(t) PROVE Goal
    BY <1>1, <1>7 DEF Expire, ghosts
  <1>8. ASSUME NEW t \in Tokens, Purge(t) PROVE Goal
    <2>1. t \in expired /\ Issued(t) /\ state' = [state EXCEPT ![t] = "purged"]
          /\ UNCHANGED <<expired, family, pc, given, ended>>
      BY <1>8 DEF Purge, ghosts
    <2>2. family[t] # f
      BY <2>1 DEF Unexpired
    <2>3. QED
      BY <1>1, <2>1, <2>2 DEF Issued
  <1>9. ASSUME Stop \/ UNCHANGED vars PROVE Goal
    <2>1. UNCHANGED <<state, expired, family, pc, given, ended>>
      BY <1>9 DEF Stop, vars
    <2>2. QED
      BY <1>1, <2>1
  <1> HIDE DEF TypeOK, Tokens, Requests, Families
  <1>10. Goal
    BY <1>2, <1>3, <1>4, <1>5, <1>6, <1>7, <1>8, <1>9 DEF Next
  <1>11. QED
    BY <1>10 DEF Goal

\* Nobody is logged out by rotation: a session ends by a logout, by reuse, by
\* its age, or by a refresh that failed under way.
THEOREM SessionsContinue == Spec => []SessionContinues
  <1>1. Init => Lineage /\ Continued
    BY RequestsAssumption DEF Init, Lineage, Continued, Tokens, Requests, Families
  <1>2. TypeOK /\ Lifecycle /\ Lineage /\ Continued => SessionContinues
    <2> SUFFICES ASSUME TypeOK, Lifecycle, Lineage, Continued,
                        NEW f \in known \cap Families, f \notin ended, Unexpired(f),
                        \A r \in Refreshes : Serves(r, f) => pc[r] # "failed"
                 PROVE  \/ \E t \in known : t \in Usable(f)
                        \/ \E r \in Refreshes : Serves(r, f) /\ pc[r] \in {"issue", "answer"}
      BY DEF SessionContinues
    <2>1. state[f] # "none"
      BY DEF Lifecycle, Lineage, TypeOK
    <2>2. ASSUME NEW t \in Usable(f), t \notin known
          PROVE  \E r \in Refreshes : Serves(r, f) /\ pc[r] = "answer"
      <3>1. t \in Tokens /\ state[t] # "none" /\ family[t] = f
        BY <2>2 DEF Usable
      <3>2. pc[t] \in {"answer", "failed"}
        BY <2>2, <3>1 DEF Lineage
      <3>3. t \in Refreshes
        BY <2>2, <3>1 DEF Lifecycle, Tokens
      <3>4. Serves(t, f)
        BY <3>1, <3>3 DEF Lineage, Serves, TypeOK
      <3>5. QED
        BY <3>2, <3>3, <3>4
    <2>3. QED
      BY <2>1, <2>2 DEF Continued
  <1>3. QED
    BY <1>1, <1>2, LineageStep, ContinuedStep, AlwaysLifecycle, PTL DEF Spec

\* What was revoked stays so: neither a late save of another request nor a
\* rotation brings a token back.
THEOREM RevocationLasts == Spec => [][RevokedForGood]_vars
  <1>1. TypeOK /\ Lifecycle /\ [Next]_vars => [RevokedForGood]_vars
    <2> SUFFICES ASSUME TypeOK, Lifecycle, [Next]_vars, NEW t \in Tokens,
                        state[t] \in {"revoked", "purged"}
                 PROVE  state'[t] \in {"revoked", "purged"}
      BY DEF RevokedForGood
    <2>1. ASSUME NEW r \in Requests, RevokeOld(r) \/ IssueToken(r) \/ RevokeFamily(r)
          PROVE  state'[t] \in {"revoked", "purged"}
      BY <2>1 DEF RevokeOld, IssueToken, RevokeFamily, RevokedFamily, Issued, Lifecycle, TypeOK
    <2>2. ASSUME NEW u \in Tokens, Purge(u) PROVE state'[t] \in {"revoked", "purged"}
      BY <2>2 DEF Purge, TypeOK
    <2>3. QED
      BY <2>1, <2>2 DEF Next, FindToken, FindSession, Answer, Crash, Expire, Stop, vars
  <1>2. QED
    BY <1>1, AlwaysLifecycle, PTL DEF Spec
=============================================================================
