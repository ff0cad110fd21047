--------------------------- MODULE RefreshTokens ---------------------------
(***************************************************************************)
(* Refresh-token rotation with reuse detection: AuthService.login, refresh,*)
(* logout and issueTokenPair (auth/auth.service.ts) over the refreshTokens *)
(* collection (database/schemas/refresh-token.schema.ts).                  *)
(*                                                                         *)
(* A login starts a rotation family; every refresh revokes the token it was*)
(* given and issues the next one of the family.  A token is named by the   *)
(* request that issues it, a family by its login.  Each await of a handler *)
(* is a step, so that two tabs of one client, a client that retries a call *)
(* whose answer it lost, and a logout may run into each other.             *)
(***************************************************************************)
EXTENDS Naturals, FiniteSets

CONSTANTS
    Logins,         \* signup, login or OAuth requests that passed their checks
    Refreshes,      \* POST /auth/refresh requests
    Logouts,        \* POST /auth/logout requests
    NoToken         \* none of them

Tokens   == Logins \cup Refreshes
Requests == Tokens \cup Logouts
Families == Logins

ASSUME RequestsAssumption ==
    /\ Logins \cap Refreshes = {} /\ Tokens \cap Logouts = {}
    /\ NoToken \notin Tokens /\ IsFiniteSet(Requests)

VARIABLES
    state,          \* state[t]: of token t's document
    expired,        \* tokens whose expiresAt has passed
    family,         \* family[t], once t is issued
    pc,             \* where each request is
    given,          \* given[r]: the token a refresh or logout carries
    known,          \* tokens whose answer reached the client
    raced,          \* auxiliary: refreshes that found their token live when another
                    \* had found it so and not yet revoked it
    ended,          \* auxiliary: families revoked as a whole
    overtaken       \* auxiliary: those of them with a rotation in flight when that
                    \* last happened

vars == <<state, expired, family, pc, given, known, raced, ended, overtaken>>
ghosts == <<raced, ended, overtaken>>

Issued(t) == state[t] \in {"live", "revoked"}

Usable(f) == {t \in Tokens : state[t] = "live" /\ family[t] = f}

\* The refreshes of family f that have found their token live.
Rotating(f) == {r \in Refreshes : /\ pc[r] \in {"rotate", "issue"}
                                  /\ family[given[r]] = f}

Goto(r, l) == pc' = [pc EXCEPT ![r] = l]

Init ==
    /\ state = [t \in Tokens |-> "none"]
    /\ expired = {}
    /\ family = [t \in Tokens |-> IF t \in Logins THEN t ELSE NoToken]
    /\ pc = [r \in Requests |-> IF r \in Logins THEN "issue" ELSE "idle"]
    /\ given = [r \in Requests |-> NoToken]
    /\ known = {} /\ raced = {} /\ ended = {} /\ overtaken = {}

-----------------------------------------------------------------------------
(* refresh.                                                                *)

\* Mutant: a revoked token is refused, and that is all.
RefuseRevoked(r, t) ==
    /\ r \in Refreshes /\ pc[r] = "idle" /\ t \in known
    /\ given' = [given EXCEPT ![r] = t]
    /\ IF state[t] = "live" /\ t \notin expired THEN Goto(r, "rotate") ELSE Goto(r, "failed")
    /\ ended' = IF state[t] = "revoked" THEN ended \cup {family[t]} ELSE ended
    /\ UNCHANGED <<state, expired, family, known, raced, overtaken>>

\* findOne by the token's hash and the three checks on what it returns.
FindToken(r, t) ==
    /\ r \in Refreshes /\ pc[r] = "idle" /\ t \in known
    /\ given' = [given EXCEPT ![r] = t]
    /\ \/ /\ ~Issued(t)                                    \* purged
          /\ Goto(r, "failed") /\ UNCHANGED raced
       \/ /\ state[t] = "revoked"                          \* reuse
          /\ Goto(r, "revokeFamily") /\ UNCHANGED raced
       \/ /\ state[t] = "live" /\ t \in expired
          /\ Goto(r, "failed") /\ UNCHANGED raced
       \/ /\ state[t] = "live" /\ t \notin expired
          /\ Goto(r, "rotate")
          /\ raced' = IF \E q \in Refreshes : pc[q] = "rotate" /\ given[q] = t
                      THEN raced \cup {r} ELSE raced
    /\ UNCHANGED <<state, expired, family, known, ended, overtaken>>

\* Mutant: the old token is not revoked.
KeepToken(r) ==
    /\ r \in Refreshes /\ pc[r] = "rotate"
    /\ Goto(r, "issue")
    /\ UNCHANGED <<state, expired, family, given, known, ghosts>>

\* existing.revoked = true, saved by _id whatever became of it since; a
\* document that the TTL index has purged meanwhile is an error.
RevokeOld(r) ==
    /\ r \in Refreshes /\ pc[r] = "rotate"
    /\ \/ /\ Issued(given[r])
          /\ state' = [state EXCEPT ![given[r]] = "revoked"]
          /\ Goto(r, "issue")
       \/ /\ ~Issued(given[r])
          /\ Goto(r, "failed") /\ UNCHANGED state
    /\ UNCHANGED <<expired, family, given, known, ghosts>>

\* Mutant: refresh does not pass its family on, so a new one begins.
IssueAlone(r) ==
    /\ r \in Tokens /\ pc[r] = "issue"
    /\ state' = [state EXCEPT ![r] = "live"]
    /\ family' = [family EXCEPT ![r] = r]
    /\ Goto(r, "answer")
    /\ UNCHANGED <<expired, given, known, ghosts>>

\* issueTokenPair: refreshTokenModel.create in the family of the old token,
\* or in a new one for a login.
IssueToken(r) ==
    /\ r \in Tokens /\ pc[r] = "issue"
    /\ state' = [state EXCEPT ![r] = "live"]
    /\ family' = [family EXCEPT ![r] = IF r \in Logins THEN r ELSE family[given[r]]]
    /\ Goto(r, "answer")
    /\ UNCHANGED <<expired, given, known, ghosts>>

\* user.save of the session marker, then the answer: it may fail, and the
\* answer may be lost; the token is in the database all the same.
Answer(r) ==
    /\ r \in Tokens /\ pc[r] = "answer"
    /\ \/ Goto(r, "done") /\ known' = known \cup {r}
       \/ Goto(r, "failed") /\ UNCHANGED known
    /\ UNCHANGED <<state, expired, family, given, ghosts>>

-----------------------------------------------------------------------------
(* The whole family, on reuse and on logout.                               *)

\* Mutant: updateMany by userId takes the user's other sessions along.
RevokeUser(f) == [t \in Tokens |-> IF Issued(t) THEN "revoked" ELSE state[t]]

\* updateMany({family}, {revoked: true}).
RevokedFamily(f) ==
    [t \in Tokens |-> IF Issued(t) /\ family[t] = f THEN "revoked" ELSE state[t]]

RevokeFamily(r) ==
    /\ pc[r] = "revokeFamily"
    /\ LET f == family[given[r]] IN
       /\ state' = RevokedFamily(f)
       /\ ended' = ended \cup {f}
       /\ overtaken' = IF Rotating(f) # {} THEN overtaken \cup {f} ELSE overtaken \ {f}
    /\ IF r \in Logouts THEN Goto(r, "done") ELSE Goto(r, "failed")
    /\ UNCHANGED <<expired, family, given, known, raced>>

\* logout: findOne; a token that is gone already is no error.
FindSession(o, t) ==
    /\ o \in Logouts /\ pc[o] = "idle" /\ t \in known
    /\ given' = [given EXCEPT ![o] = t]
    /\ IF Issued(t) THEN Goto(o, "revokeFamily") ELSE Goto(o, "done")
    /\ UNCHANGED <<state, expired, family, known, ghosts>>

-----------------------------------------------------------------------------
\* The lifetime of t is over; all have the same, so its predecessor's is too.
Expire(t) ==
    /\ Issued(t) /\ t \notin expired
    /\ t \in Refreshes => given[t] \in expired
    /\ expired' = expired \cup {t}
    /\ UNCHANGED <<state, family, pc, given, known, ghosts>>

\* The TTL index on expiresAt deletes the document some time later.
Purge(t) ==
    /\ t \in expired /\ Issued(t)
    /\ state' = [state EXCEPT ![t] = "purged"]
    /\ UNCHANGED <<expired, family, pc, given, known, ghosts>>

Running == {"rotate", "issue", "answer", "revokeFamily"}

\* The process dies under the request, or MongoDB refuses its next statement.
Crash(r) ==
    /\ pc[r] \in Running
    /\ Goto(r, "failed")
    /\ UNCHANGED <<state, expired, family, given, known, ghosts>>

Stop == (\A r \in Requests : pc[r] \notin Running) /\ UNCHANGED vars

Next ==
    \/ \E r \in Requests : \/ \E t \in Tokens : FindToken(r, t) \/ FindSession(r, t)
                           \/ RevokeOld(r) \/ IssueToken(r) \/ Answer(r)
                           \/ RevokeFamily(r) \/ Crash(r)
    \/ \E t \in Tokens : Expire(t) \/ Purge(t)
    \/ Stop

Spec == Init /\ [][Next]_vars

-----------------------------------------------------------------------------
(* Properties.                                                             *)

TypeOK ==
    /\ state \in [Tokens -> {"none", "live", "revoked", "purged"}]
    /\ expired \subseteq Tokens
    /\ family \in [Tokens -> Families \cup {NoToken}]
    /\ \A t \in Tokens : Issued(t) => family[t] \in Families
    /\ pc \in [Requests -> {"idle", "done", "failed"} \cup Running]
    /\ given \in [Requests -> Tokens \cup {NoToken}]
    /\ known \subseteq Tokens
    /\ raced \subseteq Refreshes /\ ended \subseteq Families /\ overtaken \subseteq Families

\* Rotation keeps one chain: a family never has two usable tokens, counting
\* those that refreshes are about to issue.  Only a refresh that finds its token
\* live beside another that found it so adds one, and no more than one, however
\* long the chains grow afterwards.
Serves(r, f) == given[r] \in Tokens /\ family[given[r]] = f

Heads(f) == Usable(f) \cup {r \in Rotating(f) : pc[r] = "issue"}

OneUsableToken ==
    \A f \in Families : Cardinality(Heads(f)) <= 1 + Cardinality({r \in raced : Serves(r, f)})

\* A session that was ended, by logout or by reuse, stays ended, unless a
\* rotation of it had already passed its check; then ending it once more does.
EndedStaysEnded == \A f \in ended \ overtaken : Usable(f) = {}

\* No false alarm: a refresh answers that the session was reused only if some
\* token of its family was presented twice or somebody logged out, whatever
\* other sessions do.  (A session can also be lost without an alarm, by a crash
\* between the revocation of a token and the issue of the next.)
PresentedTwice(f) == \E q, r \in Refreshes :
    /\ q # r /\ given[q] = given[r]
    /\ given[q] \in Tokens /\ family[given[q]] = f

LoggedOut(f) == \E o \in Logouts : given[o] \in Tokens /\ family[given[o]] = f

NoFalseAlarm ==
    \A r \in Refreshes : pc[r] = "revokeFamily" =>
        LET f == family[given[r]] IN PresentedTwice(f) \/ LoggedOut(f)
=============================================================================
