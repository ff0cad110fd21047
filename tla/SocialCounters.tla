--------------------------- MODULE SocialCounters ---------------------------
(***************************************************************************)
(* FollowsService (follows/follows.service.ts) and the likes of            *)
(* PostsService (posts/posts.service.ts).  A follow or a like is a         *)
(* document of its own, unique by its two ends; how many there are is kept *)
(* a second time, in counters on the users and on the post, by $inc's that *)
(* no transaction ties to the document.                                    *)
(*                                                                         *)
(* A call is a slot that runs once, a step is one statement.  The two $inc *)
(* of a follow are sent together (Promise.all): either may come first or   *)
(* fail alone.                                                             *)
(***************************************************************************)
EXTENDS Integers, FiniteSets

CONSTANTS
    Adds,           \* POST /users/:id/follow and /posts/:id/like calls
    Removes,        \* DELETE of the same
    Persons,        \* ids of users, those a later run may create included
    Posts,          \* ids of posts
    Author,         \* Author[p]: post.authorId
    Edges           \* the follows and likes the calls may name

Calls == Adds \cup Removes

Follow(u, v) == [kind |-> "follow", from |-> u, to |-> v]
Like(u, p)   == [kind |-> "like", from |-> u, to |-> p]

NoEdge == [kind |-> "none"]

\* Where an edge is counted.
Counters == ({"following", "followers"} \X Persons) \cup ({"likes"} \X Posts)

CountedIn(e) == IF e.kind = "follow"
                THEN {<<"following", e.from>>, <<"followers", e.to>>}
                ELSE {<<"likes", e.to>>}

ASSUME CallsAssumption == /\ IsFiniteSet(Adds) /\ IsFiniteSet(Removes)
                          /\ Adds \cap Removes = {}
ASSUME EdgesAssumption == /\ IsFiniteSet(Persons)
                          /\ IsFiniteSet(Posts)
                          /\ Persons \cap Posts = {}
                          /\ Edges \subseteq
                                {Follow(u, v) : u, v \in Persons}
                                    \cup {Like(u, p) : u \in Persons, p \in Posts}

VARIABLES
    people,         \* the users collection
    posts,          \* the posts collection
    edges,          \* the follow edges and the likes
    count,          \* followingCount, followersCount, likeCount
    named,          \* the edge a call names
    pc,             \* where each call is
    owed,           \* the counters whose $inc a call has still under way
    lost            \* auxiliary: the counters whose $inc failed

socialVars == <<people, posts, edges, count, named, pc, owed, lost>>

Ended == {"done", "failed"}

Goto(r, l) == pc' = [pc EXCEPT ![r] = l]

Exists(x) == x \in people \cup posts

\* $inc of a counter; updateOne on a document that is gone matches nothing.
Inc(c, n) == count' = IF Exists(c[2]) THEN [count EXCEPT ![c] = @ + n] ELSE count

-----------------------------------------------------------------------------
(* follow and like.                                                        *)

\* Nobody follows himself, and a liked post must exist.  A followed user is
\* not looked up.
CheckEdge(a, e) ==
    /\ pc[a] = "idle"
    /\ named' = [named EXCEPT ![a] = e]
    /\ Goto(a, IF \/ e.kind = "follow" /\ e.from = e.to
                  \/ e.kind = "like" /\ e.to \notin posts
               THEN "failed" ELSE "create")
    /\ UNCHANGED <<people, posts, edges, count, owed, lost>>

\* Mutant: a duplicate is counted once more.
CreateAgain(a) ==
    /\ pc[a] = "create"
    /\ edges' = edges \cup {named[a]}
    /\ owed' = [owed EXCEPT ![a] = CountedIn(named[a])]
    /\ Goto(a, "count")
    /\ UNCHANGED <<people, posts, count, named, lost>>

\* create: the unique index makes the second of two equal calls a no-op.
CreateEdge(a) ==
    /\ pc[a] = "create"
    /\ \/ /\ named[a] \in edges                              \* E11000
          /\ Goto(a, "done")
          /\ UNCHANGED <<edges, owed>>
       \/ /\ named[a] \notin edges
          /\ edges' = edges \cup {named[a]}
          /\ owed' = [owed EXCEPT ![a] = CountedIn(named[a])]
          /\ Goto(a, "count")
    /\ UNCHANGED <<people, posts, count, named, lost>>

(* unfollow and unlike.                                                    *)

\* deleteOne; deletedCount 0 ends the call.
DeleteEdge(d, e) ==
    /\ pc[d] = "idle"
    /\ named' = [named EXCEPT ![d] = e]
    /\ \/ /\ e \notin edges
          /\ Goto(d, "done")
          /\ UNCHANGED <<edges, owed>>
       \/ /\ e \in edges
          /\ edges' = edges \ {e}
          /\ owed' = [owed EXCEPT ![d] = CountedIn(e)]
          /\ Goto(d, "count")
    /\ UNCHANGED <<people, posts, count, lost>>

(* The counters.                                                           *)

Sign(r) == IF r \in Adds THEN 1 ELSE -1

\* What follows the last $inc: a like by another is told to the author.
AfterCount(r) ==
    IF lost[r] # {} THEN "failed"
    ELSE IF r \in Adds /\ named[r].kind = "like" /\ Author[named[r].to] # named[r].from
         THEN "notify" ELSE "done"

\* One of the updateOne calls arrives.
Count(r, c) ==
    /\ pc[r] = "count" /\ c \in owed[r]
    /\ Inc(c, Sign(r))
    /\ owed' = [owed EXCEPT ![r] = @ \ {c}]
    /\ IF owed[r] = {c} THEN Goto(r, AfterCount(r)) ELSE UNCHANGED pc
    /\ UNCHANGED <<people, posts, edges, named, lost>>

\* Mutant: the other $inc is given up with the first.
LoseAll(r, c) ==
    /\ pc[r] = "count" /\ c \in owed[r]
    /\ lost' = [lost EXCEPT ![r] = @ \cup {c}]
    /\ Goto(r, "failed")
    /\ UNCHANGED <<people, posts, edges, count, named, owed>>

\* Or it fails: Promise.all rejects, and the other goes on all the same.
LoseCount(r, c) ==
    /\ pc[r] = "count" /\ c \in owed[r]
    /\ owed' = [owed EXCEPT ![r] = @ \ {c}]
    /\ lost' = [lost EXCEPT ![r] = @ \cup {c}]
    /\ IF owed[r] = {c} THEN Goto(r, "failed") ELSE UNCHANGED pc
    /\ UNCHANGED <<people, posts, edges, count, named>>

\* notificationsService.fire, after everything else: its failure turns the
\* answer into a 500, and no more.
NotifyAuthor(a) ==
    /\ pc[a] = "notify"
    /\ Goto(a, "done") \/ Goto(a, "failed")
    /\ UNCHANGED <<people, posts, edges, count, named, owed, lost>>

\* The process dies: what was owed stays so for ever.
Crash(r) ==
    /\ pc[r] \in {"create", "count", "notify"}
    /\ Goto(r, "failed")
    /\ lost' = [lost EXCEPT ![r] = @ \cup owed[r]]
    /\ owed' = [owed EXCEPT ![r] = {}]
    /\ UNCHANGED <<people, posts, edges, count, named>>

\* A call about edge e comes in.
Begin(r, e) == \/ r \in Adds /\ CheckEdge(r, e)
               \/ r \in Removes /\ DeleteEdge(r, e)

CallStep(r) == \/ r \in Adds /\ (CreateEdge(r) \/ NotifyAuthor(r))
               \/ \E c \in owed[r] : Count(r, c) \/ LoseCount(r, c)
               \/ Crash(r)

SocialNext == \E r \in Calls : CallStep(r) \/ \E e \in Edges : Begin(r, e)

\* People who joined and posted, before anybody follows or likes.
SocialInit ==
    /\ edges = {}
    /\ count = [c \in Counters |-> 0]
    /\ named = [r \in Calls |-> NoEdge]
    /\ pc = [r \in Calls |-> "idle"]
    /\ owed = [r \in Calls |-> {}]
    /\ lost = [r \in Calls |-> {}]

-----------------------------------------------------------------------------
(* Properties.                                                             *)

SocialTypeOK ==
    /\ people \subseteq Persons
    /\ posts \subseteq Posts
    /\ count \in [Counters -> Int]
    /\ named \in [Calls -> Edges \cup {NoEdge}]
    /\ pc \in [Calls -> {"idle", "create", "count", "notify"} \cup Ended]
    /\ owed \in [Calls -> SUBSET Counters]
    /\ lost \in [Calls -> SUBSET Counters]
    /\ \A r \in Calls : owed[r] # {} => pc[r] = "count"

Tally(c) == {e \in edges : c \in CountedIn(e)}

Uncounted(R, c) == {r \in R : c \in owed[r] \cup lost[r]}

\* A counter shows the documents it counts, but for the $inc's that are still
\* under way or were lost: no order of follows, unfollows, likes, unlikes,
\* double taps and retries makes it drift further.  So it is exact, and not
\* negative, at rest, though it may be negative while calls overtake.
Accounted(c) ==
    count[c] + Cardinality(Uncounted(Adds, c))
        = Cardinality(Tally(c)) + Cardinality(Uncounted(Removes, c))

\* The counters of existing documents.
Shown(c) == Exists(c[2])
=============================================================================
