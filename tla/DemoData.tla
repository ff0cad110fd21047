------------------------------ MODULE DemoData ------------------------------
(***************************************************************************)
(* scripts/seed-demo-sahyadri.ts against a database in use.  A run of the  *)
(* script seeds, resets (--reset) or wipes (--wipe); runs may overlap, may *)
(* die between two statements, and calls of SocialCounters go on.          *)
(*                                                                         *)
(* What a run creates carries the run in its id (MongoDB never gives an id *)
(* twice) and is flagged isDemo.  The documents of one loop of the script  *)
(* that no other statement tells apart are one document here: one trek and *)
(* one join request per run, one post per demo user.  The turns of such a  *)
(* loop write different documents, so that they commute with what calls do *)
(* in between, and are one step; accounts are created one by one.  The     *)
(* random choice of who follows and likes whom is one fixed choice: all do.*)
(***************************************************************************)
EXTENDS SocialCounters, Sequences

CONSTANTS
    Runs,           \* runs of the script
    Emails,         \* the accounts of the script, in the order of creation
    Real,           \* real accounts
    RealPosts,      \* posts of real accounts
    Modes,          \* the modes the runs may have
    MaxStarted      \* bound: calls and runs a behaviour starts

Demo(e, s) == <<e, s>>
DemoOf(s) == {Demo(Emails[i], s) : i \in 1 .. Len(Emails)}

DemoIds == UNION {DemoOf(s) : s \in Runs}
DemoPostIds == {<<"post", d>> : d \in DemoIds}

ASSUME DemoAssumption ==
    /\ Persons = Real \cup DemoIds /\ Real \cap DemoIds = {}
    /\ Posts = RealPosts \cup DemoPostIds /\ RealPosts \cap DemoPostIds = {}
    /\ Len(Emails) \in Nat \ {0}
    /\ Modes \subseteq {"seed", "reset", "wipe"}

VARIABLES
    mode,           \* mode[s]: "seed", "reset" or "wipe"
    stage,          \* the next statement of each run
    listed,         \* collections the wipe of a run has still to clear
    flagged,        \* the isDemo documents of the edges collections
    others,         \* runs whose treks and whose join requests are stored
    born,           \* auxiliary: every id there ever was
    meddled,        \* auxiliary: demo ids touched while their run was seeding
    clashed         \* auxiliary: a wipe overlapped another run, or died

demoVars == <<mode, stage, listed, flagged, others, born, meddled, clashed>>
vars == <<socialVars, demoVars>>

\* Posts, treks and join requests, three deleteMany that nothing here tells
\* apart, go together.
Collections == {"likes", "follows", "posts", "users"}

Resting == {"ready", "done", "failed"}

Busy(s) == stage[s] \notin Resting

Step(s, from, to) == stage[s] = from /\ stage' = [stage EXCEPT ![s] = to]

\* All a run may have created.
Mine(s) == DemoOf(s) \cup {<<"post", d>> : d \in DemoOf(s)}

DemoPeople == people \ Real
DemoPosts  == posts \ RealPosts

\* The edges the script writes: the demo users follow and like each other.
SeededFollows(s) == {Follow(u, v) : u, v \in DemoOf(s)} \ {Follow(u, u) : u \in DemoOf(s)}
SeededLikes(s)   == {Like(u, <<"post", v>>) : u, v \in DemoOf(s)}
                        \ {Like(u, <<"post", u>>) : u \in DemoOf(s)}

-----------------------------------------------------------------------------
Init ==
    /\ people = Real /\ posts = RealPosts
    /\ SocialInit
    /\ mode \in [Runs -> Modes]
    /\ stage = [s \in Runs |-> "ready"]
    /\ listed = [s \in Runs |-> {}]
    /\ flagged = {}
    /\ others = [treks |-> {}, joinRequests |-> {}]
    /\ born = Real \cup RealPosts
    /\ meddled = {} /\ clashed = FALSE

\* The script counts the demo users and decides.
CountDemoUsers(s) ==
    /\ stage[s] = "ready"
    /\ \/ /\ mode[s] # "wipe" /\ DemoPeople = {}
          /\ stage' = [stage EXCEPT ![s] = "users"]
          /\ UNCHANGED listed
       \/ /\ mode[s] = "seed" /\ DemoPeople # {}            \* "Nothing done"
          /\ stage' = [stage EXCEPT ![s] = "done"]
          /\ UNCHANGED listed
       \/ /\ mode[s] = "wipe" \/ (mode[s] = "reset" /\ DemoPeople # {})
          /\ stage' = [stage EXCEPT ![s] = "wiping"]
          /\ listed' = [listed EXCEPT ![s] = Collections]
    /\ clashed' = (clashed \/ \E z \in Runs \ {s} :
                     Busy(z) /\ (stage'[s] = "wiping" \/ stage[z] = "wiping"))
    /\ UNCHANGED <<socialVars, mode, flagged, others, born, meddled>>

DemoEdges(kind) == {e \in flagged : e.kind = kind}

\* wipe: the deleteMany({isDemo: true}) in any order; then the reset goes on.
Wipe(s) ==
    /\ stage[s] = "wiping"
    /\ \E x \in listed[s] :
          /\ listed' = [listed EXCEPT ![s] = @ \ {x}]
          /\ LET gone == CASE x = "follows" -> DemoEdges("follow")
                           [] x = "likes"   -> DemoEdges("like")
                           [] OTHER         -> {}
             IN  edges' = edges \ gone /\ flagged' = flagged \ gone
          /\ posts' = IF x = "posts" THEN RealPosts ELSE posts
          /\ people' = IF x = "users" THEN Real ELSE people
          /\ others' = IF x = "posts" THEN [y \in DOMAIN others |-> {}] ELSE others
          /\ stage' = [stage EXCEPT ![s] = IF listed[s] # {x} THEN "wiping"
                                           ELSE IF mode[s] = "wipe" THEN "done" ELSE "users"]
    /\ UNCHANGED <<count, named, pc, owed, lost, mode, born, meddled, clashed>>

\* Mutant: accounts are upserted by email.
UpsertUser(s) ==
    /\ stage[s] = "users"
    /\ people' = people \cup DemoOf(s) /\ born' = born \cup DemoOf(s)
    /\ stage' = [stage EXCEPT ![s] = "treks"]
    /\ UNCHANGED <<posts, edges, count, named, pc, owed, lost, mode, listed, flagged,
                   others, meddled, clashed>>

\* One account after the other; an email that is taken ends the run.
CreateUser(s) ==
    /\ stage[s] = "users"
    /\ LET made == {i \in 1 .. Len(Emails) : Demo(Emails[i], s) \in born}
           i == Cardinality(made) + 1
       IN  \/ /\ i > Len(Emails)
              /\ stage' = [stage EXCEPT ![s] = "treks"]
              /\ UNCHANGED <<people, born>>
           \/ /\ i <= Len(Emails)
              /\ \E z \in Runs : Demo(Emails[i], z) \in people      \* E11000
              /\ stage' = [stage EXCEPT ![s] = "failed"]
              /\ UNCHANGED <<people, born>>
           \/ /\ i <= Len(Emails)
              /\ \A z \in Runs : Demo(Emails[i], z) \notin people
              /\ people' = people \cup {Demo(Emails[i], s)}
              /\ born' = born \cup {Demo(Emails[i], s)}
              /\ UNCHANGED stage
    /\ UNCHANGED <<posts, edges, count, named, pc, owed, lost, mode, listed, flagged,
                   others, meddled, clashed>>

CreateOthers(s, x, from, to) ==
    /\ Step(s, from, to)
    /\ others' = [others EXCEPT ![x] = @ \cup {s}]
    /\ UNCHANGED <<socialVars, mode, listed, flagged, born, meddled, clashed>>

\* The treks, with the $set of each organizer's treksCount, which no call of
\* SocialCounters reads.
CreateTreks(s) == CreateOthers(s, "treks", "treks", "follows")

\* insertMany of edges: one that is there already ends the run, after those
\* before it were written.
InsertEdges(s, new, from, to) ==
    /\ \E written \in SUBSET (new \ edges) :
          /\ edges' = edges \cup written
          /\ flagged' = flagged \cup written
          /\ \/ written = new /\ Step(s, from, to)
             \/ new \cap edges # {} /\ Step(s, from, "failed")        \* E11000
    /\ UNCHANGED <<people, posts, count, named, pc, owed, lost, mode, listed, others,
                   born, meddled, clashed>>

InsertFollows(s) == InsertEdges(s, SeededFollows(s), "follows", "counters")

\* Mutant: every account gets the number of all edges.
SetCountersTwice(s) ==
    /\ Step(s, "counters", "posts")
    /\ count' = [c \in Counters |-> IF c[2] \in people \cap DemoOf(s)
                                    THEN Cardinality(SeededFollows(s)) ELSE count[c]]
    /\ UNCHANGED <<people, posts, edges, named, pc, owed, lost, mode, listed, flagged,
                   others, born, meddled, clashed>>

\* $set of the counters of the run's users to what the run has just inserted,
\* over whatever calls have added meanwhile.
SetCounters(s) ==
    /\ Step(s, "counters", "posts")
    /\ count' = [c \in Counters |-> IF c[2] \in people \cap DemoOf(s)
                                    THEN Cardinality({e \in SeededFollows(s) : c \in CountedIn(e)})
                                    ELSE count[c]]
    /\ UNCHANGED <<people, posts, edges, named, pc, owed, lost, mode, listed, flagged,
                   others, born, meddled, clashed>>

CreatePosts(s) ==
    /\ Step(s, "posts", "likes")
    /\ LET new == {<<"post", d>> : d \in DemoOf(s)}
       IN  posts' = posts \cup new /\ born' = born \cup new
    /\ UNCHANGED <<people, edges, count, named, pc, owed, lost, mode, listed, flagged,
                   others, meddled, clashed>>

InsertLikes(s) == InsertEdges(s, SeededLikes(s), "likes", "likeCounts")

SetLikeCounts(s) ==
    /\ Step(s, "likeCounts", "joinRequests")
    /\ count' = [c \in Counters |-> IF c[2] \in posts \cap Mine(s)
                                    THEN Cardinality({e \in SeededLikes(s) : c \in CountedIn(e)})
                                    ELSE count[c]]
    /\ UNCHANGED <<people, posts, edges, named, pc, owed, lost, mode, listed, flagged,
                   others, born, meddled, clashed>>

CreateJoinRequests(s) == CreateOthers(s, "joinRequests", "joinRequests", "done")

\* The script is stopped, or a statement fails: nothing is undone.
Break(s) ==
    /\ Busy(s)
    /\ stage' = [stage EXCEPT ![s] = "failed"]
    /\ clashed' = (clashed \/ stage[s] = "wiping")
    /\ UNCHANGED <<socialVars, mode, listed, flagged, others, born, meddled>>

SeedStep(s) == \/ CountDemoUsers(s) \/ Wipe(s) \/ CreateUser(s) \/ CreateTreks(s)
               \/ InsertFollows(s) \/ SetCounters(s) \/ CreatePosts(s)
               \/ InsertLikes(s) \/ SetLikeCounts(s) \/ CreateJoinRequests(s)

\* The ids of unfinished runs that a call has in hand.
Meddles(e) == {x \in {e.from, e.to} : \E s \in Runs : x \in Mine(s) /\ stage[s] # "done"}

\* A call can only name what its client has seen.
LiveNext ==
    /\ \E r \in Calls :
          /\ \/ CallStep(r)
             \/ \E e \in Edges : {e.from, e.to} \subseteq born /\ Begin(r, e)
          /\ meddled' = meddled \cup Meddles(named'[r])
    /\ flagged' = flagged \cap edges'
    /\ UNCHANGED <<mode, stage, listed, others, born, clashed>>

Started == {r \in Calls : pc[r] # "idle"} \cup {s \in Runs : stage[s] # "ready"}

Moves == LiveNext \/ \E s \in Runs : SeedStep(s) \/ Break(s)

Next == Moves /\ Cardinality(Started') <= MaxStarted

Spec == Init /\ [][Next]_vars

-----------------------------------------------------------------------------
(* Properties.                                                             *)

TypeOK ==
    /\ SocialTypeOK
    /\ mode \in [Runs -> {"seed", "reset", "wipe"}]
    /\ stage \in [Runs -> Resting \cup {"wiping", "users", "treks", "follows", "counters",
                                        "posts", "likes", "likeCounts", "joinRequests"}]
    /\ listed \in [Runs -> SUBSET Collections]
    /\ flagged \subseteq edges
    /\ others \in [{"treks", "joinRequests"} -> SUBSET Runs]
    /\ people \cup posts \subseteq born /\ meddled \subseteq born

\* "Nothing here touches, reads, or modifies any document that doesn't already
\* have isDemo:true": through every seed, reset, wipe and crash of the script
\* the counters of real accounts and posts stay in step with their edges.
RealCountsMatch ==
    \A c \in Counters : c[2] \in Real \cup RealPosts => Accounted(c)

\* And those of demo accounts are right from the day their run is done, unless
\* somebody used them while it was seeding (its $set does not look), until a
\* wipe begins; a wipe that died half way leaves anything.
DemoCountsMatch ==
    ~clashed /\ (\A z \in Runs : stage[z] # "wiping") =>
        \A s \in Runs : \A c \in Counters :
            stage[s] = "done" /\ c[2] \in Mine(s) \ meddled /\ Shown(c) => Accounted(c)

\* "Running it twice without wiping in between is safe" (DEMO_DATA.md:40):
\* however seeding runs overlap or die, the demo content of two of them is
\* never there together.  A wipe that overlapped another run or died half way
\* is another matter.
Seeded(s) == \/ \E x \in Mine(s) : Exists(x)
             \/ s \in others.treks \/ s \in others.joinRequests

SeedOnce == ~clashed => \A s, z \in Runs : Seeded(s) /\ Seeded(z) => s = z
=============================================================================
