---------------------------- MODULE JoinRequests ----------------------------
(***************************************************************************)
(* JoinRequestsService (join-requests/join-requests.service.ts) with the   *)
(* notifications it fires: a user asks to join a peer trek, its organizer  *)
(* accepts or declines, an acceptance opens the conversation of the two.   *)
(*                                                                         *)
(* A call is a slot that runs once; a step of it is one await.  Nothing    *)
(* runs in a transaction.  A join request is known by its trek and its     *)
(* requester, which the unique index makes a key.                          *)
(***************************************************************************)
EXTENDS Naturals, Sequences

CONSTANTS
    Treks,          \* peer treks
    Users,
    Organizer,      \* Organizer[t]: trek.organizerId
    Asks,           \* POST /treks/:id/join-requests calls
    Answers,        \* POST /join-requests/:id/accept and /decline calls
    About,          \* About[r]: the trek and the requester call r is about
    Caller          \* Caller[a]: the user whose token answer a carries

Calls == Asks \cup Answers
Keys  == Treks \X Users         \* the unique index (trekId, requesterId)

\* A conversation's participants: two different users.
Pairs == {{u, v} : u, v \in Users} \ {{u} : u \in Users}

ASSUME CallsAssumption == Asks \cap Answers = {}
ASSUME UsersAssumption == /\ Organizer \in [Treks -> Users]
                          /\ About \in [Calls -> Keys]
                          /\ Caller \in [Answers -> Users]

VARIABLES
    treks,          \* treks not removed
    status,         \* the joinrequests collection: status by key, or "none"
    conversations,  \* the conversations collection: pairs of participants
    notices,        \* by key: what the requester was notified of, in order
    heard,          \* keys whose organizer was notified of the request
    verdict,        \* what an answer is: "accepted" or "declined"
    pc,             \* where each call is
    loaded,         \* the status an answer found when it loaded the request
    alone,          \* auxiliary: answers that overlapped no other of their request
    disturbed       \* auxiliary: keys whose answers overlapped or broke off, and
                    \* none has come to its end alone since

jrVars == <<treks, status, conversations, notices, heard, verdict, pc,
            loaded, alone, disturbed>>

TrekOf(k) == k[1]
RequesterOf(k) == k[2]

\* [id1, id2].sort().join('_')
ParticipantsKey(k) == {Organizer[TrekOf(k)], RequesterOf(k)}

Answering == {"authorize", "save", "find", "open", "notify"}
Ended     == {"done", "failed", "brokenOff"}

Goto(r, l) == pc' = [pc EXCEPT ![r] = l]

AnswersOn(k) == {a \in Answers : About[a] = k /\ pc[a] \in Answering}

-----------------------------------------------------------------------------
Init ==
    /\ treks = Treks
    /\ status = [k \in Keys |-> "none"]
    /\ conversations = {}
    /\ notices = [k \in Keys |-> <<>>]
    /\ heard = {}
    /\ verdict \in [Answers -> {"accepted", "declined"}]
    /\ pc = [r \in Calls |-> "idle"]
    /\ loaded = [a \in Answers |-> "none"]
    /\ alone = {} /\ disturbed = {}

(* create.                                                                 *)

\* The trek must exist and be another's.
FindTrek(c) ==
    /\ pc[c] = "idle"
    /\ LET t == TrekOf(About[c]) IN
       Goto(c, IF t \in treks /\ Organizer[t] # RequesterOf(About[c])
               THEN "insert" ELSE "failed")
    /\ UNCHANGED <<treks, status, conversations, notices, verdict, heard, loaded, alone, disturbed>>

\* joinRequestModel.create: a second request of one user meets the index.
Insert(c) ==
    /\ pc[c] = "insert"
    /\ \/ /\ status[About[c]] = "none"
          /\ status' = [status EXCEPT ![About[c]] = "pending"]
          /\ Goto(c, "notify")
       \/ /\ status[About[c]] # "none"                   \* E11000, 409
          /\ Goto(c, "failed")
          /\ UNCHANGED status
    /\ UNCHANGED <<treks, conversations, notices, verdict, heard, loaded, alone, disturbed>>

\* notificationsService.fire to the organizer.
NotifyOrganizer(c) ==
    /\ pc[c] = "notify"
    /\ heard' = heard \cup {About[c]}
    /\ Goto(c, "done")
    /\ UNCHANGED <<treks, status, conversations, notices, verdict, loaded, alone, disturbed>>

(* accept and decline.                                                     *)

\* findAndAuthorize loads the request.  Nothing asks whether it is pending.
LoadRequest(a) ==
    /\ pc[a] = "idle"
    /\ LET k == About[a] IN
       /\ Goto(a, IF status[k] = "none" THEN "failed" ELSE "authorize")
       /\ loaded' = [loaded EXCEPT ![a] = status[k]]
       /\ alone' = IF AnswersOn(k) = {} THEN alone \cup {a} ELSE alone \ AnswersOn(k)
       /\ disturbed' = IF AnswersOn(k) = {} THEN disturbed ELSE disturbed \cup {k}
    /\ UNCHANGED <<treks, status, conversations, notices, verdict, heard>>

\* assertOrganizerOwnsTrek.
Authorize(a) ==
    /\ pc[a] = "authorize"
    /\ LET t == TrekOf(About[a]) IN
       Goto(a, IF t \in treks /\ Organizer[t] = Caller[a] THEN "save" ELSE "failed")
    /\ UNCHANGED <<treks, status, conversations, notices, verdict, heard, loaded, alone, disturbed>>

\* Mutant: only a pending request takes the answer, but every answer is told.
SaveIfPending(a) ==
    /\ pc[a] = "save"
    /\ status' = [status EXCEPT ![About[a]] = IF @ = "pending" THEN verdict[a] ELSE @]
    /\ Goto(a, IF verdict[a] = "accepted" THEN "find" ELSE "notify")
    /\ UNCHANGED <<treks, conversations, notices, verdict, heard, loaded, alone, disturbed>>

\* request.save() sends status when the answer differs from what was loaded,
\* and respondedAt alone when it does not.
Save(a) ==
    /\ pc[a] = "save"
    /\ status' = [status EXCEPT ![About[a]] =
                     IF verdict[a] # loaded[a] THEN verdict[a] ELSE @]
    /\ Goto(a, IF verdict[a] = "accepted" THEN "find" ELSE "notify")
    /\ UNCHANGED <<treks, conversations, notices, verdict, heard, loaded, alone, disturbed>>

\* Mutant: the conversation is left to the first message.
FindOnly(a) ==
    /\ pc[a] = "find"
    /\ Goto(a, "notify")
    /\ UNCHANGED <<treks, status, conversations, notices, verdict, heard, loaded, alone, disturbed>>

\* findOrCreateConversation: findOne ...
FindConversation(a) ==
    /\ pc[a] = "find"
    /\ Goto(a, IF ParticipantsKey(About[a]) \in conversations THEN "notify" ELSE "open")
    /\ UNCHANGED <<treks, status, conversations, notices, verdict, heard, loaded, alone, disturbed>>

\* Mutant: participantsKey names the requester alone.
OpenWithSelf(a) ==
    /\ pc[a] = "open"
    /\ conversations' = conversations \cup {{RequesterOf(About[a])}}
    /\ Goto(a, "notify")
    /\ UNCHANGED <<treks, status, notices, verdict, heard, loaded, alone, disturbed>>

\* ... and create, which fails when another accept was faster: the request
\* is accepted and the caller is told 500.
OpenConversation(a) ==
    /\ pc[a] = "open"
    /\ LET p == ParticipantsKey(About[a]) IN
       \/ /\ p \notin conversations
          /\ conversations' = conversations \cup {p}
          /\ Goto(a, "notify")
          /\ UNCHANGED disturbed
       \/ /\ p \in conversations                           \* E11000, 500
          /\ Goto(a, "failed")
          /\ disturbed' = disturbed \cup {About[a]}
          /\ UNCHANGED conversations
    /\ UNCHANGED <<treks, status, notices, verdict, heard, loaded, alone>>

\* notificationsService.fire to the requester.
NotifyRequester(a) ==
    /\ pc[a] = "notify"
    /\ notices' = [notices EXCEPT ![About[a]] = Append(@, verdict[a])]
    /\ disturbed' = IF a \in alone THEN disturbed \ {About[a]} ELSE disturbed
    /\ Goto(a, "done")
    /\ UNCHANGED <<treks, status, conversations, verdict, heard, loaded, alone>>

(* What happens around them.                                               *)

\* Mongo fails a statement or the process dies.
BreakOff(r) ==
    /\ pc[r] \in Answering \cup {"insert"}
    /\ Goto(r, "brokenOff")
    /\ disturbed' = IF r \in Answers THEN disturbed \cup {About[r]} ELSE disturbed
    /\ UNCHANGED <<treks, status, conversations, notices, verdict, heard, loaded, alone>>

\* TreksService.remove leaves the join requests of the trek behind.
RemoveTrek(t) ==
    /\ t \in treks
    /\ treks' = treks \ {t}
    /\ UNCHANGED <<status, conversations, notices, verdict, heard, pc, loaded, alone, disturbed>>

AskStep(c) == FindTrek(c) \/ Insert(c) \/ NotifyOrganizer(c)
AnswerStep(a) == \/ LoadRequest(a) \/ Authorize(a) \/ Save(a)
                 \/ FindConversation(a) \/ OpenConversation(a) \/ NotifyRequester(a)

JrNext == \/ \E c \in Asks : AskStep(c)
          \/ \E a \in Answers : AnswerStep(a)
          \/ \E r \in Calls : BreakOff(r)
          \/ \E t \in Treks : RemoveTrek(t)

JrSpec == Init /\ [][JrNext]_jrVars

-----------------------------------------------------------------------------
(* Properties.                                                             *)

JrTypeOK ==
    /\ treks \subseteq Treks
    /\ status \in [Keys -> {"none", "pending", "accepted", "declined"}]
    /\ conversations \subseteq Pairs
    /\ notices \in [Keys -> Seq({"accepted", "declined"})]
    /\ verdict \in [Answers -> {"accepted", "declined"}]
    /\ pc \in [Calls -> {"idle", "insert"} \cup Answering \cup Ended]
    /\ loaded \in [Answers -> {"none", "pending", "accepted", "declined"}]
    /\ alone \subseteq Answers /\ disturbed \subseteq Keys /\ heard \subseteq Keys

\* "chat unlocked after acceptance" (join-request.schema.ts:11): there is no
\* conversation without an accept of the trek's own organizer that found a
\* request and was saved, whatever was asked twice, answered twice or declined
\* since.
AcceptSaved(a) == /\ verdict[a] = "accepted" /\ loaded[a] # "none"
                  /\ Caller[a] = Organizer[TrekOf(About[a])]
                  /\ pc[a] \notin {"idle", "authorize", "save"}

ChatOnlyAfterAccept ==
    \A p \in conversations :
        \E a \in Answers : AcceptSaved(a) /\ ParticipantsKey(About[a]) = p

\* And it is unlocked: a requester who was told "accepted" has the
\* conversation, and so has every accepted request, unless its accept is still
\* to open it or broke off before.
AcceptedCanChat ==
    \A k \in Keys :
        /\ \A i \in 1 .. Len(notices[k]) : notices[k][i] = "accepted"
              => ParticipantsKey(k) \in conversations
        /\ status[k] = "accepted" =>
              \/ ParticipantsKey(k) \in conversations
              \/ \E a \in Answers : /\ About[a] = k
                                    /\ pc[a] \in {"find", "open", "brokenOff"}

\* accept and decline may be called again and again.  The last notice a
\* requester got tells the stored status, once no answer is under way, unless
\* two of them overlapped or one did not come to its end; and whatever has
\* gone wrong before, one more answer that nothing disturbs puts it right.
\* The organizer heard of every request whose call came to its end.
NoticeTellsStatus ==
    /\ \A k \in Keys \ disturbed :
           AnswersOn(k) = {} =>
               IF notices[k] = <<>> THEN status[k] \in {"none", "pending"}
                                    ELSE status[k] = notices[k][Len(notices[k])]
    /\ \A k \in Keys : status[k] # "none" =>
           \/ k \in heard
           \/ \E c \in Asks : About[c] = k /\ pc[c] \in {"notify", "brokenOff"}
=============================================================================
