------------------------------ MODULE Messaging ------------------------------
(***************************************************************************)
(* MessagingService, its controller and the Socket.IO gateway              *)
(* (messaging/): a message is stored over HTTP, then emitted to the room   *)
(* of its conversation; a client that connects joins the room and reads    *)
(* the stored messages page by page, newest first.                         *)
(*                                                                         *)
(* The emit reaches the sockets of every instance through the Redis        *)
(* adapter (main.ts) and is not repeated: what is on its way to a socket   *)
(* that disconnects is lost.  Conversations are opened elsewhere.          *)
(***************************************************************************)
EXTENDS Naturals, FiniteSets

CONSTANTS
    Members,        \* the users
    Pairs,          \* the participants conversations may have
    Sends,          \* POST /conversations/:id/messages calls
    Clients,        \* clients of the namespace /ws
    Sender,         \* Sender[s]: the user whose token s carries
    Owner,          \* Owner[c]: the user of client c
    PageSize        \* MESSAGES_PAGE_SIZE

\* What the constants have to be; who composes this module assumes it.
ChatConstants == /\ IsFiniteSet(Sends)
                 /\ PageSize \in Nat \ {0}
                 /\ Pairs \subseteq SUBSET Members
                 /\ Sender \in [Sends -> Members] /\ Owner \in [Clients -> Members]

VARIABLES
    conversations,  \* the conversations collection, by participants
    thread,         \* the conversation each send and each client names
    clock,          \* new Date(), counted
    createdAt,      \* createdAt of each message (0: none yet)
    stamp,          \* the date a send is to write to lastMessageAt (0: none)
    stored,         \* the messages collection
    lastMessageAt,  \* by conversation
    at,             \* where each send is
    link,           \* where each client is
    net,            \* emitted messages on their way to a client
    seen,           \* messages each client has
    page,           \* the page a client reads next (0: it has read them all)
    raced           \* auxiliary: <<s, m>>: when the message s was dated, the send m
                    \* had the date in hand it was to write to lastMessageAt

chatVars == <<thread, clock, createdAt, stamp, stored, lastMessageAt, at, link,
              net, seen, page, raced>>
sendVars == <<clock, createdAt, stamp, stored, lastMessageAt, at, raced>>
clientVars == <<link, net, seen, page>>

Posting == {"insert", "touch", "write", "emit"}

Advance(s, l) == at' = [at EXCEPT ![s] = l]

\* assertParticipant
IsParticipant(u, p) == p \in conversations /\ u \in p

MessagesOf(p) == {s \in stored : thread[s] = p}

\* The sends that are about to write the date of a conversation.
InHand(p) == {m \in Sends : thread[m] = p /\ at[m] = "write"}

\* The messages of a conversation that are newer than s.
Newer(p, s) == {m \in MessagesOf(p) : createdAt[m] > createdAt[s]}

NobodyInRoom(p) == {}                                               \* mutant

\* The clients in the room of a conversation.
RoomFor(p) == {c \in Clients : thread[c] = p /\ link[c] = "joined"}

\* Mutant: skip(page * MESSAGES_PAGE_SIZE).
SkipsOnePage(p, n) ==
    {s \in MessagesOf(p) :
        LET before == Cardinality(Newer(p, s))
        IN  n * PageSize <= before /\ before < (n + 1) * PageSize}

\* sort({createdAt: -1}).skip((page - 1) * size).limit(size).  Messages of one
\* millisecond keep one order, that of the index (conversationId, createdAt).
PageOf(p, n) ==
    {s \in MessagesOf(p) :
        LET before == Cardinality(Newer(p, s))
        IN  (n - 1) * PageSize <= before /\ before < n * PageSize}

-----------------------------------------------------------------------------
ChatInit ==
    /\ thread \in [Sends \cup Clients -> Pairs]
    /\ clock = 0
    /\ createdAt = [s \in Sends |-> 0]
    /\ stamp = [s \in Sends |-> 0]
    /\ stored = {}
    /\ lastMessageAt = [p \in Pairs |-> 0]
    /\ at = [s \in Sends |-> "idle"]
    /\ link = [c \in Clients |-> "off"]
    /\ net = {}
    /\ seen = [c \in Clients |-> {}]
    /\ page = [c \in Clients |-> 1]
    /\ raced = {}

(* POST /conversations/:id/messages.                                       *)

\* assertParticipant, and the createdAt Mongoose gives the new document.
CheckSender(s) ==
    /\ at[s] = "idle"
    /\ \/ /\ ~IsParticipant(Sender[s], thread[s])        \* 404, 403
          /\ Advance(s, "failed")
          /\ UNCHANGED <<clock, createdAt, raced>>
       \/ /\ IsParticipant(Sender[s], thread[s])
          /\ clock' = clock + 1
          /\ createdAt' = [createdAt EXCEPT ![s] = clock']
          /\ raced' = raced \cup {<<s, m>> : m \in InHand(thread[s])}
          /\ Advance(s, "insert")
    /\ UNCHANGED <<conversations, thread, stamp, stored, lastMessageAt, clientVars>>

\* Mutant: the insert is not awaited and its failure goes unnoticed.
InsertUnawaited(s) ==
    /\ at[s] = "insert"
    /\ stored' = stored \cup {s} \/ UNCHANGED stored
    /\ Advance(s, "touch")
    /\ UNCHANGED <<conversations, thread, clock, createdAt, stamp, lastMessageAt,
                   clientVars, raced>>

\* messageModel.create
InsertMessage(s) ==
    /\ at[s] = "insert"
    /\ stored' = stored \cup {s}
    /\ Advance(s, "touch")
    /\ UNCHANGED <<conversations, thread, clock, createdAt, stamp, lastMessageAt,
                   clientVars, raced>>

\* The argument of updateOne: new Date() ...
Touch(s) ==
    /\ at[s] = "touch"
    /\ clock' = clock + 1
    /\ stamp' = [stamp EXCEPT ![s] = clock']
    /\ Advance(s, "write")
    /\ UNCHANGED <<conversations, thread, createdAt, stored, lastMessageAt,
                   clientVars, raced>>

\* Mutant: the update is sent off without await, and may not arrive.
WriteUnawaited(s) ==
    /\ at[s] = "write"
    /\ Advance(s, "emit")
    /\ UNCHANGED <<conversations, thread, clock, createdAt, stamp, stored,
                   lastMessageAt, clientVars, raced>>

\* ... and the update itself, which looks at no earlier value.
WriteLastMessageAt(s) ==
    /\ at[s] = "write"
    /\ lastMessageAt' = [lastMessageAt EXCEPT ![thread[s]] = stamp[s]]
    /\ stamp' = [stamp EXCEPT ![s] = 0]
    /\ Advance(s, "emit")
    /\ UNCHANGED <<conversations, thread, clock, createdAt, stored, clientVars, raced>>

\* emitNewMessage, and the answer to the sender.
Emit(s) ==
    /\ at[s] = "emit"
    /\ net' = net \cup {<<c, s>> : c \in RoomFor(thread[s])}
    /\ Advance(s, "done")
    /\ UNCHANGED <<conversations, thread, clock, createdAt, stamp, stored,
                   lastMessageAt, link, seen, page, raced>>

\* A statement fails or the process dies before the emit.
SendFails(s) ==
    /\ at[s] \in Posting
    /\ Advance(s, "failed")
    /\ stamp' = [stamp EXCEPT ![s] = 0]
    /\ UNCHANGED <<conversations, thread, clock, createdAt, stored,
                   lastMessageAt, clientVars, raced>>

(* The socket and GET /conversations/:id of a client.                      *)

\* handleConnection with a valid token.
Connect(c) ==
    /\ link[c] = "off"
    /\ link' = [link EXCEPT ![c] = "on"]
    /\ UNCHANGED <<conversations, thread, sendVars, net, seen, page>>

\* handleJoin: assertParticipant ...
CheckJoin(c) ==
    /\ link[c] = "on"
    /\ IsParticipant(Owner[c], thread[c])
    /\ link' = [link EXCEPT ![c] = "checked"]
    /\ UNCHANGED <<conversations, thread, sendVars, net, seen, page>>

\* ... and client.join.
Join(c) ==
    /\ link[c] = "checked"
    /\ link' = [link EXCEPT ![c] = "joined"]
    /\ UNCHANGED <<conversations, thread, sendVars, net, seen, page>>

\* handleLeave.
Leave(c) ==
    /\ link[c] = "joined"
    /\ link' = [link EXCEPT ![c] = "on"]
    /\ page' = [page EXCEPT ![c] = 1]
    /\ UNCHANGED <<conversations, thread, sendVars, net, seen>>

\* getConversation: one page; a short one is the last.
ReadPage(c) ==
    /\ link[c] = "joined" /\ page[c] # 0
    /\ LET read == PageOf(thread[c], page[c]) IN
       /\ seen' = [seen EXCEPT ![c] = @ \cup read]
       /\ page' = [page EXCEPT ![c] = IF Cardinality(read) < PageSize THEN 0 ELSE @ + 1]
    /\ UNCHANGED <<conversations, thread, sendVars, net, link>>

Deliver(c, s) ==
    /\ <<c, s>> \in net
    /\ net' = net \ {<<c, s>>}
    /\ seen' = [seen EXCEPT ![c] = @ \cup {s}]
    /\ UNCHANGED <<conversations, thread, sendVars, link, page>>

\* The connection breaks, with all that was on its way.
Disconnect(c) ==
    /\ link[c] # "off"
    /\ link' = [link EXCEPT ![c] = "off"]
    /\ net' = {m \in net : m[1] # c}
    /\ page' = [page EXCEPT ![c] = 1]
    /\ UNCHANGED <<conversations, thread, sendVars, seen>>

SendStep(s) == \/ CheckSender(s) \/ InsertMessage(s) \/ Touch(s)
               \/ WriteLastMessageAt(s) \/ Emit(s)
ClientStep(c) == \/ Connect(c) \/ CheckJoin(c) \/ Join(c) \/ ReadPage(c)
                 \/ \E s \in Sends : Deliver(c, s)

ChatNext == \/ \E s \in Sends : SendStep(s) \/ SendFails(s)
            \/ \E c \in Clients : ClientStep(c) \/ Leave(c) \/ Disconnect(c)

\* The environment: somebody opens a conversation, and none is ever closed.
OpenThread == /\ \E p \in Pairs : conversations' = conversations \cup {p}
              /\ UNCHANGED chatVars

ChatSpec == /\ conversations = {} /\ ChatInit
            /\ [][ChatNext \/ OpenThread]_<<conversations, chatVars>>

\* Node, MongoDB and Redis go on, and a client reads what it can; nobody is
\* obliged to connect, to join or to write.
ChatFairness ==
    /\ \A s \in Sends : WF_<<conversations, chatVars>>(at[s] # "idle" /\ SendStep(s))
    /\ \A c \in Clients :
          /\ WF_<<conversations, chatVars>>(ReadPage(c))
          /\ \A s \in Sends : WF_<<conversations, chatVars>>(Deliver(c, s))

-----------------------------------------------------------------------------
(* Properties.                                                             *)

ChatTypeOK ==
    /\ thread \in [Sends \cup Clients -> Pairs]
    /\ clock \in Nat
    /\ createdAt \in [Sends -> 0 .. clock] /\ stamp \in [Sends -> 0 .. clock]
    /\ stored \subseteq Sends
    /\ lastMessageAt \in [Pairs -> 0 .. clock]
    /\ at \in [Sends -> {"idle", "done", "failed"} \cup Posting]
    /\ link \in [Clients -> {"off", "on", "checked", "joined"}]
    /\ net \subseteq Clients \X Sends
    /\ seen \in [Clients -> SUBSET Sends]
    /\ page \in [Clients -> Nat]
    /\ raced \subseteq Sends \X Sends

\* A client that joined the room and then paged to the end, and is still in
\* the room, misses nothing: every stored message of the conversation is on
\* its screen, on its way, or still to be emitted, though pages are cut by
\* offset from a list that grows meanwhile.  Only a message whose send died
\* before its emit has to wait for the next reading.
NothingMissed ==
    \A c \in Clients : link[c] = "joined" /\ page[c] = 0 =>
        \A s \in MessagesOf(thread[c]) :
            \/ s \in seen[c]
            \/ <<c, s>> \in net
            \/ at[s] \in {"touch", "write", "emit", "failed"}

\* And it comes to show them: a client that some time stays in the room will
\* have every message whose send was answered, also those sent before it
\* joined or while its connection was broken.
EveryoneCatchesUp ==
    \A c \in Clients :
        <>[](link[c] = "joined")
            => <>[](\A s \in Sends : /\ at[s] = "done" /\ thread[s] = thread[c]
                                    => s \in seen[c])

\* A client never shows what is not in the collection: whatever it got live it
\* will find in the pages again.
LiveIsStored ==
    \A c \in Clients : seen[c] \cup {s \in Sends : <<c, s>> \in net} \subseteq stored

\* lastMessageAt, by which conversations are listed, is later than a message
\* whose send has written it, whatever other sends write after it.  It can be
\* the earlier date of another send (updateOne looks at no value), but only of
\* one that had its date in hand when the message came: a conversation is
\* never put further back than to a send it overlapped with.
ThreadDated ==
    \A s \in stored : at[s] \in {"emit", "done"} =>
        \/ lastMessageAt[thread[s]] > createdAt[s]
        \/ \E m \in MessagesOf(thread[s]) : /\ <<s, m>> \in raced
                                            /\ lastMessageAt[thread[s]] > createdAt[m]
=============================================================================
