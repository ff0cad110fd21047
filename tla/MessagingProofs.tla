-------------------------- MODULE MessagingProofs --------------------------
(***************************************************************************)
(* Messaging, proved for any number of users, messages and clients and any *)
(* page size, from ChatConstants.                                          *)
(*                                                                         *)
(* NothingMissed rests on counting: what a client has not caught yet is at *)
(* or behind the page it reads next (Paging), for new messages push old    *)
(* ones back, never forward; and a page that is not full is the last one   *)
(* (ShortPageIsLast), for the messages of a conversation have distinct     *)
(* dates, so that their ranks are 0, 1, 2, ... without a gap.              *)
(***************************************************************************)
EXTENDS Messaging, TLAPS, FiniteSetTheorems, FunctionTheorems

ChatStep == [ChatNext \/ OpenThread]_<<conversations, chatVars>>

Dated ==
    /\ \A m, n \in Sends : m # n /\ createdAt[m] = createdAt[n] => createdAt[m] = 0
    /\ \A s \in Sends :
          /\ at[s] \in Posting \cup {"done"} => createdAt[s] > 0
          /\ at[s] \in {"touch", "write", "emit", "done"} => s \in stored
          /\ s \in stored => createdAt[s] > 0 /\ at[s] # "idle"

-----------------------------------------------------------------------------
LEMMA DatedInit == ASSUME ChatConstants PROVE ChatInit => ChatTypeOK /\ Dated
  BY DEF ChatConstants, ChatInit, ChatTypeOK, Dated, Posting

LEMMA DatedStep ==
  ASSUME ChatConstants, ChatTypeOK, Dated, ChatStep
  PROVE  ChatTypeOK' /\ Dated'
  <1> USE DEF ChatConstants, ChatTypeOK, Dated, Posting, Advance, sendVars, clientVars
  <1>1. ASSUME NEW s \in Sends, CheckSender(s) PROVE ChatTypeOK' /\ Dated'
    <2>1. CASE createdAt' = createdAt
      BY <1>1, <2>1 DEF CheckSender
    <2>2. CASE createdAt' # createdAt
      <3>1. /\ at[s] = "idle" /\ clock' = clock + 1 /\ at' = [at EXCEPT ![s] = "insert"]
            /\ createdAt' = [createdAt EXCEPT ![s] = clock + 1]
            /\ raced' \subseteq raced \cup {<<s, m>> : m \in Sends}
            /\ UNCHANGED <<conversations, thread, stamp, stored, lastMessageAt, clientVars>>
        BY <1>1, <2>2 DEF CheckSender, InHand
      <3>2. \A m \in Sends : createdAt[m] # clock + 1
        OBVIOUS
      <3>3. thread[s] \in Pairs
        OBVIOUS
      <3>4. ChatTypeOK'
        BY <3>1, <3>3
      <3>5. Dated'
        BY <3>1, <3>2
      <3>6. QED
        BY <3>4, <3>5
    <2>3. QED
      BY <2>1, <2>2
  <1>2. ASSUME NEW s \in Sends, InsertMessage(s) PROVE ChatTypeOK' /\ Dated'
    BY <1>2 DEF InsertMessage
  <1>3. ASSUME NEW s \in Sends, Touch(s) PROVE ChatTypeOK' /\ Dated'
    BY <1>3 DEF Touch
  <1>4. ASSUME NEW s \in Sends, WriteLastMessageAt(s) PROVE ChatTypeOK' /\ Dated'
    BY <1>4 DEF WriteLastMessageAt
  <1>5. ASSUME NEW s \in Sends, Emit(s) PROVE ChatTypeOK' /\ Dated'
    BY <1>5 DEF Emit, RoomFor
  <1>6. ASSUME NEW s \in Sends, SendFails(s) PROVE ChatTypeOK' /\ Dated'
    BY <1>6 DEF SendFails
  <1>7. ASSUME NEW c \in Clients, Connect(c) \/ CheckJoin(c) \/ Join(c) \/ Leave(c)
        PROVE  ChatTypeOK' /\ Dated'
    BY <1>7 DEF Connect, CheckJoin, Join, Leave
  <1>8. ASSUME NEW c \in Clients, ReadPage(c) PROVE ChatTypeOK' /\ Dated'
    BY <1>8 DEF ReadPage, PageOf, MessagesOf
  <1>9. ASSUME NEW c \in Clients, NEW s \in Sends, Deliver(c, s) PROVE ChatTypeOK' /\ Dated'
    BY <1>9 DEF Deliver
  <1>10. ASSUME NEW c \in Clients, Disconnect(c) PROVE ChatTypeOK' /\ Dated'
    BY <1>10 DEF Disconnect
  <1>11. CASE OpenThread \/ UNCHANGED <<conversations, chatVars>>
    BY <1>11 DEF OpenThread, chatVars
  <1>12. QED
    BY <1>1, <1>2, <1>3, <1>4, <1>5, <1>6, <1>7, <1>8, <1>9, <1>10, <1>11
       DEF ChatStep, ChatNext, SendStep, ClientStep

LEMMA AlwaysDated == ASSUME ChatConstants PROVE ChatSpec => [](ChatTypeOK /\ Dated)
  <1>1. ChatTypeOK /\ Dated /\ [ChatNext \/ OpenThread]_<<conversations, chatVars>>
            => (ChatTypeOK /\ Dated)'
    BY DatedStep DEF ChatStep
  <1>2. QED
    BY DatedInit, <1>1, PTL DEF ChatSpec
\* Messages, their dates and what clients have are of the declared types.
THEOREM Typing == ASSUME ChatConstants PROVE ChatSpec => []ChatTypeOK
  <1>1. ChatTypeOK /\ Dated => ChatTypeOK
    OBVIOUS
  <1>2. QED
    BY AlwaysDated, <1>1, PTL

-----------------------------------------------------------------------------
(* Live messages.                                                          *)

LEMMA LiveStep ==
  ASSUME ChatConstants, ChatTypeOK, Dated, LiveIsStored, ChatStep
  PROVE  LiveIsStored'
  <1> USE DEF ChatTypeOK, Dated, Posting, Advance, sendVars, clientVars, LiveIsStored
  <1>1. CASE net' \subseteq net /\ seen' = seen /\ stored \subseteq stored'
    BY <1>1
  <1>2. ASSUME NEW s \in Sends, Emit(s) PROVE LiveIsStored'
    BY <1>2 DEF Emit, RoomFor
  <1>3. ASSUME NEW c \in Clients, ReadPage(c) PROVE LiveIsStored'
    BY <1>3 DEF ReadPage, PageOf, MessagesOf
  <1>4. ASSUME NEW c \in Clients, NEW s \in Sends, Deliver(c, s) PROVE LiveIsStored'
    BY <1>4 DEF Deliver
  <1>5. ASSUME NEW s \in Sends, CheckSender(s) \/ InsertMessage(s) \/ Touch(s)
                                \/ WriteLastMessageAt(s) \/ SendFails(s)
        PROVE  LiveIsStored'
    BY <1>1, <1>5 DEF CheckSender, InsertMessage, Touch, WriteLastMessageAt, SendFails
  <1>6. ASSUME NEW c \in Clients, Connect(c) \/ CheckJoin(c) \/ Join(c) \/ Leave(c) \/ Disconnect(c)
        PROVE  LiveIsStored'
    BY <1>1, <1>6 DEF Connect, CheckJoin, Join, Leave, Disconnect
  <1>7. CASE OpenThread \/ UNCHANGED <<conversations, chatVars>>
    BY <1>1, <1>7 DEF OpenThread, chatVars
  <1>8. QED
    BY <1>2, <1>3, <1>4, <1>5, <1>6, <1>7 DEF ChatStep, ChatNext, SendStep, ClientStep

\* Nothing is emitted before it is stored, so nobody is shown a message that
\* the pages do not have, whatever fails after the insert.
THEOREM LiveStored == ASSUME ChatConstants PROVE ChatSpec => []LiveIsStored
  <1>1. ChatInit => LiveIsStored
    BY DEF ChatInit, LiveIsStored
  <1>2. ChatTypeOK /\ Dated /\ LiveIsStored /\ [ChatNext \/ OpenThread]_<<conversations, chatVars>>
            => LiveIsStored'
    BY LiveStep DEF ChatStep
  <1>3. QED
    BY AlwaysDated, <1>1, <1>2, PTL DEF ChatSpec

-----------------------------------------------------------------------------
(* The date of a conversation.                                             *)

\* What a send is about to write is later than its own message, and than every
\* other of its conversation but those that came when it had it in hand.
DatesInHand ==
    \A m \in Sends : at[m] = "write" =>
        /\ createdAt[m] < stamp[m]
        /\ \A s \in Sends : thread[s] = thread[m] /\ createdAt[s] > 0
                               => createdAt[s] < stamp[m] \/ <<s, m>> \in raced

DateInv == DatesInHand /\ ThreadDated

LEMMA DateStep ==
  ASSUME ChatConstants, ChatTypeOK, Dated, DateInv, ChatStep
  PROVE  DateInv'
  <1> USE DEF ChatTypeOK, Dated, Posting, Advance, sendVars, clientVars, DateInv, MessagesOf
  <1>1. CASE UNCHANGED <<thread, createdAt, stamp, stored, lastMessageAt, at, raced>>
    BY <1>1 DEF DatesInHand, ThreadDated
  \* A new message is later than the dates in hand, and knows whose they are.
  <1>2. ASSUME NEW s \in Sends, CheckSender(s) PROVE DateInv'
    <2>1. CASE createdAt' = createdAt
      BY ZenonT(40), <1>2, <2>1 DEF CheckSender, DatesInHand, ThreadDated
    <2>2. CASE createdAt' # createdAt
      <3>1. /\ at[s] = "idle" /\ at' = [at EXCEPT ![s] = "insert"]
            /\ createdAt' = [createdAt EXCEPT ![s] = clock + 1]
            /\ raced' = raced \cup {<<s, m>> : m \in InHand(thread[s])}
            /\ UNCHANGED <<conversations, thread, stamp, stored, lastMessageAt>>
        BY <1>2, <2>2 DEF CheckSender
      <3>2. s \notin stored
        BY <3>1
      <3>3. DatesInHand'
        BY <3>1 DEF DatesInHand, InHand
      <3>4. ThreadDated'
        <4>1. \A m \in stored : at'[m] = at[m] /\ createdAt'[m] = createdAt[m]
          BY <3>1, <3>2
        <4>2. QED
          BY <3>1, <4>1 DEF ThreadDated
      <3>5. QED
        BY <3>3, <3>4
    <2>3. QED
      BY <2>1, <2>2
  <1>3. ASSUME NEW s \in Sends, InsertMessage(s) PROVE DateInv'
    BY ZenonT(40), <1>3 DEF InsertMessage, DatesInHand, ThreadDated
  <1>4. ASSUME NEW s \in Sends, Touch(s) PROVE DateInv'
    <2>1. /\ at[s] = "touch" /\ at' = [at EXCEPT ![s] = "write"]
          /\ stamp' = [stamp EXCEPT ![s] = clock + 1]
          /\ UNCHANGED <<thread, createdAt, stored, lastMessageAt, raced>>
      BY <1>4 DEF Touch
    <2>2. \A m \in Sends : createdAt[m] < clock + 1
      OBVIOUS
    <2>3. DatesInHand'
      BY <2>1, <2>2 DEF DatesInHand
    <2>4. ThreadDated'
      BY <2>1 DEF ThreadDated
    <2>5. QED
      BY <2>3, <2>4
  \* The date of m is now that of the conversation.
  <1>5. ASSUME NEW m \in Sends, WriteLastMessageAt(m) PROVE DateInv'
    <2>1. /\ at[m] = "write" /\ at' = [at EXCEPT ![m] = "emit"] /\ thread[m] \in Pairs
          /\ stamp' = [stamp EXCEPT ![m] = 0]
          /\ lastMessageAt' = [lastMessageAt EXCEPT ![thread[m]] = stamp[m]]
          /\ UNCHANGED <<thread, createdAt, stored, raced>>
      BY <1>5 DEF WriteLastMessageAt
    <2>2. DatesInHand'
      BY <2>1 DEF DatesInHand
    <2>3. ThreadDated'
      <3>1. SUFFICES ASSUME NEW s \in stored, at'[s] \in {"emit", "done"}
                     PROVE  \/ lastMessageAt'[thread[s]] > createdAt[s]
                            \/ \E n \in MessagesOf(thread[s]) :
                                  <<s, n>> \in raced /\ lastMessageAt'[thread[s]] > createdAt[n]
        BY <2>1 DEF ThreadDated
      <3>2. s \in Sends /\ createdAt[s] > 0 /\ createdAt[s] \in Nat /\ thread[s] \in Pairs
        OBVIOUS
      <3>3. CASE thread[s] = thread[m]
        <4>1. /\ lastMessageAt'[thread[s]] = stamp[m] /\ stamp[m] \in Nat
              /\ m \in MessagesOf(thread[s]) /\ createdAt[m] \in Nat
          BY <2>1, <3>2, <3>3
        <4>2. /\ createdAt[m] < stamp[m]
              /\ createdAt[s] < stamp[m] \/ <<s, m>> \in raced
          BY <2>1, <3>2, <3>3 DEF DatesInHand
        <4>3. QED
          BY <3>2, <4>1, <4>2
      <3>4. CASE thread[s] # thread[m]
        <4>1. /\ at[s] \in {"emit", "done"}
              /\ lastMessageAt'[thread[s]] = lastMessageAt[thread[s]]
          BY <2>1, <3>1, <3>2, <3>4
        <4>2. QED
          BY <4>1 DEF ThreadDated
      <3>5. QED
        BY <3>3, <3>4
    <2>4. QED
      BY <2>2, <2>3
  <1>6. ASSUME NEW s \in Sends, Emit(s) PROVE DateInv'
    BY <1>6 DEF Emit, DatesInHand, ThreadDated
  <1>7. ASSUME NEW s \in Sends, SendFails(s) PROVE DateInv'
    BY <1>7 DEF SendFails, DatesInHand, ThreadDated
  <1>8. ASSUME NEW c \in Clients, ClientStep(c) \/ Leave(c) \/ Disconnect(c) PROVE DateInv'
    BY <1>1, <1>8 DEF ClientStep, Connect, CheckJoin, Join, ReadPage, Deliver, Leave, Disconnect
  <1>9. CASE OpenThread \/ UNCHANGED <<conversations, chatVars>>
    BY <1>1, <1>9 DEF OpenThread, chatVars
  <1>10. QED
    BY <1>2, <1>3, <1>4, <1>5, <1>6, <1>7, <1>8, <1>9 DEF ChatStep, ChatNext, SendStep

\* However many sends overlap, the date of a conversation is later than every
\* message whose send wrote it, or at worst than one that send overlapped with.
THEOREM ThreadsAreDated == ASSUME ChatConstants PROVE ChatSpec => []ThreadDated
  <1>1. ChatInit => DateInv
    BY DEF ChatInit, DateInv, DatesInHand, ThreadDated
  <1>2. ChatTypeOK /\ Dated /\ DateInv /\ [ChatNext \/ OpenThread]_<<conversations, chatVars>>
            => DateInv'
    BY DateStep DEF ChatStep
  <1>3. DateInv => ThreadDated
    BY DEF DateInv
  <1>4. QED
    BY AlwaysDated, <1>1, <1>2, <1>3, PTL DEF ChatSpec
-----------------------------------------------------------------------------
(* Paging.                                                                 *)

LEMMA FewMessages ==
  ASSUME ChatConstants, ChatTypeOK, NEW p
  PROVE  IsFiniteSet(MessagesOf(p)) /\ Cardinality(MessagesOf(p)) \in Nat
  BY FS_Subset, FS_CardinalityType DEF ChatConstants, ChatTypeOK, MessagesOf

LEMMA NewerAreFewer ==
  ASSUME ChatConstants, ChatTypeOK, NEW p, NEW s \in MessagesOf(p)
  PROVE  /\ IsFiniteSet(Newer(p, s)) /\ Cardinality(Newer(p, s)) \in Nat
         /\ Cardinality(Newer(p, s)) < Cardinality(MessagesOf(p))
  <1>1. IsFiniteSet(MessagesOf(p)) /\ Cardinality(MessagesOf(p)) \in Nat
    BY FewMessages
  <1>2. createdAt[s] \in Nat
    BY DEF ChatTypeOK, MessagesOf
  <1>3. Newer(p, s) \subseteq MessagesOf(p) /\ s \notin Newer(p, s)
    BY <1>2 DEF Newer
  <1>4. IsFiniteSet(Newer(p, s)) /\ Cardinality(Newer(p, s)) <= Cardinality(MessagesOf(p))
        /\ Cardinality(Newer(p, s)) # Cardinality(MessagesOf(p))
    BY <1>1, <1>3, FS_Subset
  <1>5. Cardinality(Newer(p, s)) \in Nat
    BY <1>4, FS_CardinalityType
  <1>6. QED
    BY <1>1, <1>4, <1>5

\* Messages have distinct dates, so two of them are not at one place.
LEMMA RanksDiffer ==
  ASSUME ChatConstants, ChatTypeOK, Dated, NEW p,
         NEW a \in MessagesOf(p), NEW b \in MessagesOf(p), a # b
  PROVE  Cardinality(Newer(p, a)) # Cardinality(Newer(p, b))
  <1>1. ASSUME NEW x \in MessagesOf(p), NEW y \in MessagesOf(p), createdAt[x] < createdAt[y]
        PROVE  Cardinality(Newer(p, x)) # Cardinality(Newer(p, y))
    <2>1. Newer(p, y) \subseteq Newer(p, x) /\ y \in Newer(p, x) /\ y \notin Newer(p, y)
      BY <1>1 DEF Newer, MessagesOf, ChatTypeOK
    <2>2. IsFiniteSet(Newer(p, x))
      BY NewerAreFewer
    <2>3. QED
      BY <2>1, <2>2, FS_Subset
  <1>2. createdAt[a] # createdAt[b] /\ createdAt[a] \in Nat /\ createdAt[b] \in Nat
    BY DEF Dated, MessagesOf, ChatTypeOK
  <1>3. QED
    BY <1>1, <1>2

\* A page that is not full is the last: nothing lies behind it.
LEMMA ShortPageIsLast ==
  ASSUME ChatConstants, ChatTypeOK, Dated, NEW p, NEW n \in Nat \ {0},
         Cardinality(PageOf(p, n)) < PageSize, NEW s \in MessagesOf(p)
  PROVE  Cardinality(Newer(p, s)) < n * PageSize
  <1> DEFINE M == MessagesOf(p)
             N == Cardinality(M)
             rank == [m \in M |-> Cardinality(Newer(p, m))]
             lo == (n - 1) * PageSize
             hi == n * PageSize
             onPage == PageOf(p, n)
             place == [m \in onPage |-> Cardinality(Newer(p, m))]
  <1>1. /\ IsFiniteSet(M) /\ N \in Nat /\ PageSize \in Nat \ {0}
        /\ lo \in Nat /\ hi \in Nat /\ hi = lo + PageSize
    BY FewMessages DEF ChatConstants
  <1>2. rank \in [M -> 0 .. N - 1]
    BY <1>1, NewerAreFewer
  <1>3. \A a, b \in M : rank[a] = rank[b] => a = b
    BY RanksDiffer
  <1>4. rank \in Injection(M, 0 .. N - 1)
    BY <1>2, <1>3 DEF Injection, IsInjective
  <1>5. IsFiniteSet(0 .. N - 1) /\ Cardinality(0 .. N - 1) = N
    <2>1. 0 \in Int /\ N - 1 \in Int /\ (N - 1) - 0 + 1 = N /\ (0 > N - 1 => N = 0)
      BY <1>1
    <2>2. QED
      BY <2>1, FS_Interval
  <1>6. rank \in Surjection(M, 0 .. N - 1)
    <2> HIDE DEF M, N, rank
    <2>1. QED
      BY <1>4, <1>5, FS_Injection DEF N
  <1>7. \A i \in 0 .. N - 1 : \E m \in M : Cardinality(Newer(p, m)) = i
    BY <1>6 DEF Surjection
  <1>8. SUFFICES ASSUME Cardinality(Newer(p, s)) >= hi PROVE FALSE
    BY <1>1, NewerAreFewer
  <1>9. hi <= N - 1
    BY <1>1, <1>8, NewerAreFewer
  <1>10. onPage \subseteq M /\ place \in [onPage -> lo .. hi - 1]
    <2>1. ASSUME NEW m \in onPage
          PROVE  m \in M /\ Cardinality(Newer(p, m)) \in lo .. hi - 1
      <3>1. m \in M /\ lo <= Cardinality(Newer(p, m)) /\ Cardinality(Newer(p, m)) < hi
        BY DEF PageOf
      <3>2. Cardinality(Newer(p, m)) \in Nat
        BY <3>1, NewerAreFewer
      <3>3. QED
        BY <1>1, <3>1, <3>2
    <2>2. QED
      BY <2>1
  <1>11. ASSUME NEW i \in lo .. hi - 1 PROVE \E m \in onPage : place[m] = i
    <2>1. i \in 0 .. N - 1 /\ lo <= i /\ i < hi
      BY <1>1, <1>9
    <2>2. PICK m \in M : Cardinality(Newer(p, m)) = i
      BY <1>7, <2>1
    <2>3. m \in onPage
      BY <2>1, <2>2 DEF PageOf
    <2>4. QED
      BY <2>2, <2>3
  <1>12. place \in Surjection(onPage, lo .. hi - 1)
    BY <1>10, <1>11 DEF Surjection
  <1>13. IsFiniteSet(onPage) /\ Cardinality(onPage) \in Nat
    BY <1>1, <1>10, FS_Subset, FS_CardinalityType
  <1>14. Cardinality(lo .. hi - 1) <= Cardinality(onPage)
    <2> HIDE DEF onPage, place, lo, hi
    <2>1. QED
      BY <1>12, <1>13, FS_Surjection
  <1>15. Cardinality(lo .. hi - 1) = PageSize
    <2> HIDE DEF lo, hi
    <2>1. lo \in Int /\ hi - 1 \in Int /\ ~(lo > hi - 1) /\ (hi - 1) - lo + 1 = PageSize
      BY <1>1
    <2>2. QED
      BY <2>1, FS_Interval
  <1>16. QED
    BY <1>1, <1>13, <1>14, <1>15
Caught(c, s) == \/ s \in seen[c] \/ <<c, s>> \in net
                \/ at[s] \in {"touch", "write", "emit", "failed"}

Behind(c, s) == /\ page[c] # 0
                /\ (page[c] - 1) * PageSize <= Cardinality(Newer(thread[c], s))

Paging ==
    \A c \in Clients :
        /\ link[c] # "joined" => page[c] = 1
        /\ link[c] = "joined" => \A s \in MessagesOf(thread[c]) : Caught(c, s) \/ Behind(c, s)

LEMMA PagingCatches == Paging => NothingMissed
  BY DEF Paging, Caught, Behind, NothingMissed

LEMMA PagingStep ==
  ASSUME ChatConstants, ChatTypeOK, Dated, Paging, ChatStep
  PROVE  Paging'
  <1> USE DEF ChatTypeOK, Posting, Advance, sendVars, clientVars
  \* A step that stores nothing, takes nothing from a client in its room and
  \* lets nobody in or on.
  <1>1. ASSUME UNCHANGED <<thread, stored, link, page>>,
               \A s \in stored : createdAt'[s] = createdAt[s],
               \A c \in Clients, s \in stored :
                   link[c] = "joined" /\ thread[c] = thread[s] /\ Caught(c, s) => Caught(c, s)'
        PROVE  Paging'
    <2>1. ASSUME NEW p, NEW s \in MessagesOf(p)
          PROVE  MessagesOf(p)' = MessagesOf(p) /\ Newer(p, s)' = Newer(p, s)
      BY <1>1 DEF MessagesOf, Newer
    <2>2. \A p : MessagesOf(p)' = MessagesOf(p)
      BY <1>1 DEF MessagesOf
    <2>3. SUFFICES ASSUME NEW c \in Clients, link[c] = "joined", NEW s \in MessagesOf(thread[c])
                   PROVE  Caught(c, s)' \/ Behind(c, s)'
      BY <1>1, <2>2 DEF Paging
    <2>4. s \in stored /\ thread[s] = thread[c]
      BY DEF MessagesOf
    <2>5. CASE Caught(c, s)
      BY <1>1, <2>3, <2>4, <2>5
    <2>6. CASE Behind(c, s)
      BY <1>1, <2>1, <2>6 DEF Behind
    <2>7. QED
      BY <2>3, <2>5, <2>6 DEF Paging
  <1>2. ASSUME NEW s \in Sends, CheckSender(s) PROVE Paging'
    <2>1. s \notin stored /\ at[s] = "idle"
      BY <1>2 DEF CheckSender, Dated
    <2>2. UNCHANGED <<thread, stored, link, page, seen, net>>
      BY <1>2 DEF CheckSender
    <2>3. \A m \in stored : createdAt'[m] = createdAt[m] /\ at'[m] = at[m]
      BY <1>2, <2>1 DEF CheckSender
    <2>4. \A c \in Clients, m \in stored : Caught(c, m) => Caught(c, m)'
      BY <2>2, <2>3 DEF Caught
    <2>5. QED
      BY <1>1, <2>2, <2>3, <2>4
  <1>3. ASSUME NEW s \in Sends, Touch(s) \/ WriteLastMessageAt(s) PROVE Paging'
    <2>1. /\ UNCHANGED <<thread, createdAt, stored, link, page, seen, net>>
          /\ at[s] \in {"touch", "write"} /\ at'[s] \in {"write", "emit"}
          /\ \A m \in Sends : m # s => at'[m] = at[m]
      BY <1>3 DEF Touch, WriteLastMessageAt
    <2>2. \A c \in Clients, m \in stored : Caught(c, m) => Caught(c, m)'
      BY <2>1 DEF Caught
    <2>3. QED
      BY <1>1, <2>1, <2>2
  <1>4. ASSUME NEW s \in Sends, SendFails(s) PROVE Paging'
    <2>1. /\ UNCHANGED <<thread, createdAt, stored, link, page, seen, net>>
          /\ at'[s] = "failed" /\ \A m \in Sends : m # s => at'[m] = at[m]
      BY <1>4 DEF SendFails
    <2>2. \A c \in Clients, m \in stored : Caught(c, m) => Caught(c, m)'
      BY <2>1 DEF Caught
    <2>3. QED
      BY <1>1, <2>1, <2>2
  \* The emit reaches everybody in the room.
  <1>5. ASSUME NEW s \in Sends, Emit(s) PROVE Paging'
    <2>1. /\ UNCHANGED <<thread, createdAt, stored, link, page, seen>>
          /\ net' = net \cup {<<c, s>> : c \in RoomFor(thread[s])}
          /\ \A m \in Sends : m # s => at'[m] = at[m]
      BY <1>5 DEF Emit
    <2>2. ASSUME NEW c \in Clients, NEW m \in stored, link[c] = "joined", thread[c] = thread[m],
                 Caught(c, m)
          PROVE  Caught(c, m)'
      <3>1. CASE m = s
        BY <2>1, <2>2, <3>1 DEF Caught, RoomFor
      <3>2. CASE m # s
        BY <2>1, <2>2, <3>2 DEF Caught
      <3>3. QED
        BY <3>1, <3>2
    <2>3. QED
      BY <1>1, <2>1, <2>2
  \* A new message pushes others back, if any, and is still to be emitted.
  <1>6. ASSUME NEW s \in Sends, InsertMessage(s) PROVE Paging'
    <2>1. /\ UNCHANGED <<thread, createdAt, link, page, seen, net>>
          /\ stored' = stored \cup {s} /\ at'[s] = "touch"
          /\ \A m \in Sends : m # s => at'[m] = at[m]
      BY <1>6 DEF InsertMessage
    <2>2. ChatTypeOK'
      BY <1>6, DatedStep
    <2>3. SUFFICES ASSUME NEW c \in Clients, link[c] = "joined", NEW m \in MessagesOf(thread[c])',
                          m # s
                   PROVE  Caught(c, m)' \/ Behind(c, m)'
      BY <2>1 DEF Paging, Caught
    <2>4. m \in MessagesOf(thread[c]) /\ m \in Sends
      BY <2>1, <2>3 DEF MessagesOf
    <2>5. CASE Caught(c, m)
      BY <2>1, <2>3, <2>4, <2>5 DEF Caught
    <2>6. CASE Behind(c, m)
      <3>1. IsFiniteSet(Newer(thread[c], m)) /\ Cardinality(Newer(thread[c], m)) \in Nat
        BY <2>4, NewerAreFewer
      <3>2. Newer(thread[c], m) \subseteq Newer(thread[c], m)'
        BY <2>1 DEF Newer, MessagesOf
      <3>3. IsFiniteSet(Newer(thread[c], m)')
        <4>1. IsFiniteSet(Sends) /\ Newer(thread[c], m)' \subseteq Sends
          BY <2>1 DEF ChatConstants, Newer, MessagesOf
        <4>2. QED
          BY <4>1, FS_Subset
      <3>4. /\ Cardinality(Newer(thread[c], m)) <= Cardinality(Newer(thread[c], m)')
            /\ Cardinality(Newer(thread[c], m)') \in Nat
        BY <3>2, <3>3, FS_Subset, FS_CardinalityType
      <3>5. page[c] \in Nat /\ PageSize \in Nat /\ (page[c] - 1) * PageSize \in Int
        BY DEF ChatConstants
      <3>6. QED
        BY <2>1, <2>6, <3>1, <3>4, <3>5 DEF Behind
    <2>7. QED
      BY <2>3, <2>4, <2>5, <2>6 DEF Paging
  <1>7. ASSUME NEW c \in Clients, NEW s \in Sends, Deliver(c, s) PROVE Paging'
    <2>1. /\ UNCHANGED <<thread, createdAt, stored, link, page, at>>
          /\ net' = net \ {<<c, s>>} /\ seen' = [seen EXCEPT ![c] = @ \cup {s}]
      BY <1>7 DEF Deliver
    <2>2. \A d \in Clients, m \in stored : Caught(d, m) => Caught(d, m)'
      BY <2>1 DEF Caught
    <2>3. QED
      BY <1>1, <2>1, <2>2
  \* What is not caught yet lies behind the page that was read.
  <1>8. ASSUME NEW c \in Clients, ReadPage(c) PROVE Paging'
    <2> DEFINE p == thread[c]
               n == page[c]
               read == PageOf(p, n)
    <2>1. /\ link[c] = "joined" /\ n \in Nat \ {0}
          /\ seen' = [seen EXCEPT ![c] = @ \cup read]
          /\ page' = [page EXCEPT ![c] = IF Cardinality(read) < PageSize THEN 0 ELSE n + 1]
          /\ UNCHANGED <<thread, createdAt, stored, link, net, at>>
      BY <1>8 DEF ReadPage
    <2>2. \A d \in Clients, m \in stored : Caught(d, m) => Caught(d, m)'
      BY <2>1 DEF Caught
    <2>3. \A q : MessagesOf(q)' = MessagesOf(q)
      BY <2>1 DEF MessagesOf
    <2>4. \A q, m : Newer(q, m)' = Newer(q, m)
      BY <2>1 DEF Newer, MessagesOf
    <2>5. ASSUME NEW m \in MessagesOf(p), ~Caught(c, m)' PROVE Behind(c, m)'
      <3>1. m \in stored /\ ~Caught(c, m) /\ m \notin read
        BY <2>1, <2>2, <2>5 DEF Caught, MessagesOf
      <3>2. (n - 1) * PageSize <= Cardinality(Newer(p, m))
        BY <2>1, <2>5, <3>1 DEF Paging, Behind
      <3>3. ~(Cardinality(Newer(p, m)) < n * PageSize)
        BY <2>5, <3>1, <3>2 DEF PageOf
      <3>4. ~(Cardinality(read) < PageSize)
        BY <2>1, <2>5, <3>3, ShortPageIsLast
      <3>5. page'[c] = n + 1 /\ (n + 1) - 1 = n
        BY <2>1, <3>4
      <3>6. Cardinality(Newer(p, m)) \in Nat /\ n * PageSize \in Nat
        BY <2>1, <2>5, NewerAreFewer DEF ChatConstants
      <3>7. QED
        BY <2>1, <2>4, <3>3, <3>5, <3>6 DEF Behind
    <2>6. ASSUME NEW d \in Clients, d # c, NEW m \in MessagesOf(thread[d]), Behind(d, m)
          PROVE  Behind(d, m)'
      BY <2>1, <2>4, <2>6 DEF Behind
    <2>7. SUFFICES ASSUME NEW d \in Clients
                   PROVE  /\ link[d] # "joined" => page'[d] = 1
                          /\ link[d] = "joined" => \A m \in MessagesOf(thread[d]) :
                                                      Caught(d, m)' \/ Behind(d, m)'
      BY <2>1, <2>3 DEF Paging
    <2>8. CASE d = c
      BY <2>1, <2>5, <2>8
    <2>9. CASE d # c
      <3>1. page'[d] = page[d]
        BY <2>1, <2>9
      <3>2. \A m \in MessagesOf(thread[d]) : m \in stored
        BY DEF MessagesOf
      <3>3. QED
        BY <2>2, <2>6, <2>9, <3>1, <3>2 DEF Paging
    <2>10. QED
      BY <2>8, <2>9
  \* Whoever is outside the room starts at the first page.
  <1>9. ASSUME NEW c \in Clients, Connect(c) \/ CheckJoin(c) \/ Join(c) \/ Leave(c) \/ Disconnect(c)
        PROVE  Paging'
    <2>1. /\ UNCHANGED <<thread, createdAt, stored, at, seen>>
          /\ \A d \in Clients : d # c => link'[d] = link[d] /\ page'[d] = page[d]
          /\ \A d \in Clients, m \in Sends : d # c /\ <<d, m>> \in net => <<d, m>> \in net'
      BY <1>9 DEF Connect, CheckJoin, Join, Leave, Disconnect
    <2>2. page'[c] = 1
      BY <1>9 DEF Connect, CheckJoin, Join, Leave, Disconnect, Paging
    <2>3. \A q : MessagesOf(q)' = MessagesOf(q)
      BY <2>1 DEF MessagesOf
    <2>4. \A q, m : Newer(q, m)' = Newer(q, m)
      BY <2>1 DEF Newer, MessagesOf
    <2>5. ASSUME NEW m \in MessagesOf(thread[c]) PROVE Behind(c, m)'
      <3>1. Cardinality(Newer(thread[c], m)) \in Nat
        BY <2>5, NewerAreFewer
      <3>2. (1 - 1) * PageSize = 0
        BY DEF ChatConstants
      <3>3. QED
        BY <2>1, <2>2, <2>4, <3>1, <3>2 DEF Behind
    <2>6. ASSUME NEW d \in Clients, d # c, NEW m \in MessagesOf(thread[d]),
                 Caught(d, m) \/ Behind(d, m)
          PROVE  Caught(d, m)' \/ Behind(d, m)'
      <3>1. m \in Sends
        BY DEF MessagesOf
      <3>2. CASE Caught(d, m)
        BY <2>1, <2>6, <3>1, <3>2 DEF Caught
      <3>3. CASE Behind(d, m)
        BY <2>1, <2>4, <2>6, <3>3 DEF Behind
      <3>4. QED
        BY <2>6, <3>2, <3>3
    <2>7. QED
      BY <2>1, <2>2, <2>3, <2>5, <2>6 DEF Paging
  <1>10. CASE OpenThread \/ UNCHANGED <<conversations, chatVars>>
    <2>1. UNCHANGED <<thread, createdAt, stored, link, page, seen, net, at>>
      BY <1>10 DEF OpenThread, chatVars
    <2>2. \A c \in Clients, m \in stored : Caught(c, m) => Caught(c, m)'
      BY <2>1 DEF Caught
    <2>3. QED
      BY <1>1, <2>1, <2>2
  <1>11. QED
    BY <1>2, <1>3, <1>4, <1>5, <1>6, <1>7, <1>8, <1>9, <1>10
       DEF ChatStep, ChatNext, SendStep, ClientStep

\* A client that joined the room before it read the pages to their end misses
\* nothing while it stays, however many messages come in between two pages.
THEOREM NothingIsMissed == ASSUME ChatConstants PROVE ChatSpec => []NothingMissed
  <1>1. ChatInit => Paging
    BY DEF ChatInit, Paging
  <1>2. ChatTypeOK /\ Dated /\ Paging /\ [ChatNext \/ OpenThread]_<<conversations, chatVars>>
            => Paging'
    BY PagingStep DEF ChatStep
  <1>3. QED
    BY AlwaysDated, <1>1, <1>2, PagingCatches, PTL DEF ChatSpec

-----------------------------------------------------------------------------
(* Reading comes to an end.                                                *)

\* A client reads on as long as pages are full, and messages keep coming: even
\* so it asks for a page only when all those before it are full of stored
\* messages, at most one past the end.
ReadsWithinThread ==
    \A c \in Clients : (page[c] - 1) * PageSize <= Cardinality(MessagesOf(thread[c]))

\* Behind a full page there are at least as many messages as it ends at.
LEMMA FullPagesAreFilled ==
  ASSUME ChatConstants, ChatTypeOK, Dated, NEW p, NEW n \in Nat \ {0},
         ~(Cardinality(PageOf(p, n)) < PageSize)
  PROVE  n * PageSize <= Cardinality(MessagesOf(p))
  <1> DEFINE N == Cardinality(MessagesOf(p))
             lo == (n - 1) * PageSize
             onPage == PageOf(p, n)
             place == [m \in onPage |-> Cardinality(Newer(p, m))]
  <1>1. /\ N \in Nat /\ PageSize \in Nat \ {0} /\ IsFiniteSet(MessagesOf(p))
        /\ lo \in Nat /\ n * PageSize = lo + PageSize
    BY FewMessages DEF ChatConstants
  <1>2. SUFFICES ASSUME N < lo + PageSize PROVE FALSE
    BY <1>1
  <1>3. \A m \in onPage : m \in MessagesOf(p) /\ Cardinality(Newer(p, m)) \in lo .. N - 1
    <2>1. TAKE m \in onPage
    <2>2. m \in MessagesOf(p) /\ lo <= Cardinality(Newer(p, m))
      BY DEF PageOf
    <2>3. Cardinality(Newer(p, m)) \in Nat /\ Cardinality(Newer(p, m)) < N
      BY <2>2, NewerAreFewer
    <2>4. QED
      BY <1>1, <2>2, <2>3
  <1>4. IsFiniteSet(onPage) /\ Cardinality(onPage) \in Nat
    <2>1. onPage \subseteq MessagesOf(p)
      BY <1>3
    <2>2. QED
      BY <1>1, <2>1, FS_Subset, FS_CardinalityType
  <1>5. place \in [onPage -> lo .. N - 1]
    BY <1>3
  <1>6. \A a, b \in onPage : a # b => place[a] # place[b]
    BY <1>3, RanksDiffer
  <1>7. IsFiniteSet(lo .. N - 1) /\ Cardinality(lo .. N - 1) < PageSize
    <2>1. /\ lo \in Int /\ N - 1 \in Int
          /\ IF lo > N - 1 THEN 0 < PageSize ELSE (N - 1) - lo + 1 < PageSize
      BY <1>1, <1>2
    <2> HIDE DEF lo, N
    <2>2. QED
      BY <2>1, FS_Interval
  <1>8. Cardinality(lo .. N - 1) < Cardinality(onPage)
    <2>1. Cardinality(lo .. N - 1) \in Nat
      BY <1>7, FS_CardinalityType
    <2> HIDE DEF lo, N
    <2>2. QED
      BY <1>1, <1>4, <1>7, <2>1
  <1>9. \E a, b \in onPage : a # b /\ place[a] = place[b]
    <2> DEFINE T == lo .. N - 1
    <2>1. place \in [onPage -> T] /\ IsFiniteSet(T) /\ Cardinality(T) < Cardinality(onPage)
      BY <1>5, <1>7, <1>8
    <2> HIDE DEF T, onPage, place
    <2>2. QED
      BY <1>4, <2>1, FS_PigeonHole
  <1>10. QED
    BY <1>6, <1>9

LEMMA ReadsStep ==
  ASSUME ChatConstants, ChatTypeOK, Dated, ReadsWithinThread, ChatStep
  PROVE  ReadsWithinThread'
  <1> SUFFICES ASSUME NEW c \in Clients
               PROVE  (page'[c] - 1) * PageSize <= Cardinality(MessagesOf(thread[c])')
    <2>1. thread' = thread
      BY DEF ChatStep, ChatNext, SendStep, ClientStep, OpenThread, chatVars, clientVars, sendVars,
             CheckSender, InsertMessage, Touch, WriteLastMessageAt, Emit, SendFails, Connect,
             CheckJoin, Join, ReadPage, Deliver, Leave, Disconnect
    <2>2. QED
      BY <2>1 DEF ReadsWithinThread, MessagesOf
  <1> DEFINE p == thread[c]
  <1>1. thread' = thread /\ stored \subseteq stored'
    BY DEF ChatStep, ChatNext, SendStep, ClientStep, OpenThread, chatVars, clientVars, sendVars,
           CheckSender, InsertMessage, Touch, WriteLastMessageAt, Emit, SendFails, Connect,
           CheckJoin, Join, ReadPage, Deliver, Leave, Disconnect
  <1>2. /\ Cardinality(MessagesOf(p)) \in Nat /\ Cardinality(MessagesOf(p)') \in Nat
        /\ Cardinality(MessagesOf(p)) <= Cardinality(MessagesOf(p)')
    <2>1. MessagesOf(p) \subseteq MessagesOf(p)'
      BY <1>1 DEF MessagesOf
    <2>2. ChatTypeOK'
      BY DatedStep
    <2>3. IsFiniteSet(MessagesOf(p)')
      <3>1. IsFiniteSet(Sends) /\ MessagesOf(p)' \subseteq Sends
        BY <2>2 DEF ChatConstants, MessagesOf, ChatTypeOK
      <3>2. QED
        BY <3>1, FS_Subset
    <2>4. QED
      BY <2>1, <2>3, FS_Subset, FS_CardinalityType
  <1>3. PageSize \in Nat \ {0} /\ page[c] \in Nat
    BY DEF ChatConstants, ChatTypeOK
  <1>4. CASE page'[c] = page[c]
    BY <1>2, <1>3, <1>4 DEF ReadsWithinThread
  <1>5. CASE page'[c] = 1 \/ page'[c] = 0
    <2>1. (1 - 1) * PageSize = 0 /\ (0 - 1) * PageSize <= 0
      BY <1>3
    <2>2. (page'[c] - 1) * PageSize <= 0
      BY <1>5, <2>1
    <2>3. (page'[c] - 1) * PageSize \in Int
      BY <1>3, <1>5
    <2>4. QED
      BY <1>2, <2>2, <2>3
  <1>6. CASE ReadPage(c)
    <2>1. page[c] # 0 /\ page' = [page EXCEPT ![c] = IF Cardinality(PageOf(p, page[c])) < PageSize
                                                     THEN 0 ELSE page[c] + 1]
      BY <1>6 DEF ReadPage
    <2>2. CASE Cardinality(PageOf(p, page[c])) < PageSize
      BY <1>5, <2>1, <2>2 DEF ChatTypeOK
    <2>3. CASE ~(Cardinality(PageOf(p, page[c])) < PageSize)
      <3>1. page[c] * PageSize <= Cardinality(MessagesOf(p))
        BY <1>3, <2>1, <2>3, FullPagesAreFilled
      <3>2. page'[c] - 1 = page[c]
        BY <1>3, <2>1, <2>3 DEF ChatTypeOK
      <3>3. page[c] * PageSize \in Nat
        BY <1>3
      <3>4. QED
        BY <1>2, <3>1, <3>2, <3>3
    <2>4. QED
      BY <2>2, <2>3
  <1>7. page'[c] = page[c] \/ page'[c] = 1 \/ ReadPage(c)
    <2>1. ASSUME NEW s \in Sends, SendStep(s) \/ SendFails(s) PROVE page' = page
      BY <2>1 DEF SendStep, SendFails, CheckSender, InsertMessage, Touch, WriteLastMessageAt,
                  Emit, clientVars
    <2>2. ASSUME NEW d \in Clients, ClientStep(d) \/ Leave(d) \/ Disconnect(d)
          PROVE  page'[c] = page[c] \/ page'[c] = 1 \/ ReadPage(c)
      BY <2>2 DEF ClientStep, Connect, CheckJoin, Join, ReadPage, Deliver, Leave, Disconnect,
                  ChatTypeOK
    <2>3. CASE OpenThread \/ UNCHANGED <<conversations, chatVars>>
      BY <2>3 DEF OpenThread, chatVars
    <2>4. QED
      BY <2>1, <2>2, <2>3 DEF ChatStep, ChatNext
  <1>8. QED
    BY <1>4, <1>5, <1>6, <1>7

\* Paging cannot go on for ever, for all the messages that arrive meanwhile:
\* nobody asks for more than one page past the messages there are.
THEOREM ReadingEnds == ASSUME ChatConstants PROVE ChatSpec => []ReadsWithinThread
  <1>1. ChatTypeOK /\ ChatInit => ReadsWithinThread
    <2> SUFFICES ASSUME ChatTypeOK, ChatInit, NEW c \in Clients
                 PROVE  (page[c] - 1) * PageSize <= Cardinality(MessagesOf(thread[c]))
      BY DEF ReadsWithinThread
    <2>1. page[c] = 1 /\ (1 - 1) * PageSize = 0
      BY DEF ChatInit, ChatConstants
    <2>2. QED
      BY <2>1, FewMessages
  <1>2. ChatTypeOK /\ Dated /\ ReadsWithinThread
            /\ [ChatNext \/ OpenThread]_<<conversations, chatVars>> => ReadsWithinThread'
    BY ReadsStep DEF ChatStep
  <1>3. QED
    BY AlwaysDated, <1>1, <1>2, PTL DEF ChatSpec
=============================================================================
