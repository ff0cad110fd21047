--------------------------- MODULE PeerChatProofs ---------------------------
(***************************************************************************)
(* JoinRequests and PeerChat, proved for any number of treks, users, calls *)
(* and clients.                                                            *)
(*                                                                         *)
(* Progress says what a call about a request knows at each of its steps; a *)
(* conversation is then opened for an accept only, and a notice "accepted" *)
(* is sent when it is there (Unlocked).  That the last notice tells the    *)
(* status needs that answers which did not overlap had a status to         *)
(* themselves (Alone), and that requests are Untroubled by the others.     *)
(*                                                                         *)
(* About PeerChat nothing is proved of a call again: a step of it is a     *)
(* step of JoinRequests or leaves its variables alone, and it is a step of *)
(* Messaging or at most opens a conversation of two users.  So PeerChat    *)
(* implements both, and has what is proved of each.                        *)
(***************************************************************************)
EXTENDS PeerChat, SequenceTheorems, TLAPS

Talk == INSTANCE MessagingProofs WITH Members <- Users

-----------------------------------------------------------------------------
(* The requests.                                                           *)

TwoPeople(k) == Organizer[TrekOf(k)] # RequesterOf(k)

Progress ==
    /\ \A k \in Keys : status[k] # "none" => TwoPeople(k)
    /\ \A c \in Asks : pc[c] \in {"insert", "notify"} => TwoPeople(About[c])
    /\ \A a \in Answers :
          /\ pc[a] \in Answering => loaded[a] # "none" /\ status[About[a]] # "none"
          /\ pc[a] \in {"find", "open"} => verdict[a] = "accepted"
          /\ pc[a] \in {"save", "find", "open", "notify"}
                => Caller[a] = Organizer[TrekOf(About[a])]

Unlocked ==
    \A a \in Answers : pc[a] = "notify" /\ verdict[a] = "accepted" =>
        ParticipantsKey(About[a]) \in conversations

Told(k) == IF notices[k] = <<>> THEN status[k] \in {"none", "pending"}
                                ELSE status[k] = notices[k][Len(notices[k])]

\* What an answer under way knows of a request it has to itself.
Knows(a) == IF pc[a] \in {"authorize", "save"} THEN loaded[a] = status[About[a]]
                                               ELSE status[About[a]] = verdict[a]

Alone ==
    /\ \A a \in alone : pc[a] # "idle"
    /\ \A a \in alone : pc[a] \in Answering =>
           Knows(a) /\ \A b \in AnswersOn(About[a]) : b = a

Untroubled ==
    \A k \in Keys \ disturbed :
        /\ AnswersOn(k) \subseteq alone
        /\ Told(k) \/ \E a \in AnswersOn(k) : pc[a] \in {"find", "open", "notify"}

-----------------------------------------------------------------------------
LEMMA KeysOfCalls == \A r \in Calls : About[r] \in Keys
  BY UsersAssumption

LEMMA LastOfAppend ==
  ASSUME NEW S, NEW s \in Seq(S), NEW x \in S
  PROVE  Append(s, x) # <<>> /\ Append(s, x)[Len(Append(s, x))] = x
  BY AppendProperties

LEMMA LastNotice ==
  ASSUME JrTypeOK, NEW a \in Answers,
         notices' = [notices EXCEPT ![About[a]] = Append(@, verdict[a])]
  PROVE  notices'[About[a]] # <<>> /\ notices'[About[a]][Len(notices'[About[a]])] = verdict[a]
  <1> DEFINE s == notices[About[a]]
  <1>1. /\ s \in Seq({"accepted", "declined"}) /\ verdict[a] \in {"accepted", "declined"}
        /\ notices'[About[a]] = Append(s, verdict[a])
    BY KeysOfCalls DEF JrTypeOK, Calls
  <1>2. Append(s, verdict[a]) # <<>> /\ Append(s, verdict[a])[Len(Append(s, verdict[a]))] = verdict[a]
    <2> HIDE DEF s
    <2>1. QED
      BY <1>1, LastOfAppend
  <1>3. QED
    BY <1>1, <1>2

LEMMA PairOf ==
  ASSUME NEW k \in Keys, TwoPeople(k)
  PROVE  ParticipantsKey(k) \in Pairs
  <1>1. Organizer[TrekOf(k)] \in Users /\ RequesterOf(k) \in Users
    BY UsersAssumption DEF Keys, TrekOf, RequesterOf
  <1>2. QED
    BY <1>1 DEF TwoPeople, ParticipantsKey, Pairs

-----------------------------------------------------------------------------
LEMMA ProgressInit == Init => JrTypeOK /\ Progress
  BY DEF Init, JrTypeOK, Progress, Answering, Calls

LEMMA ProgressStep ==
  JrTypeOK /\ Progress /\ [JrNext]_jrVars => JrTypeOK' /\ Progress'
  <1> SUFFICES ASSUME JrTypeOK, Progress, [JrNext]_jrVars PROVE JrTypeOK' /\ Progress'
    OBVIOUS
  <1> USE CallsAssumption, KeysOfCalls DEF JrTypeOK, Progress, Calls, Answering, Ended, Goto, TwoPeople
  <1>1. ASSUME NEW c \in Asks, FindTrek(c) PROVE JrTypeOK' /\ Progress'
    BY <1>1 DEF FindTrek
  <1>2. ASSUME NEW c \in Asks, Insert(c) PROVE JrTypeOK' /\ Progress'
    <2>1. JrTypeOK'
      BY <1>2 DEF Insert
    <2>2. Progress'
      BY <1>2 DEF Insert
    <2>3. QED
      BY <2>1, <2>2
  <1>3. ASSUME NEW c \in Asks, NotifyOrganizer(c) PROVE JrTypeOK' /\ Progress'
    BY <1>3 DEF NotifyOrganizer
  <1>4. ASSUME NEW a \in Answers, LoadRequest(a) PROVE JrTypeOK' /\ Progress'
    <2>1. JrTypeOK'
      BY <1>4 DEF LoadRequest
    <2>2. Progress'
      BY <1>4 DEF LoadRequest
    <2>3. QED
      BY <2>1, <2>2
  <1>5. ASSUME NEW a \in Answers, Authorize(a) PROVE JrTypeOK' /\ Progress'
    BY <1>5 DEF Authorize
  <1>6. ASSUME NEW a \in Answers, Save(a) PROVE JrTypeOK' /\ Progress'
    <2>1. /\ pc[a] = "save" /\ About[a] \in Keys /\ verdict[a] \in {"accepted", "declined"}
          /\ \A k \in Keys : status'[k] = status[k] \/ (k = About[a] /\ status'[k] = verdict[a])
          /\ UNCHANGED <<treks, conversations, notices, verdict, heard, loaded, alone, disturbed>>
      BY <1>6 DEF Save
    <2>2. status' \in [Keys -> {"none", "pending", "accepted", "declined"}]
      BY <1>6, <2>1 DEF Save
    <2>3. JrTypeOK'
      BY <1>6, <2>1, <2>2 DEF Save
    <2>4. Progress'
      BY <1>6, <2>1 DEF Save
    <2>5. QED
      BY <2>3, <2>4
  <1>7. ASSUME NEW a \in Answers, FindConversation(a) PROVE JrTypeOK' /\ Progress'
    BY <1>7 DEF FindConversation
  <1>8. ASSUME NEW a \in Answers, OpenConversation(a) PROVE JrTypeOK' /\ Progress'
    <2>1. About[a] \in Keys /\ TwoPeople(About[a])
      BY <1>8 DEF OpenConversation
    <2>2. ParticipantsKey(About[a]) \in Pairs
      BY <2>1, PairOf
    <2>3. /\ conversations' \subseteq conversations \cup {ParticipantsKey(About[a])}
          /\ disturbed' \subseteq disturbed \cup {About[a]}
          /\ \E l \in {"notify", "failed"} : pc' = [pc EXCEPT ![a] = l]
          /\ pc[a] = "open" /\ UNCHANGED <<treks, status, notices, verdict, heard, loaded, alone>>
      BY <1>8 DEF OpenConversation
    <2>4. JrTypeOK'
      BY <2>1, <2>2, <2>3
    <2>5. Progress'
      BY <2>3
    <2>6. QED
      BY <2>4, <2>5
  <1>9. ASSUME NEW a \in Answers, NotifyRequester(a) PROVE JrTypeOK' /\ Progress'
    <2>1. notices' \in [Keys -> Seq({"accepted", "declined"})]
      BY <1>9 DEF NotifyRequester
    <2>2. QED
      BY <1>9, <2>1 DEF NotifyRequester
  <1>10. ASSUME NEW r \in Calls, BreakOff(r) PROVE JrTypeOK' /\ Progress'
    BY <1>10 DEF BreakOff
  <1>11. ASSUME NEW t \in Treks, RemoveTrek(t) PROVE JrTypeOK' /\ Progress'
    BY <1>11 DEF RemoveTrek
  <1>12. CASE UNCHANGED jrVars
    BY <1>12 DEF jrVars
  <1>13. QED
    BY <1>1, <1>2, <1>3, <1>4, <1>5, <1>6, <1>7, <1>8, <1>9, <1>10, <1>11, <1>12
       DEF JrNext, AskStep, AnswerStep

\* Requests, conversations and notices are of the declared types; a conversation
\* is between two different users, however the calls interleave.
THEOREM RequestTyping == JrSpec => []JrTypeOK
  <1>1. JrTypeOK /\ Progress /\ [JrNext]_jrVars => (JrTypeOK /\ Progress)'
    BY ProgressStep
  <1>2. QED
    BY ProgressInit, <1>1, PTL DEF JrSpec

LEMMA AlwaysProgress == JrSpec => [](JrTypeOK /\ Progress)
  <1>1. JrTypeOK /\ Progress /\ [JrNext]_jrVars => (JrTypeOK /\ Progress)'
    BY ProgressStep
  <1>2. QED
    BY ProgressInit, <1>1, PTL DEF JrSpec

\* A status changes by a request that is made, or by an answer, made by the
\* organizer of the trek about this very request, and to what the answer says;
\* no request is ever pending again, or gone.
OrganizerDecides ==
    \A k \in Keys : status'[k] # status[k] =>
        \/ status[k] = "none" /\ status'[k] = "pending"
        \/ \E a \in Answers : /\ About[a] = k /\ Caller[a] = Organizer[TrekOf(k)]
                              /\ pc[a] = "save" /\ pc'[a] # "save"
                              /\ status[k] # "none" /\ status'[k] = verdict[a]

\* The check of the organizer and the save are two steps with others between
\* them, and still nobody else decides a request.
THEOREM OnlyOrganizersDecide == JrSpec => [][OrganizerDecides]_jrVars
  <1>1. ASSUME JrTypeOK, Progress, JrNext PROVE OrganizerDecides
    <2> USE KeysOfCalls DEF JrTypeOK, Calls, Goto
    <2>1. ASSUME NEW c \in Asks, Insert(c) PROVE OrganizerDecides
      BY <1>1, <2>1 DEF Insert, OrganizerDecides
    <2>2. ASSUME NEW a \in Answers, Save(a) PROVE OrganizerDecides
      <3>1. /\ pc[a] = "save" /\ About[a] \in Keys /\ pc'[a] # "save"
            /\ status' = [status EXCEPT ![About[a]] = IF verdict[a] # loaded[a]
                                                      THEN verdict[a] ELSE @]
        BY <1>1, <2>2 DEF Save
      <3>2. status[About[a]] # "none" /\ Caller[a] = Organizer[TrekOf(About[a])]
        BY <1>1, <3>1 DEF Progress, Answering
      <3>3. \A k \in Keys : status'[k] # status[k] => k = About[a] /\ status'[k] = verdict[a]
        BY <1>1, <3>1
      <3>4. QED
        BY <3>1, <3>2, <3>3 DEF OrganizerDecides
    <2>3. CASE UNCHANGED status
      BY <2>3 DEF OrganizerDecides
    <2>4. QED
      BY <1>1, <2>1, <2>2, <2>3
         DEF JrNext, AskStep, AnswerStep, FindTrek, NotifyOrganizer, LoadRequest, Authorize,
             FindConversation, OpenConversation, NotifyRequester, BreakOff, RemoveTrek
  <1>2. QED
    BY <1>1, AlwaysProgress, PTL DEF JrSpec

-----------------------------------------------------------------------------
(* Who may chat.                                                           *)

LEMMA ChatOnlyInit == Init => ChatOnlyAfterAccept
  BY DEF Init, ChatOnlyAfterAccept

LEMMA ChatOnlyStep ==
  JrTypeOK /\ Progress /\ ChatOnlyAfterAccept /\ [JrNext]_jrVars => ChatOnlyAfterAccept'
  <1> SUFFICES ASSUME JrTypeOK, Progress, ChatOnlyAfterAccept, [JrNext]_jrVars
               PROVE  ChatOnlyAfterAccept'
    OBVIOUS
  <1> USE CallsAssumption DEF JrTypeOK, Calls, Answering, Goto
  \* An accept that was saved stays so.
  <1>1. ASSUME NEW a \in Answers, AcceptSaved(a) PROVE AcceptSaved(a)'
    <2>1. /\ verdict'[a] = verdict[a] /\ loaded'[a] = loaded[a]
          /\ pc'[a] \notin {"idle", "authorize", "save"}
      <3> USE <1>1 DEF AcceptSaved
      <3>1. CASE \E c \in Asks : AskStep(c)
        BY <3>1 DEF AskStep, FindTrek, Insert, NotifyOrganizer
      <3>2. ASSUME NEW b \in Answers, LoadRequest(b) \/ Authorize(b) \/ Save(b)
            PROVE  /\ verdict'[a] = verdict[a] /\ loaded'[a] = loaded[a]
                   /\ pc'[a] \notin {"idle", "authorize", "save"}
        BY <3>2 DEF LoadRequest, Authorize, Save
      <3>3. ASSUME NEW b \in Answers, FindConversation(b) \/ OpenConversation(b) \/ NotifyRequester(b)
            PROVE  /\ verdict'[a] = verdict[a] /\ loaded'[a] = loaded[a]
                   /\ pc'[a] \notin {"idle", "authorize", "save"}
        BY <3>3 DEF FindConversation, OpenConversation, NotifyRequester
      <3>4. CASE (\E r \in Calls : BreakOff(r)) \/ (\E t \in Treks : RemoveTrek(t))
                 \/ UNCHANGED jrVars
        BY <3>4 DEF BreakOff, RemoveTrek, jrVars
      <3>5. QED
        BY <3>1, <3>2, <3>3, <3>4 DEF JrNext, AnswerStep
    <2>2. QED
      BY <1>1, <2>1 DEF AcceptSaved
  <1>2. CASE conversations' = conversations
    BY <1>1, <1>2 DEF ChatOnlyAfterAccept
  <1>3. ASSUME NEW a \in Answers, OpenConversation(a), conversations' # conversations
        PROVE  ChatOnlyAfterAccept'
    <2>1. conversations' = conversations \cup {ParticipantsKey(About[a])}
      BY <1>3 DEF OpenConversation
    <2>2. AcceptSaved(a)'
      BY <1>3 DEF OpenConversation, Progress, AcceptSaved
    <2>3. QED
      BY <1>1, <2>1, <2>2 DEF ChatOnlyAfterAccept
  <1>4. QED
    BY <1>2, <1>3
       DEF JrNext, AskStep, AnswerStep, FindTrek, Insert, NotifyOrganizer, LoadRequest, Authorize,
           Save, FindConversation, NotifyRequester, BreakOff, RemoveTrek, jrVars

\* Two users chat only if the organizer of a trek has accepted the other's
\* request to join it, whatever else is asked, answered and removed.
THEOREM ChatIsEarned == JrSpec => []ChatOnlyAfterAccept
  BY ChatOnlyInit, ChatOnlyStep, AlwaysProgress, PTL DEF JrSpec

UnlockInv == Unlocked /\ AcceptedCanChat

LEMMA UnlockInit == Init => UnlockInv
  BY DEF Init, UnlockInv, Unlocked, AcceptedCanChat, Calls

LEMMA UnlockStep ==
  JrTypeOK /\ Progress /\ UnlockInv /\ [JrNext]_jrVars => UnlockInv'
  <1> SUFFICES ASSUME JrTypeOK, Progress, UnlockInv, [JrNext]_jrVars PROVE UnlockInv'
    OBVIOUS
  <1> USE CallsAssumption, KeysOfCalls DEF JrTypeOK, Calls, Answering, Goto
  \* A step that keeps the notices, accepts nothing and lets no answer leave
  \* the way to the conversation without one.
  <1>1. ASSUME notices' = notices, verdict' = verdict, conversations \subseteq conversations',
               \A k \in Keys : status'[k] = "accepted" => status[k] = "accepted",
               \A a \in Answers :
                   /\ pc[a] \in {"find", "open", "brokenOff"} =>
                         \/ pc'[a] \in {"find", "open", "brokenOff"}
                         \/ ParticipantsKey(About[a]) \in conversations'
                   /\ pc'[a] = "notify" =>
                         \/ pc[a] = "notify" \/ verdict[a] # "accepted"
                         \/ ParticipantsKey(About[a]) \in conversations'
        PROVE  UnlockInv'
    <2>1. Unlocked'
      BY <1>1 DEF UnlockInv, Unlocked
    <2>2. AcceptedCanChat'
      BY <1>1 DEF UnlockInv, AcceptedCanChat
    <2>3. QED
      BY <2>1, <2>2 DEF UnlockInv
  <1>2. ASSUME NEW c \in Asks, AskStep(c) PROVE UnlockInv'
    BY <1>1, <1>2 DEF AskStep, FindTrek, Insert, NotifyOrganizer
  <1>3. ASSUME NEW a \in Answers, LoadRequest(a) \/ Authorize(a) PROVE UnlockInv'
    BY <1>1, <1>3 DEF LoadRequest, Authorize
  <1>4. ASSUME NEW a \in Answers, Save(a) PROVE UnlockInv'
    <2>1. /\ pc[a] = "save" /\ About[a] \in Keys
          /\ pc' = [pc EXCEPT ![a] = IF verdict[a] = "accepted" THEN "find" ELSE "notify"]
          /\ \A k \in Keys : status'[k] = status[k] \/ (k = About[a] /\ status'[k] = verdict[a])
          /\ UNCHANGED <<conversations, notices, verdict>>
      BY <1>4 DEF Save
    <2>2. CASE verdict[a] = "accepted"
      <3>1. pc'[a] = "find" /\ \A b \in Answers : b # a => pc'[b] = pc[b]
        BY <2>1, <2>2
      <3>2. Unlocked'
        BY <2>1, <3>1 DEF UnlockInv, Unlocked
      <3>3. AcceptedCanChat'
        BY <2>1, <3>1 DEF UnlockInv, AcceptedCanChat
      <3>4. QED
        BY <3>2, <3>3 DEF UnlockInv
    <2>3. CASE verdict[a] # "accepted"
      BY <1>1, <2>1, <2>3
    <2>4. QED
      BY <2>2, <2>3
  <1>5. ASSUME NEW a \in Answers, FindConversation(a) PROVE UnlockInv'
    BY <1>1, <1>5 DEF FindConversation
  <1>6. ASSUME NEW a \in Answers, OpenConversation(a) PROVE UnlockInv'
    BY <1>1, <1>6 DEF OpenConversation
  <1>7. ASSUME NEW a \in Answers, NotifyRequester(a) PROVE UnlockInv'
    <2>1. /\ pc[a] = "notify" /\ About[a] \in Keys /\ notices[About[a]] \in Seq({"accepted", "declined"})
          /\ notices' = [notices EXCEPT ![About[a]] = Append(@, verdict[a])]
          /\ pc' = [pc EXCEPT ![a] = "done"]
          /\ UNCHANGED <<status, conversations, verdict>>
      BY <1>7 DEF NotifyRequester
    <2>2. ASSUME NEW k \in Keys, NEW i \in 1 .. Len(notices'[k]), notices'[k][i] = "accepted"
          PROVE  ParticipantsKey(k) \in conversations
      <3>1. CASE k # About[a] \/ i <= Len(notices[k])
        BY <2>1, <2>2, <3>1 DEF UnlockInv, AcceptedCanChat
      <3>2. CASE k = About[a] /\ i > Len(notices[k])
        <4>1. notices'[k] = Append(notices[k], verdict[a])
          BY <2>1, <3>2
        <4>2. verdict[a] = "accepted"
          BY <2>1, <2>2, <3>2, <4>1
        <4>3. QED
          BY <2>1, <3>2, <4>2 DEF UnlockInv, Unlocked
      <3>3. notices[k] \in Seq({"accepted", "declined"})
        OBVIOUS
      <3>4. Len(notices[k]) \in Nat
        BY <3>3
      <3>5. QED
        BY <3>1, <3>2, <3>4
    <2>3. AcceptedCanChat'
      BY <2>1, <2>2 DEF UnlockInv, AcceptedCanChat
    <2>4. Unlocked'
      BY <2>1 DEF UnlockInv, Unlocked
    <2>5. QED
      BY <2>3, <2>4 DEF UnlockInv
  <1>8. ASSUME NEW r \in Calls, BreakOff(r) PROVE UnlockInv'
    BY <1>1, <1>8 DEF BreakOff
  <1>9. ASSUME NEW t \in Treks, RemoveTrek(t) PROVE UnlockInv'
    BY <1>1, <1>9 DEF RemoveTrek
  <1>10. CASE UNCHANGED jrVars
    BY <1>1, <1>10 DEF jrVars
  <1>11. QED
    BY <1>2, <1>3, <1>4, <1>5, <1>6, <1>7, <1>8, <1>9, <1>10 DEF JrNext, AnswerStep

\* Whoever was told "accepted" can chat, and so can whoever is accepted, but
\* for an accept that is not through or broke off on its way.
THEOREM AcceptanceUnlocks == JrSpec => []AcceptedCanChat
  <1>1. UnlockInv => AcceptedCanChat
    BY DEF UnlockInv
  <1>2. QED
    BY UnlockInit, UnlockStep, AlwaysProgress, <1>1, PTL DEF JrSpec
-----------------------------------------------------------------------------
(* What the requester and the organizer are told.                          *)

HeardOf(k) == \/ k \in heard
              \/ \E c \in Asks : About[c] = k /\ pc[c] \in {"notify", "brokenOff"}

Heard == \A k \in Keys : status[k] # "none" => HeardOf(k)

NoticeInv == Alone /\ Untroubled /\ Heard

LEMMA NoticeInit == Init => NoticeInv
  BY DEF Init, NoticeInv, Alone, Untroubled, Heard, AnswersOn, Told, Calls, Answering

LEMMA NoticeTells == NoticeInv => NoticeTellsStatus
  BY DEF NoticeInv, Untroubled, Heard, HeardOf, Told, NoticeTellsStatus

LEMMA HeardStep ==
  JrTypeOK /\ Progress /\ Heard /\ [JrNext]_jrVars => Heard'
  <1> SUFFICES ASSUME JrTypeOK, Progress, Heard, [JrNext]_jrVars PROVE Heard'
    OBVIOUS
  <1> USE CallsAssumption, KeysOfCalls DEF JrTypeOK, Calls, Answering, Goto
  \* A step that makes no request and leaves nobody unheard.
  <1>1. ASSUME heard \subseteq heard',
               \A k \in Keys : status'[k] # "none" => status[k] # "none",
               \A c \in Asks : pc[c] \in {"notify", "brokenOff"} =>
                   pc'[c] \in {"notify", "brokenOff"} \/ About[c] \in heard'
        PROVE  Heard'
    BY <1>1 DEF Heard, HeardOf
  <1>2. ASSUME NEW c \in Asks, FindTrek(c) PROVE Heard'
    BY <1>1, <1>2 DEF FindTrek
  <1>3. ASSUME NEW c \in Asks, Insert(c) PROVE Heard'
    <2>1. /\ pc[c] = "insert" /\ About[c] \in Keys /\ heard' = heard
          /\ \A k \in Keys : k # About[c] => status'[k] = status[k]
          /\ status[About[c]] = "none" => pc'[c] = "notify"
          /\ status[About[c]] # "none" => status' = status
          /\ \A b \in Asks : b # c => pc'[b] = pc[b]
      BY <1>3 DEF Insert
    <2>2. \A b \in Asks : pc[b] \in {"notify", "brokenOff"} => pc'[b] = pc[b]
      BY <2>1
    <2>3. ASSUME NEW k \in Keys, status[k] # "none" PROVE HeardOf(k)'
      BY SMTT(30), <2>1, <2>2, <2>3 DEF Heard, HeardOf
    <2>4. CASE status[About[c]] = "none"
      <3>1. HeardOf(About[c])'
        BY <2>1, <2>4 DEF HeardOf
      <3>2. QED
        BY <2>1, <2>3, <3>1 DEF Heard
    <2>5. QED
      BY <2>1, <2>3, <2>4 DEF Heard
  <1>4. ASSUME NEW c \in Asks, NotifyOrganizer(c) PROVE Heard'
    BY <1>1, <1>4 DEF NotifyOrganizer
  <1>5. ASSUME NEW a \in Answers, Save(a) PROVE Heard'
    <2>1. /\ pc[a] = "save" /\ status[About[a]] # "none" /\ heard' = heard
          /\ \A k \in Keys : k # About[a] => status'[k] = status[k]
          /\ \A c \in Asks : pc'[c] = pc[c]
      BY <1>5 DEF Save, Progress
    <2>2. QED
      BY <1>1, <2>1
  <1>6. ASSUME NEW a \in Answers, AnswerStep(a), ~Save(a) PROVE Heard'
    BY <1>1, <1>6 DEF AnswerStep, LoadRequest, Authorize, FindConversation, OpenConversation,
                      NotifyRequester
  <1>7. ASSUME NEW r \in Calls, BreakOff(r) PROVE Heard'
    BY <1>1, <1>7 DEF BreakOff
  <1>8. CASE (\E t \in Treks : RemoveTrek(t)) \/ UNCHANGED jrVars
    BY <1>1, <1>8 DEF RemoveTrek, jrVars
  <1>9. QED
    BY <1>2, <1>3, <1>4, <1>5, <1>6, <1>7, <1>8 DEF JrNext, AskStep

LEMMA AloneStep ==
  JrTypeOK /\ Progress /\ Alone /\ [JrNext]_jrVars => Alone'
  <1> SUFFICES ASSUME JrTypeOK, Progress, Alone, [JrNext]_jrVars PROVE Alone'
    OBVIOUS
  <1> USE CallsAssumption, KeysOfCalls DEF JrTypeOK, Calls, Answering, Goto, Knows
  \* A step that leaves all that an answer reads and writes.
  <1>1. ASSUME UNCHANGED <<status, verdict, loaded, alone>>,
               \A a \in Answers : pc'[a] = pc[a]
        PROVE  Alone'
    BY <1>1 DEF Alone, AnswersOn
  \* A step of one answer: it does not meet another that is alone.
  <1>2. ASSUME NEW a \in Answers, pc[a] \in Answering,
               pc' = [pc EXCEPT ![a] = pc'[a]],
               UNCHANGED <<verdict, loaded, alone>>,
               \A k \in Keys \ {About[a]} : status'[k] = status[k],
               pc'[a] # "idle", a \in alone /\ pc'[a] \in Answering => Knows(a)'
        PROVE  Alone'
    <2>1. SUFFICES ASSUME NEW b \in alone, pc'[b] \in Answering
                   PROVE  Knows(b)' /\ \A c \in AnswersOn(About[b])' : c = b
      <3>1. \A b \in alone' : pc'[b] # "idle"
        BY <1>2 DEF Alone
      <3>2. QED
        BY <1>2, <3>1 DEF Alone
    <2>2. pc[b] \in Answering /\ Knows(b) /\ \A c \in AnswersOn(About[b]) : c = b
      BY <1>2, <2>1 DEF Alone
    <2>3. AnswersOn(About[b])' \subseteq AnswersOn(About[b])
      BY <1>2 DEF AnswersOn
    <2>4. CASE b = a
      BY <1>2, <2>1, <2>2, <2>3, <2>4
    <2>5. CASE b # a
      <3>1. About[b] # About[a]
        BY <1>2, <2>2, <2>5 DEF AnswersOn
      <3>2. status'[About[b]] = status[About[b]] /\ pc'[b] = pc[b]
        BY <1>2, <2>1, <2>5, <3>1
      <3>3. QED
        BY <1>2, <2>2, <2>3, <3>2
    <2>6. QED
      BY <2>4, <2>5
  <1>3. ASSUME NEW a \in alone, pc[a] \in Answering PROVE Knows(a)
    BY <1>3 DEF Alone
  <1>4. ASSUME NEW c \in Asks, FindTrek(c) \/ NotifyOrganizer(c) PROVE Alone'
    BY <1>1, <1>4 DEF FindTrek, NotifyOrganizer
  <1>5. ASSUME NEW c \in Asks, Insert(c) PROVE Alone'
    <2>1. CASE status[About[c]] # "none"
      BY <1>1, <1>5, <2>1 DEF Insert
    <2>2. CASE status[About[c]] = "none"
      <3>1. /\ status' = [status EXCEPT ![About[c]] = "pending"]
            /\ \A a \in Answers : pc'[a] = pc[a]
            /\ UNCHANGED <<verdict, loaded, alone>>
        BY <1>5, <2>2 DEF Insert
      <3>2. \A k \in Keys : AnswersOn(k)' = AnswersOn(k)
        BY <3>1 DEF AnswersOn
      <3>3. \A a \in Answers : pc[a] \in Answering => status'[About[a]] = status[About[a]]
        BY <2>2, <3>1 DEF Progress
      <3>4. \A a \in Answers : pc[a] \in Answering => Knows(a)' = Knows(a)
        BY <3>1, <3>3
      <3>5. \A a \in alone : About[a] \in Keys /\ a \in Answers
        OBVIOUS
      <3>6. \A a \in alone' : a \in alone /\ pc'[a] # "idle"
        BY <3>1, <3>5 DEF Alone
      <3>7. ASSUME NEW a \in alone', pc'[a] \in Answering
            PROVE  Knows(a)' /\ \A b \in AnswersOn(About[a])' : b = a
        <4>1. a \in alone /\ a \in Answers /\ About[a] \in Keys /\ pc[a] \in Answering
          BY <3>1, <3>5, <3>6, <3>7
        <4>2. Knows(a)' /\ AnswersOn(About[a])' = AnswersOn(About[a])
          <5>1. Knows(a)
            BY <4>1 DEF Alone
          <5> HIDE DEF Knows
          <5>2. QED
            BY <3>2, <3>4, <4>1, <5>1
        <4>3. \A b \in AnswersOn(About[a]) : b = a
          BY <4>1 DEF Alone
        <4> HIDE DEF Knows
        <4>4. QED
          BY <4>2, <4>3
      <3>8. QED
        BY <3>6, <3>7 DEF Alone
    <2>3. QED
      BY <2>1, <2>2
  <1>6. ASSUME NEW a \in Answers, LoadRequest(a) PROVE Alone'
    <2> DEFINE k == About[a]
    <2>1. /\ pc[a] = "idle" /\ k \in Keys /\ UNCHANGED <<status, notices, verdict>>
          /\ \E l \in {"failed", "authorize"} : pc' = [pc EXCEPT ![a] = l]
          /\ loaded' = [loaded EXCEPT ![a] = status[k]]
          /\ alone' = IF AnswersOn(k) = {} THEN alone \cup {a} ELSE alone \ AnswersOn(k)
      BY <1>6 DEF LoadRequest
    <2>2. SUFFICES ASSUME NEW b \in alone', pc'[b] \in Answering
                   PROVE  Knows(b)' /\ \A c \in AnswersOn(About[b])' : c = b
      <3>1. \A b \in alone' : pc'[b] # "idle"
        BY <2>1 DEF Alone
      <3>2. QED
        BY <3>1 DEF Alone
    <2>3. \A i \in Keys : /\ AnswersOn(i)' \subseteq AnswersOn(i) \cup {a}
                          /\ i # k => AnswersOn(i)' \subseteq AnswersOn(i)
      BY <2>1 DEF AnswersOn
    <2>4. b \in Answers /\ About[b] \in Keys
      BY <2>1
    <2>5. CASE b = a
      <3>1. pc'[a] = "authorize" /\ loaded'[a] = status'[About[a]]
        BY <2>1, <2>2, <2>5
      <3>2. AnswersOn(k) = {}
        <4>1. ASSUME AnswersOn(k) # {} PROVE FALSE
          <5>1. a \in alone \/ a \in alone'
            BY <2>2, <2>5
          <5>2. QED
            BY <2>1, <2>2, <2>5, <4>1, <5>1 DEF Alone, AnswersOn
        <4>2. QED
          BY <4>1
      <3>3. QED
        BY <2>3, <2>4, <2>5, <3>1, <3>2
    <2>6. CASE b # a
      <3>1. b \in alone /\ pc[b] \in Answering /\ pc'[b] = pc[b] /\ loaded'[b] = loaded[b]
        BY <2>1, <2>2, <2>4, <2>6
      <3>2. About[b] # k
        BY <2>1, <2>2, <2>4, <2>6, <3>1 DEF AnswersOn
      <3>3. QED
        BY <2>1, <2>3, <2>4, <3>1, <3>2 DEF Alone
    <2>7. QED
      BY <2>5, <2>6
  <1>7. ASSUME NEW a \in Answers, Authorize(a) PROVE Alone'
    <2>1. /\ pc[a] = "authorize" /\ \E l \in {"save", "failed"} : pc' = [pc EXCEPT ![a] = l]
          /\ UNCHANGED <<status, verdict, loaded, alone>>
      BY <1>7 DEF Authorize
    <2>2. a \in alone /\ pc'[a] \in Answering => Knows(a)'
      BY <1>3, <2>1
    <2>3. QED
      BY <1>2, <2>1, <2>2
  <1>8. ASSUME NEW a \in Answers, Save(a) PROVE Alone'
    <2>1. /\ pc[a] = "save" /\ About[a] \in Keys
          /\ status' = [status EXCEPT ![About[a]] = IF verdict[a] # loaded[a] THEN verdict[a] ELSE @]
          /\ \E l \in {"find", "notify"} : pc' = [pc EXCEPT ![a] = l]
          /\ UNCHANGED <<verdict, loaded, alone>>
      BY <1>8 DEF Save
    <2>2. a \in alone => Knows(a)'
      BY <1>3, <2>1
    <2>3. \A k \in Keys \ {About[a]} : status'[k] = status[k]
      BY <2>1
    <2>4. QED
      BY <1>2, <2>1, <2>2, <2>3
  <1>9. ASSUME NEW a \in Answers, FindConversation(a) PROVE Alone'
    <2>1. /\ pc[a] = "find" /\ \E l \in {"open", "notify"} : pc' = [pc EXCEPT ![a] = l]
          /\ UNCHANGED <<status, verdict, loaded, alone>>
      BY <1>9 DEF FindConversation
    <2>2. QED
      BY <1>2, <1>3, <2>1
  <1>10. ASSUME NEW a \in Answers, OpenConversation(a) PROVE Alone'
    <2>1. /\ pc[a] = "open" /\ \E l \in {"notify", "failed"} : pc' = [pc EXCEPT ![a] = l]
          /\ UNCHANGED <<status, verdict, loaded, alone>>
      BY <1>10 DEF OpenConversation
    <2>2. QED
      BY <1>2, <1>3, <2>1
  <1>11. ASSUME NEW a \in Answers, NotifyRequester(a) PROVE Alone'
    <2>1. /\ pc[a] = "notify" /\ pc' = [pc EXCEPT ![a] = "done"]
          /\ UNCHANGED <<status, verdict, loaded, alone>>
      BY <1>11 DEF NotifyRequester
    <2>2. QED
      BY <1>2, <2>1
  <1>12. ASSUME NEW r \in Calls, BreakOff(r) PROVE Alone'
    <2>1. /\ pc' = [pc EXCEPT ![r] = "brokenOff"] /\ pc[r] \in Answering \cup {"insert"}
          /\ UNCHANGED <<status, verdict, loaded, alone>>
      BY <1>12 DEF BreakOff
    <2>2. CASE r \in Asks
      BY <1>1, <2>1, <2>2
    <2>3. CASE r \in Answers /\ pc[r] \in Answering
      BY <1>2, <2>1, <2>3
    <2>4. CASE r \in Answers /\ pc[r] = "insert"
      BY <2>1, <2>4 DEF Alone, AnswersOn
    <2>5. QED
      BY <2>1, <2>2, <2>3, <2>4
  <1>13. CASE (\E t \in Treks : RemoveTrek(t)) \/ UNCHANGED jrVars
    BY <1>1, <1>13 DEF RemoveTrek, jrVars
  <1>14. QED
    BY <1>4, <1>5, <1>6, <1>7, <1>8, <1>9, <1>10, <1>11, <1>12, <1>13
       DEF JrNext, AskStep, AnswerStep

LEMMA UntroubledStep ==
  JrTypeOK /\ Progress /\ Alone /\ Untroubled /\ [JrNext]_jrVars => Untroubled'
  <1> SUFFICES ASSUME JrTypeOK, Progress, Alone, Untroubled, [JrNext]_jrVars PROVE Untroubled'
    OBVIOUS
  <1> USE CallsAssumption, KeysOfCalls DEF JrTypeOK, Calls, Answering, Goto
  <1>1. ASSUME UNCHANGED <<status, notices, alone, disturbed>>,
               \A a \in Answers : pc'[a] = pc[a]
        PROVE  Untroubled'
    BY <1>1 DEF Untroubled, AnswersOn, Told
  \* A step of one answer, of which its own request only has to be looked at.
  <1>2. ASSUME NEW a \in Answers, pc[a] \in Answering,
               pc' = [pc EXCEPT ![a] = pc'[a]], alone' = alone,
               \A k \in Keys \ {About[a]} : status'[k] = status[k] /\ notices'[k] = notices[k],
               disturbed \subseteq disturbed' \cup {About[a]},
               About[a] \notin disturbed' =>
                   /\ About[a] \notin disturbed \/ a \in alone
                   /\ \/ Told(About[a])'
                      \/ pc'[a] \in {"find", "open", "notify"}
        PROVE  Untroubled'
    <2>1. SUFFICES ASSUME NEW k \in Keys \ disturbed'
                   PROVE  /\ AnswersOn(k)' \subseteq alone
                          /\ Told(k)' \/ \E b \in AnswersOn(k)' : pc'[b] \in {"find", "open", "notify"}
      BY <1>2 DEF Untroubled
    <2>2. CASE k = About[a]
      <3>1. a \in AnswersOn(k) /\ AnswersOn(k)' \subseteq AnswersOn(k)
        BY <1>2, <2>2 DEF AnswersOn
      <3>2. AnswersOn(k) \subseteq alone
        <4>1. CASE k \notin disturbed
          BY <2>1, <4>1 DEF Untroubled
        <4>2. CASE a \in alone
          BY <1>2, <2>2, <4>2 DEF Alone
        <4>3. QED
          BY <1>2, <2>1, <2>2, <4>1, <4>2
      <3>3. pc'[a] \in Answering => a \in AnswersOn(k)'
        BY <2>2 DEF AnswersOn
      <3>4. QED
        BY <1>2, <2>1, <2>2, <3>1, <3>2, <3>3
    <2>3. CASE k # About[a]
      <3>1. AnswersOn(k)' = AnswersOn(k) /\ a \notin AnswersOn(k)
        BY <1>2, <2>3 DEF AnswersOn
      <3>2. status'[k] = status[k] /\ notices'[k] = notices[k] /\ k \notin disturbed
        BY <1>2, <2>1, <2>3
      <3>3. Told(k)' = Told(k)
        BY <3>2 DEF Told
      <3>4. \A b \in AnswersOn(k) : pc'[b] = pc[b]
        BY <1>2, <3>1 DEF AnswersOn
      <3>5. QED
        BY <2>1, <3>1, <3>2, <3>3, <3>4 DEF Untroubled
    <2>4. QED
      BY <2>2, <2>3
  \* On an untroubled request an answer is alone, and knows where it stands.
  <1>3. ASSUME NEW a \in Answers, pc[a] \in Answering, About[a] \notin disturbed
        PROVE  /\ a \in alone /\ Knows(a)
               /\ pc[a] \in {"authorize", "save"} => Told(About[a])
    <2>1. a \in AnswersOn(About[a])
      BY <1>3 DEF AnswersOn
    <2>2. a \in alone
      BY <1>3, <2>1 DEF Untroubled
    <2>3. Knows(a) /\ \A b \in AnswersOn(About[a]) : b = a
      BY <1>3, <2>2 DEF Alone
    <2>4. QED
      BY <1>3, <2>1, <2>2, <2>3 DEF Untroubled
  <1>4. ASSUME NEW c \in Asks, FindTrek(c) \/ NotifyOrganizer(c) PROVE Untroubled'
    BY <1>1, <1>4 DEF FindTrek, NotifyOrganizer
  <1>5. ASSUME NEW c \in Asks, Insert(c) PROVE Untroubled'
    <2> DEFINE k == About[c]
    <2>1. CASE status[k] # "none"
      BY <1>1, <1>5, <2>1 DEF Insert
    <2>2. CASE status[k] = "none"
      <3>1. /\ status' = [status EXCEPT ![k] = "pending"] /\ k \in Keys
            /\ \A a \in Answers : pc'[a] = pc[a]
            /\ UNCHANGED <<notices, alone, disturbed>>
        BY <1>5, <2>2 DEF Insert
      <3>2. \A i \in Keys : AnswersOn(i)' = AnswersOn(i)
        BY <3>1 DEF AnswersOn
      <3>3. AnswersOn(k) = {}
        BY <2>2 DEF AnswersOn, Progress
      <3>4. k \notin disturbed => Told(k)'
        <4>1. SUFFICES ASSUME k \notin disturbed PROVE notices[k] = <<>>
          BY <3>1 DEF Told
        <4>2. notices[k] # <<>> => notices[k][Len(notices[k])] \in {"accepted", "declined"}
          <5>1. notices[k] \in Seq({"accepted", "declined"})
            BY <3>1
          <5>2. QED
            BY <5>1
        <4>3. QED
          BY <2>2, <3>1, <3>3, <4>1, <4>2 DEF Untroubled, Told
      <3>5. \A i \in Keys \ {k} : status'[i] = status[i] /\ Told(i)' = Told(i)
        BY <3>1 DEF Told
      <3>6. \A i \in Keys : \A b \in AnswersOn(i) : pc'[b] = pc[b]
        BY <3>1 DEF AnswersOn
      <3>7. SUFFICES ASSUME NEW i \in Keys \ disturbed
                     PROVE  /\ AnswersOn(i) \subseteq alone
                            /\ \/ Told(i)'
                               \/ \E b \in AnswersOn(i) : pc[b] \in {"find", "open", "notify"}
        BY <3>1, <3>2, <3>6 DEF Untroubled
      <3>8. QED
        BY <3>3, <3>4, <3>5 DEF Untroubled
    <2>3. QED
      BY <2>1, <2>2
  <1>6. ASSUME NEW a \in Answers, LoadRequest(a) PROVE Untroubled'
    <2> DEFINE k == About[a]
    <2>1. /\ pc[a] = "idle" /\ k \in Keys /\ UNCHANGED <<status, notices>>
          /\ \E l \in {"failed", "authorize"} : pc' = [pc EXCEPT ![a] = l]
          /\ alone' = IF AnswersOn(k) = {} THEN alone \cup {a} ELSE alone \ AnswersOn(k)
          /\ disturbed' = IF AnswersOn(k) = {} THEN disturbed ELSE disturbed \cup {k}
      BY <1>6 DEF LoadRequest
    <2>2. SUFFICES ASSUME NEW i \in Keys \ disturbed'
                   PROVE  /\ AnswersOn(i)' \subseteq alone'
                          /\ Told(i)' \/ \E b \in AnswersOn(i)' : pc'[b] \in {"find", "open", "notify"}
      BY DEF Untroubled
    <2>3. i \in Keys \ disturbed /\ Told(i)' = Told(i)
      BY <2>1, <2>2 DEF Told
    <2>4. a \notin AnswersOn(i) /\ AnswersOn(i) \subseteq AnswersOn(i)'
          /\ AnswersOn(i)' \subseteq AnswersOn(i) \cup {a}
          /\ \A b \in AnswersOn(i) : pc'[b] = pc[b] /\ About[b] = i
      BY <2>1 DEF AnswersOn
    <2>5. AnswersOn(i)' \subseteq alone'
      <3>1. CASE i = k
        <4>1. AnswersOn(k) = {}
          BY <2>1, <2>2, <3>1
        <4>2. QED
          BY <2>1, <2>4, <3>1, <4>1
      <3>2. CASE i # k
        <4>1. AnswersOn(i)' = AnswersOn(i) /\ AnswersOn(i) \cap AnswersOn(k) = {}
          BY <2>1, <3>2 DEF AnswersOn
        <4>2. QED
          BY <2>1, <2>3, <4>1 DEF Untroubled
      <3>3. QED
        BY <3>1, <3>2
    <2>6. QED
      BY <2>3, <2>4, <2>5 DEF Untroubled
  <1>7. ASSUME NEW a \in Answers, Authorize(a) PROVE Untroubled'
    <2>1. /\ pc[a] = "authorize" /\ \E l \in {"save", "failed"} : pc' = [pc EXCEPT ![a] = l]
          /\ UNCHANGED <<status, notices, alone, disturbed>>
      BY <1>7 DEF Authorize
    <2>2. About[a] \notin disturbed => Told(About[a])'
      BY <1>3, <2>1 DEF Told
    <2>3. QED
      BY <1>2, <2>1, <2>2
  <1>8. ASSUME NEW a \in Answers, Save(a) PROVE Untroubled'
    <2>1. /\ pc[a] = "save" /\ About[a] \in Keys
          /\ status' = [status EXCEPT ![About[a]] = IF verdict[a] # loaded[a] THEN verdict[a] ELSE @]
          /\ \E l \in {"find", "notify"} : pc' = [pc EXCEPT ![a] = l]
          /\ UNCHANGED <<notices, alone, disturbed>>
      BY <1>8 DEF Save
    <2>2. \A k \in Keys \ {About[a]} : status'[k] = status[k]
      BY <2>1
    <2>3. pc'[a] \in {"find", "open", "notify"}
      BY <2>1
    <2>4. QED
      BY <1>2, <2>1, <2>2, <2>3
  <1>9. ASSUME NEW a \in Answers, FindConversation(a) PROVE Untroubled'
    <2>1. /\ pc[a] = "find" /\ \E l \in {"open", "notify"} : pc' = [pc EXCEPT ![a] = l]
          /\ UNCHANGED <<status, notices, alone, disturbed>>
      BY <1>9 DEF FindConversation
    <2>2. pc'[a] \in {"find", "open", "notify"}
      BY <2>1
    <2>3. QED
      BY <1>2, <2>1, <2>2
  <1>10. ASSUME NEW a \in Answers, OpenConversation(a) PROVE Untroubled'
    <2>1. pc[a] = "open" /\ UNCHANGED <<status, notices, alone>>
          /\ \/ pc' = [pc EXCEPT ![a] = "notify"] /\ disturbed' = disturbed
             \/ pc' = [pc EXCEPT ![a] = "failed"] /\ disturbed' = disturbed \cup {About[a]}
      BY <1>10 DEF OpenConversation
    <2>2. CASE disturbed' = disturbed /\ pc' = [pc EXCEPT ![a] = "notify"]
      BY <1>2, <2>1, <2>2
    <2>3. CASE disturbed' = disturbed \cup {About[a]} /\ pc' = [pc EXCEPT ![a] = "failed"]
      BY <1>2, <2>1, <2>3
    <2>4. QED
      BY <2>1, <2>2, <2>3
  \* The notice of an answer that was alone says what is stored.
  <1>11. ASSUME NEW a \in Answers, NotifyRequester(a) PROVE Untroubled'
    <2>1. /\ pc[a] = "notify" /\ About[a] \in Keys /\ pc' = [pc EXCEPT ![a] = "done"]
          /\ notices' = [notices EXCEPT ![About[a]] = Append(@, verdict[a])]
          /\ disturbed' = IF a \in alone THEN disturbed \ {About[a]} ELSE disturbed
          /\ UNCHANGED <<status, verdict, loaded, alone>>
      BY <1>11 DEF NotifyRequester
    <2>2. notices'[About[a]] # <<>> /\ notices'[About[a]][Len(notices'[About[a]])] = verdict[a]
      BY <2>1, LastNotice
    <2>3. About[a] \notin disturbed' => a \in alone
      BY <1>3, <2>1
    <2>4. a \in alone => Told(About[a])'
      BY <2>1, <2>2 DEF Told, Alone, Knows
    <2>5. \A k \in Keys \ {About[a]} : status'[k] = status[k] /\ notices'[k] = notices[k]
      BY <2>1
    <2>6. disturbed \subseteq disturbed' \cup {About[a]}
      BY <2>1
    <2>7. QED
      BY <1>2, <2>1, <2>3, <2>4, <2>5, <2>6
  <1>12. ASSUME NEW r \in Calls, BreakOff(r) PROVE Untroubled'
    <2>1. /\ pc' = [pc EXCEPT ![r] = "brokenOff"] /\ pc[r] \in Answering \cup {"insert"}
          /\ disturbed' = IF r \in Answers THEN disturbed \cup {About[r]} ELSE disturbed
          /\ UNCHANGED <<status, notices, alone>>
      BY <1>12 DEF BreakOff
    <2>2. CASE r \in Asks
      BY <1>1, <2>1, <2>2
    <2>3. CASE r \in Answers /\ pc[r] \in Answering
      BY <1>2, <2>1, <2>3
    <2>4. CASE r \in Answers /\ pc[r] = "insert"
      <3>1. \A k \in Keys : /\ AnswersOn(k)' = AnswersOn(k) /\ Told(k)' = Told(k)
                            /\ \A b \in AnswersOn(k) : pc'[b] = pc[b]
        BY <2>1, <2>4 DEF AnswersOn, Told
      <3>2. QED
        BY <2>1, <3>1 DEF Untroubled
    <2>5. QED
      BY <2>1, <2>2, <2>3, <2>4
  <1>13. CASE (\E t \in Treks : RemoveTrek(t)) \/ UNCHANGED jrVars
    BY <1>1, <1>13 DEF RemoveTrek, jrVars
  <1>14. QED
    BY <1>4, <1>5, <1>6, <1>7, <1>8, <1>9, <1>10, <1>11, <1>12, <1>13
       DEF JrNext, AskStep, AnswerStep

\* However often accept and decline are called on a request, and whatever
\* overlapped or broke off: after an answer that was alone and came to its end
\* the last notice tells the status, and goes on telling it until answers
\* overlap or break off again.
THEOREM NoticesTell == JrSpec => []NoticeTellsStatus
  <1>1. JrTypeOK /\ Progress /\ NoticeInv /\ [JrNext]_jrVars => NoticeInv'
    BY AloneStep, UntroubledStep, HeardStep DEF NoticeInv
  <1>2. QED
    BY NoticeInit, <1>1, NoticeTells, AlwaysProgress, PTL DEF JrSpec

-----------------------------------------------------------------------------
(* The composition.                                                        *)

LEMMA ChatLeavesThreads == Chat!ChatNext => UNCHANGED conversations
  <1> SUFFICES ASSUME Chat!ChatNext PROVE UNCHANGED conversations
    OBVIOUS
  <1>1. ASSUME NEW s \in Sends, Chat!SendStep(s) \/ Chat!SendFails(s)
        PROVE  UNCHANGED conversations
    BY <1>1 DEF Chat!SendStep, Chat!SendFails, Chat!CheckSender, Chat!InsertMessage,
                Chat!Touch, Chat!WriteLastMessageAt, Chat!Emit
  <1>2. ASSUME NEW c \in Clients, Chat!ClientStep(c) \/ Chat!Leave(c) \/ Chat!Disconnect(c)
        PROVE  UNCHANGED conversations
    BY <1>2 DEF Chat!ClientStep, Chat!Leave, Chat!Disconnect, Chat!Connect,
                Chat!CheckJoin, Chat!Join, Chat!ReadPage, Chat!Deliver
  <1>3. QED
    BY <1>1, <1>2 DEF Chat!ChatNext

LEMMA StepOfRequests == [Next]_vars => [JrNext]_jrVars
  <1>1. ASSUME Chat!ChatNext, UNCHANGED <<treks, status, notices, heard, verdict, pc, loaded, alone, disturbed>>
        PROVE  UNCHANGED jrVars
    BY <1>1, ChatLeavesThreads DEF jrVars
  <1>2. QED
    BY <1>1 DEF Next, Moves, vars

\* An accept adds one conversation; no other call adds any.
LEMMA OpensOne ==
  JrNext => \/ UNCHANGED conversations
            \/ \E a \in Answers : conversations' = conversations \cup {ParticipantsKey(About[a])}
  <1> SUFFICES ASSUME JrNext
               PROVE  \/ UNCHANGED conversations
                      \/ \E a \in Answers :
                            conversations' = conversations \cup {ParticipantsKey(About[a])}
    OBVIOUS
  <1>1. ASSUME NEW c \in Asks, AskStep(c) PROVE UNCHANGED conversations
    BY <1>1 DEF AskStep, FindTrek, Insert, NotifyOrganizer
  <1>2. ASSUME NEW a \in Answers, AnswerStep(a)
        PROVE  \/ UNCHANGED conversations
               \/ conversations' = conversations \cup {ParticipantsKey(About[a])}
    BY <1>2 DEF AnswerStep, LoadRequest, Authorize, Save, FindConversation,
                OpenConversation, NotifyRequester
  <1>3. ASSUME NEW r \in Calls, BreakOff(r) PROVE UNCHANGED conversations
    BY <1>3 DEF BreakOff
  <1>4. ASSUME NEW t \in Treks, RemoveTrek(t) PROVE UNCHANGED conversations
    BY <1>4 DEF RemoveTrek
  <1>5. QED
    BY <1>1, <1>2, <1>3, <1>4 DEF JrNext

LEMMA StepOfChat ==
  ASSUME JrTypeOK', [Next]_vars
  PROVE  [Chat!ChatNext \/ Chat!OpenThread]_<<conversations, Chat!chatVars>>
  <1> USE DEF chatVars, Chat!chatVars
  <1>1. CASE JrNext /\ UNCHANGED chatVars
    <2>1. CASE UNCHANGED conversations
      BY <1>1, <2>1
    <2>2. CASE \E a \in Answers : conversations' = conversations \cup {ParticipantsKey(About[a])}
      <3>1. PICK a \in Answers : conversations' = conversations \cup {ParticipantsKey(About[a])}
        BY <2>2
      <3>2. ParticipantsKey(About[a]) \in Pairs
        BY <3>1 DEF JrTypeOK
      <3>3. QED
        BY <1>1, <3>1, <3>2 DEF Chat!OpenThread
    <2>3. QED
      BY <1>1, <2>1, <2>2, OpensOne
  <1>2. CASE Chat!ChatNext
    BY <1>2
  <1>3. CASE UNCHANGED vars
    BY <1>3 DEF vars, jrVars
  <1>4. QED
    BY <1>1, <1>2, <1>3 DEF Next, Moves

-----------------------------------------------------------------------------
\* The calls of JoinRequests are not disturbed by the messages.
THEOREM RequestsImplemented == Spec => JrSpec
  <1>1. PeerInit => Init
    BY DEF PeerInit
  <1>2. QED
    BY <1>1, StepOfRequests, PTL DEF Spec, JrSpec

\* JoinRequests keeps to what Messaging expects of whoever opens its
\* conversations: it opens them for two users, and touches nothing else.
THEOREM ConversationsFit == Spec => ChatImplemented
  <1>1. PeerInit => conversations = {} /\ Chat!ChatInit
    BY DEF PeerInit, Init
  <1>2. JrTypeOK' /\ [Next]_vars
          => [Chat!ChatNext \/ Chat!OpenThread]_<<conversations, Chat!chatVars>>
    BY StepOfChat
  <1>3. Spec => []JrTypeOK
    BY RequestsImplemented, RequestTyping, PTL
  <1>4. QED
    BY <1>1, <1>2, <1>3, PTL DEF Spec, ChatImplemented, Chat!ChatSpec

-----------------------------------------------------------------------------
\* Talk and Chat are one module under one substitution, and so are the library
\* modules each of them brings along.
LEMMA SameCardinality ==
  /\ \A S : Chat!Cardinality(S) = Talk!Cardinality(S)
  /\ \A S : Chat!IsFiniteSet(S) <=> Talk!IsFiniteSet(S)
  BY DEF Chat!Cardinality, Talk!Cardinality, Chat!IsFiniteSet, Talk!IsFiniteSet

LEMMA SameSteps ==
  /\ Chat!ChatNext <=> Talk!ChatNext
  /\ Chat!ChatInit <=> Talk!ChatInit
  /\ Chat!OpenThread <=> Talk!OpenThread
  <1> USE DEF Chat!Advance, Chat!chatVars, Chat!sendVars, Chat!clientVars,
              Talk!Advance, Talk!chatVars, Talk!sendVars, Talk!clientVars
  <1>1. \A p, n : Chat!PageOf(p, n) = Talk!PageOf(p, n)
    BY SameCardinality DEF Chat!PageOf, Chat!Newer, Chat!MessagesOf, Talk!PageOf,
                           Talk!Newer, Talk!MessagesOf
  <1>2. ASSUME NEW c \in Clients PROVE Chat!ReadPage(c) <=> Talk!ReadPage(c)
    BY <1>1, SameCardinality DEF Chat!ReadPage, Talk!ReadPage
  <1>3. ASSUME NEW s \in Sends
        PROVE  Chat!SendStep(s) \/ Chat!SendFails(s) <=> Talk!SendStep(s) \/ Talk!SendFails(s)
    BY DEF Chat!SendStep, Chat!SendFails, Chat!CheckSender,
           Chat!IsParticipant, Chat!InsertMessage, Chat!Touch,
           Chat!WriteLastMessageAt, Chat!Emit, Chat!RoomFor, Chat!InHand, Chat!Posting,
           Talk!SendStep, Talk!SendFails, Talk!CheckSender,
           Talk!IsParticipant, Talk!InsertMessage, Talk!Touch,
           Talk!WriteLastMessageAt, Talk!Emit, Talk!RoomFor, Talk!InHand, Talk!Posting
  <1>4. ASSUME NEW c \in Clients
        PROVE  Chat!ClientStep(c) \/ Chat!Leave(c) \/ Chat!Disconnect(c)
                 <=> Talk!ClientStep(c) \/ Talk!Leave(c) \/ Talk!Disconnect(c)
    BY <1>2 DEF Chat!ClientStep, Chat!Connect, Chat!CheckJoin,
                Chat!IsParticipant, Chat!Join, Chat!Deliver, Chat!Leave,
                Chat!Disconnect, Talk!ClientStep, Talk!Connect, Talk!CheckJoin,
                Talk!IsParticipant, Talk!Join, Talk!Deliver, Talk!Leave,
                Talk!Disconnect
  <1>5. Chat!ChatNext <=> Talk!ChatNext
    BY <1>3, <1>4 DEF Chat!ChatNext, Talk!ChatNext
  <1>6. (Chat!ChatInit <=> Talk!ChatInit) /\ (Chat!OpenThread <=> Talk!OpenThread)
    BY DEF Chat!ChatInit, Chat!OpenThread, Talk!ChatInit, Talk!OpenThread
  <1>7. QED
    BY <1>5, <1>6

LEMMA HasChat == Spec => Talk!ChatSpec
  <1>1. [Chat!ChatNext \/ Chat!OpenThread]_<<conversations, Chat!chatVars>>
          => [Talk!ChatNext \/ Talk!OpenThread]_<<conversations, Talk!chatVars>>
    BY SameSteps DEF Chat!chatVars, Talk!chatVars
  <1>2. QED
    BY <1>1, SameSteps, ConversationsFit, PTL DEF ChatImplemented, Chat!ChatSpec, Talk!ChatSpec

LEMMA TalkConstants == Talk!ChatConstants
  BY ChatAssumption, SameCardinality DEF Chat!ChatConstants, Talk!ChatConstants

\* TypeOK is an invariant of the composition.
THEOREM PeerTyping == Spec => []TypeOK
  <1>1. JrTypeOK /\ Talk!ChatTypeOK => TypeOK
    BY DEF TypeOK, Chat!ChatTypeOK, Talk!ChatTypeOK, Chat!Posting, Talk!Posting
  <1>2. QED
    BY <1>1, RequestsImplemented, RequestTyping, HasChat, TalkConstants, Talk!Typing, PTL

\* Composed with the join requests, too, a client in the room that has read to
\* the end misses no message.
THEOREM PeersMissNothing == Spec => []NothingMissed
  <1>1. Talk!NothingMissed => NothingMissed
    BY DEF NothingMissed, Chat!NothingMissed, Talk!NothingMissed, Chat!MessagesOf, Talk!MessagesOf
  <1>2. QED
    BY <1>1, HasChat, TalkConstants, Talk!NothingIsMissed, PTL

\* And it shows stored messages only.
THEOREM PeersSeeStored == Spec => []LiveIsStored
  <1>1. Talk!LiveIsStored => LiveIsStored
    BY DEF LiveIsStored, Chat!LiveIsStored, Talk!LiveIsStored
  <1>2. QED
    BY <1>1, HasChat, TalkConstants, Talk!LiveStored, PTL

\* The order of the conversation list holds in the composition.
THEOREM PeersAreDated == Spec => []ThreadDated
  <1>1. Talk!ThreadDated => ThreadDated
    BY DEF ThreadDated, Chat!ThreadDated, Talk!ThreadDated, Chat!MessagesOf, Talk!MessagesOf
  <1>2. QED
    BY <1>1, HasChat, TalkConstants, Talk!ThreadsAreDated, PTL

\* What is proved of the join requests alone holds while people chat: a
\* conversation has its accept, an acceptance its conversation, and the last
\* notice tells the status.
THEOREM RequestsHold == Spec => [](ChatOnlyAfterAccept /\ AcceptedCanChat /\ NoticeTellsStatus)
  BY RequestsImplemented, ChatIsEarned, AcceptanceUnlocks, NoticesTell, PTL
=============================================================================
