----------------------------- MODULE MCPeerChat -----------------------------
(* Small instances of PeerChat for TLC: one trek, its organizer, and a     *)
(* hiker who joins it.                                                     *)
EXTENDS PeerChat, TLC

CONSTANTS t1, organizer, hiker, c1

ByO == [x \in {t1} |-> organizer]
\* Every call is about the request of the hiker.
OfU == [r \in Calls |-> <<t1, hiker>>]
\* Every answer is the organizer's.
OAnswers == [a \in Answers |-> organizer]
\* The hiker writes, and the organizer watches.
USends == [s \in Sends |-> hiker]
OWatches == [c \in Clients |-> organizer]
=============================================================================
