------------------------------ MODULE PeerChat ------------------------------
(***************************************************************************)
(* Join requests and messaging together.  They share the conversations     *)
(* collection: JoinRequestsService creates its documents, MessagingService *)
(* checks every sender and every socket against them.                      *)
(***************************************************************************)
EXTENDS JoinRequests, FiniteSets

CONSTANTS
    Sends, Clients, Sender, Owner, PageSize,
    MaxCalls        \* bound: HTTP calls of all kinds a behaviour makes

VARIABLES thread, clock, createdAt, stamp, stored, lastMessageAt, at, link,
          net, seen, page, raced

Chat == INSTANCE Messaging WITH Members <- Users

ASSUME ChatAssumption == Chat!ChatConstants

chatVars == <<thread, clock, createdAt, stamp, stored, lastMessageAt, at, link,
              net, seen, page, raced>>

vars == <<jrVars, chatVars>>

PeerInit == Init /\ Chat!ChatInit

Started == {r \in Calls : pc[r] # "idle"} \cup {s \in Sends : at[s] # "idle"}

Moves ==
    \/ JrNext /\ UNCHANGED chatVars
    \/ Chat!ChatNext
       /\ UNCHANGED <<treks, status, notices, heard, verdict, pc, loaded, alone, disturbed>>

Next == Moves /\ Cardinality(Started') <= MaxCalls

Spec == PeerInit /\ [][Next]_vars /\ Chat!ChatFairness

\* The properties of the two, under the names the runs use.
TypeOK            == JrTypeOK /\ Chat!ChatTypeOK
NothingMissed     == Chat!NothingMissed
LiveIsStored      == Chat!LiveIsStored
ThreadDated       == Chat!ThreadDated
EveryoneCatchesUp == Chat!EveryoneCatchesUp

\* What Messaging assumes of the rest of the service holds of the join
\* requests: conversations are opened for two users and stay, and nothing else
\* of its state is touched.
ChatImplemented == Chat!ChatSpec
=============================================================================
