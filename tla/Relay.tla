------------------------------- MODULE Relay -------------------------------
(***************************************************************************)
(* How a client learns who is in its rooms: the two channels and the       *)
(* writer task of its connection (handle_socket, server/src/session.rs),   *)
(* what the directory puts in them (rooms.rs), and the lists that the      *)
(* client makes of it (client/src/voice/manager.rs).                       *)
(*                                                                         *)
(* The answers to the connection's requests go through its direct channel, *)
(* the events of its rooms through a broadcast channel of its own; the     *)
(* writer takes from either.  The channels of two connections have nothing *)
(* in common, so one connection is followed and the others are peers that  *)
(* come and go.  Joining and leaving are one step here, their              *)
(* interleavings are RoomManager's.                                        *)
(***************************************************************************)
EXTENDS Naturals, Sequences

CONSTANTS
  Peer, Room,
  EventCap, DirectCap,  \* the channels' capacities
  Pending               \* bound on the requests on their way

ASSUME RelayAssumption ==
  EventCap \in Nat \ {0} /\ DirectCap \in Nat \ {0} /\ Pending \in Nat

VARIABLES
  open,    \* the connection stands
  mine,    \* its Peer::room_ids
  theirs,  \* those of the others
  inbox,   \* requests on their way to the server; the session is at the first
  checked, \* that is a JoinRoom, and its key has been looked at
  direct,  \* direct_tx
  events,  \* room_tx
  joined,  \* the client's joined_rooms
  told,    \* its list of each room
  news,    \* history: who came or went since the roster was read
  lost,    \* history: whose last event, or roster, of a room was dropped, and who
           \* was struck from its list by a refusal and not listed since
  clean    \* history: rooms joined when no event of theirs was under way

channels == <<inbox, direct, events>>
histories == <<news, lost, clean>>
client == <<joined, told>>
vars == <<open, mine, theirs, channels, checked, client, histories>>

Request == [type : {"JoinRoom", "LeaveRoom"}, room : Room]
      \cup [type : {"Ping"}]
Membership == [type : {"PeerJoined", "PeerLeft"}, room : Room, peer : Peer]
Media == [type : {"Media"}]
\* AccountValidated, GroupIdentified, Pong and Error take their place in the channel.
Other == [type |-> "Other"]
Answer == [type : {"RoomJoined"}, room : Room, peers : SUBSET Peer]
     \cup [type : {"JoinRejected"}, room : Room]
     \cup {Other}

Members(r) == {p \in Peer : r \in theirs[p]}
Nobody == [r \in Room |-> {}]

Init ==
  /\ open = TRUE /\ mine = {} /\ theirs \in [Peer -> SUBSET Room]
  /\ inbox = <<>> /\ checked = FALSE /\ direct = <<>> /\ events = <<>>
  /\ joined = {} /\ told = Nobody /\ news = Nobody /\ lost = {} /\ clean = {}
-----------------------------------------------------------------------------
(* The channels *)

\* Whom an event is about, and in which room.
Subject(e) == IF e.type = "Media" THEN {} ELSE {<<e.room, e.peer>>}

\* tokio's broadcast drops the oldest event; the receiver sees Lagged, goes on.
Broadcast(e) ==
  IF Len(events) < EventCap THEN events' = Append(events, e) /\ UNCHANGED lost
  ELSE /\ events' = Append(Tail(events), e)
       /\ lost' = lost \cup (Subject(Head(events)) \cap (mine \X Peer))

\* try_send_direct drops an answer that does not fit.
Fits == Len(direct) < DirectCap
\* Mutant: the channel is not bounded.
TrySendAlways(m) == direct' = Append(direct, m)
TrySend(m) == direct' = IF Fits THEN Append(direct, m) ELSE direct
-----------------------------------------------------------------------------
(* The others *)

PeerJoins(p, r) ==
  /\ r \notin theirs[p] /\ theirs' = [theirs EXCEPT ![p] = @ \cup {r}]
  /\ IF r \in mine
     THEN /\ Broadcast([type |-> "PeerJoined", room |-> r, peer |-> p])
          /\ news' = [news EXCEPT ![r] = @ \cup {p}]
     ELSE UNCHANGED <<events, lost, news>>
  /\ UNCHANGED <<open, mine, inbox, checked, direct, client, clean>>

\* Mutant: a member that goes is taken off the room's list, and nobody is told.
PeerVanishes(p, r) ==
  /\ r \in theirs[p] /\ theirs' = [theirs EXCEPT ![p] = @ \ {r}]
  /\ news' = IF r \in mine THEN [news EXCEPT ![r] = @ \cup {p}] ELSE news
  /\ UNCHANGED <<open, mine, channels, checked, client, lost, clean>>
PeerLeaves(p, r) ==
  /\ r \in theirs[p] /\ theirs' = [theirs EXCEPT ![p] = @ \ {r}]
  /\ IF r \in mine
     THEN /\ Broadcast([type |-> "PeerLeft", room |-> r, peer |-> p])
          /\ news' = [news EXCEPT ![r] = @ \cup {p}]
     ELSE UNCHANGED <<events, lost, news>>
  /\ UNCHANGED <<open, mine, inbox, checked, direct, client, clean>>

\* update_position: everyone who shares a room with the sender gets it once.
PeerMoves(p) ==
  /\ theirs[p] \cap mine # {}
  /\ Broadcast([type |-> "Media"])
  /\ UNCHANGED <<open, mine, theirs, inbox, checked, direct, client, news, clean>>

\* broadcast_audio: a member's frame goes to the room's other members.
PeerSpeaks(p, r) ==
  /\ r \in theirs[p] /\ r \in mine
  /\ Broadcast([type |-> "Media"])
  /\ UNCHANGED <<open, mine, theirs, inbox, checked, direct, client, news, clean>>
-----------------------------------------------------------------------------
(* The connection's requests.  A client that leaves a room it knows it is in
   forgets the list. *)

Forgets(rs) ==
  /\ joined' = joined \ rs
  /\ told' = [r \in Room |-> IF r \in rs \cap joined THEN {} ELSE told[r]]

Ask(req) ==
  /\ open /\ Len(inbox) < Pending
  /\ inbox' = Append(inbox, req)
  /\ Forgets(IF req.type = "LeaveRoom" THEN {req.room} ELSE {})
  /\ UNCHANGED <<open, mine, theirs, checked, direct, events, histories>>

Received(type) ==
  open /\ inbox # <<>> /\ Head(inbox).type = type /\ inbox' = Tail(inbox)

\* An event of room r is under way.
UnderWay(r) ==
  \E i \in DOMAIN events : events[i] \in Membership /\ events[i].room = r

\* validate_api_key ends; the client is told of the key.
Validate ==
  /\ open /\ inbox # <<>> /\ Head(inbox).type = "JoinRoom"
  /\ ~checked /\ checked' = TRUE
  /\ TrySend(Other)
  /\ UNCHANGED <<open, mine, theirs, inbox, events, client, histories>>

\* The key, the account's cap, or the team is not in order.  A member of the room
\* stays one.
RefuseJoin ==
  /\ Received("JoinRoom") /\ checked /\ checked' = FALSE
  /\ TrySend([type |-> "JoinRejected", room |-> Head(inbox).room])
  /\ UNCHANGED <<open, mine, theirs, events, client, histories>>

\* join_room and its answer.  A member gets the list again.
JoinRoom ==
  /\ Received("JoinRoom") /\ checked /\ checked' = FALSE
  /\ LET r == Head(inbox).room
     IN  /\ TrySend([type |-> "RoomJoined", room |-> r, peers |-> Members(r)])
         /\ mine' = mine \cup {r}
         /\ lost' = IF Fits THEN lost \ ({r} \X Peer) ELSE lost \cup ({r} \X Peer)
         /\ IF r \in mine THEN UNCHANGED <<news, clean>>
            ELSE /\ news' = [news EXCEPT ![r] = {}]
                 /\ clean' = IF UnderWay(r) THEN clean \ {r} ELSE clean \cup {r}
  /\ UNCHANGED <<open, theirs, events, client>>

LeaveRoom ==
  /\ Received("LeaveRoom")
  /\ LET r == Head(inbox).room
     IN  /\ mine' = mine \ {r} /\ clean' = clean \ {r}
         /\ news' = [news EXCEPT ![r] = {}] /\ lost' = lost \ ({r} \X Peer)
  /\ UNCHANGED <<open, theirs, checked, direct, events, client>>

\* It stands for every request that is answered and concerns no room.
Ping ==
  /\ Received("Ping")
  /\ TrySend(Other)
  /\ UNCHANGED <<open, mine, theirs, checked, events, client, histories>>
-----------------------------------------------------------------------------
(* The writer task.  The client takes what comes in the order in which it comes. *)

WriteEvent ==
  /\ open /\ events # <<>>
  /\ events' = Tail(events)
  /\ LET e == Head(events)
     IN  /\ told' = CASE e.type = "PeerJoined" -> [told EXCEPT ![e.room] = @ \cup {e.peer}]
                      [] e.type = "PeerLeft"   -> [told EXCEPT ![e.room] = @ \ {e.peer}]
                      [] e.type = "Media"      -> told
         /\ lost' = lost \ Subject(e)
  /\ UNCHANGED <<open, mine, theirs, joined, inbox, checked, direct, news, clean>>

\* A roster adds to the list.  Mutant: it replaces the list.
TakeRosterOnly(r, peers) ==
  /\ told' = [told EXCEPT ![r] = peers] /\ joined' = joined \cup {r}
  /\ news' = [news EXCEPT ![r] = {}] /\ lost' = lost \ ({r} \X peers)
TakeRoster(r, peers) ==
  /\ told' = [told EXCEPT ![r] = @ \cup peers] /\ joined' = joined \cup {r}
  /\ news' = [news EXCEPT ![r] = {}] /\ lost' = lost \ ({r} \X peers)

\* A client left without any room forgets everybody, also those of a room whose
\* roster it waits for, or in which the server has it all the same.
Shown == {e \in mine \X Peer : e[2] \in told[e[1]]}
TakeRefusal(r) ==
  /\ joined' = joined \ {r} /\ UNCHANGED news
  /\ IF joined' = {} THEN told' = Nobody /\ lost' = lost \cup Shown
     ELSE UNCHANGED <<told, lost>>

WriteDirect ==
  /\ open /\ direct # <<>>
  /\ direct' = Tail(direct)
  /\ LET m == Head(direct)
     IN  CASE m.type = "RoomJoined"   -> TakeRoster(m.room, m.peers)
           [] m.type = "JoinRejected" -> TakeRefusal(m.room)
           [] OTHER                   -> UNCHANGED <<client, news, lost>>
  /\ UNCHANGED <<open, mine, theirs, inbox, checked, events, clean>>

\* The loop ends, the writer is aborted with what is in the channels, the peer
\* unregistered; the client forgets everybody.
Close ==
  /\ open /\ open' = FALSE
  /\ mine' = {} /\ joined' = {} /\ told' = Nobody
  /\ inbox' = <<>> /\ checked' = FALSE /\ direct' = <<>> /\ events' = <<>>
  /\ news' = Nobody /\ lost' = {} /\ clean' = {}
  /\ UNCHANGED theirs

Next ==
  \/ \E p \in Peer, r \in Room : PeerJoins(p, r) \/ PeerLeaves(p, r) \/ PeerSpeaks(p, r)
  \/ \E p \in Peer : PeerMoves(p)
  \/ \E req \in Request : Ask(req)
  \/ Validate \/ RefuseJoin \/ JoinRoom \/ LeaveRoom \/ Ping
  \/ WriteEvent \/ WriteDirect \/ Close

Spec == Init /\ [][Next]_vars
-----------------------------------------------------------------------------
TypeOK ==
  /\ open \in BOOLEAN /\ mine \subseteq Room /\ theirs \in [Peer -> SUBSET Room]
  /\ inbox \in Seq(Request) /\ Len(inbox) <= Pending /\ checked \in BOOLEAN
  /\ direct \in Seq(Answer) /\ Len(direct) <= DirectCap
  /\ events \in Seq(Membership \cup Media) /\ Len(events) <= EventCap
  /\ joined \subseteq Room /\ told \in [Room -> SUBSET Peer]
  /\ news \in [Room -> SUBSET Peer]
  /\ lost \subseteq Room \X Peer /\ clean \subseteq Room

\* Nothing is under way to the client.
Settled(r) ==
  /\ open /\ r \in mine
  /\ inbox = <<>> /\ direct = <<>> /\ events = <<>>

\* Who came or went after the client had read the roster is on its list, or off
\* it, once its channels are empty: only what happens between the taking and the
\* reading of a roster can be overtaken, and an overflow costs the client no more
\* than the events that it dropped (join_room, leave_room, out_task).
ChangesAreSeen ==
  \A r \in Room : Settled(r) =>
    \A p \in news[r] : <<r, p>> \notin lost => (p \in told[r] <=> p \in Members(r))

\* A client that joined when no event of the room was still under way to it, from
\* an earlier stay, has every member on its list of whom nothing was dropped,
\* however the roster and the events overtook each other.
MembersAreSeen ==
  \A r \in Room : Settled(r) /\ r \in clean =>
    \A p \in Members(r) : <<r, p>> \notin lost => p \in told[r]
=============================================================================
