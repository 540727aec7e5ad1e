----------------------------- MODULE ClientRooms -----------------------------
(***************************************************************************)
(* The rooms of one client, from the map it is on to the server's session: *)
(* VoiceManager (manager.rs) commands the network task (network.rs), which *)
(* writes to the WebSocket (ws.rs); the session (session.rs) answers, and  *)
(* the answers come back as events.  Each of the four runs by itself, and  *)
(* the link drops and comes back.                                          *)
(*                                                                         *)
(* The client has an API key.  The session's rate limit and the capacity   *)
(* of its direct channel are not reached.                                  *)
(***************************************************************************)
EXTENDS Integers, Sequences, SequencesExt

CONSTANTS
  MapRoom,      \* the rooms "map:<hash>"
  TypedRoom,    \* the other rooms, joined by hand
  None,
  MaxMoves,     \* bound on map changes and manual joins and leaves
  MaxDrops      \* bound on link losses

Room == MapRoom \cup TypedRoom

ASSUME NoneAssumption == None \notin Room
ASSUME BoundAssumption == MaxMoves \in Nat /\ MaxDrops \in Nat

VARIABLES
  map,       \* external: the room of the map the player is on
  moves, drops,
  state, joined, current,   \* state, joined_rooms, current_map_room
  updating, inbox,          \* inside update(), the events it collected
  cmds, evs,                \* NetworkCommand and NetworkEvent channels
  link,                     \* state of the connection, and network_task's was_connected
  toServer, direct,         \* the wire; what the session sends is direct_tx's
  srv,                      \* rooms the session's peer is in
  doubtful,  \* history: rooms a join of which was refused while in them
  given      \* history: rooms left, or refused, since they were confirmed

player  == <<map, moves>>
manager == <<state, joined, current, given>>
update  == <<updating, inbox>>
network == <<link, drops>>
server  == <<srv, doubtful>>
wire    == <<toServer, direct>>
vars == <<player, manager, update, cmds, evs, network, wire, server>>

\* JoinRoom and LeaveRoom, as commands and on the wire; the replies and events.
Msg(kind, r) == [kind |-> kind, room |-> r]
Request == [kind : {"JoinRoom", "LeaveRoom"}, room : Room]
Reply   == [kind : {"RoomJoined", "JoinRejected"}, room : Room]
           \cup {Msg("Welcome", None)}
Event   == [kind : {"RoomJoined", "JoinRejected"}, room : Room]
           \cup {Msg("Connected", None), Msg("Disconnected", None)}

Init ==
  /\ map \in MapRoom \cup {None} /\ moves = 0 /\ drops = 0
  /\ state = "Connecting" /\ joined = {} /\ current = None
  /\ updating = FALSE /\ inbox = <<>>
  /\ cmds = <<>> /\ evs = <<>>
  /\ link = "connecting"
  /\ toServer = <<>> /\ direct = <<>>
  /\ srv = {} /\ doubtful = {} /\ given = {}

-----------------------------------------------------------------------------
\* What happens to the player.

Move == moves < MaxMoves /\ moves' = moves + 1

ChangeMap(m) ==
  /\ Move
  /\ m # map
  /\ map' = m
  /\ UNCHANGED <<manager, update, cmds, evs, network, wire, server>>

-----------------------------------------------------------------------------
\* VoiceManager: the calls of the UI, and update(), exclude each other.

\* leave_room: the server is told in any case; without confirmed rooms the
\* manager is merely connected.  Mutant: it returns early for the last room.
LeaveMsgUnlessLast(r) == IF joined = {r} THEN <<>> ELSE <<Msg("LeaveRoom", r)>>
LeaveMsg(r) == <<Msg("LeaveRoom", r)>>

StateWithout(r) ==
  IF r \in joined /\ joined = {r} THEN "Connected" ELSE state

LeaveLocal(r) ==
  /\ joined' = joined \ {r}
  /\ state'  = StateWithout(r)
  /\ given'  = given \cup {r}

\* join_room records any map room as the current one.  Mutant: any room.
RecordedAny(r) == r
Recorded(r) == IF r \in MapRoom THEN r ELSE current

JoinManual(r) ==
  /\ ~updating
  /\ Move
  /\ r \notin joined
  /\ cmds' = Append(cmds, Msg("JoinRoom", r))
  /\ current' = Recorded(r)
  /\ UNCHANGED <<map, state, joined, given, update, evs, network, wire, server>>

LeaveManual(r) ==
  /\ ~updating
  /\ Move
  /\ r \in joined
  /\ current' = IF current = r THEN None ELSE current
  /\ LeaveLocal(r)
  /\ cmds' = cmds \o LeaveMsg(r)
  /\ UNCHANGED <<map, update, evs, network, wire, server>>

\* update() collects the events that are there ...
UpdateBegin ==
  /\ ~updating
  /\ updating' = TRUE
  /\ inbox' = evs
  /\ evs'   = <<>>
  /\ UNCHANGED <<player, manager, cmds, network, wire, server>>

\* ... handles them in order ...
Handling(kind) == inbox # <<>> /\ Head(inbox).kind = kind /\ inbox' = Tail(inbox)

\* Every confirmed room is asked for anew and no longer confirmed.
\* Mutant: it is only the latter.
RejoinForgets == <<>>
Rejoin == SetToSeq({Msg("JoinRoom", r) : r \in joined})

OnConnected ==
  /\ Handling("Connected")
  /\ state'  = "Connected"
  /\ joined' = {}
  /\ cmds'   = cmds \o Rejoin
  /\ UNCHANGED <<player, current, given, updating, evs, network, wire, server>>

OnDisconnected ==
  /\ Handling("Disconnected")
  /\ state' = "Disconnected"
  /\ UNCHANGED <<player, joined, current, given, updating, cmds, evs,
                 network, wire, server>>

OnRoomJoined ==
  /\ Handling("RoomJoined")
  /\ joined' = joined \cup {Head(inbox).room}
  /\ state'  = "InRoom"
  /\ given'  = given \ {Head(inbox).room}
  /\ UNCHANGED <<player, current, updating, cmds, evs, network, wire, server>>

\* Mutant: the state is left as it is.
StateRejectedKept(rooms) == state
StateRejected(rooms) == IF rooms = {} THEN "Connected" ELSE state

OnJoinRejected ==
  LET r == Head(inbox).room
  IN  /\ Handling("JoinRejected")
      /\ joined'  = joined \ {r}
      /\ current' = IF current = r THEN None ELSE current
      /\ state'   = StateRejected(joined')
      /\ given'   = given \cup {r}
      /\ UNCHANGED <<player, updating, cmds, evs, network, wire, server>>

\* ... and follows the player to another map, if MumbleLink can be read.
FollowMap ==
  /\ updating /\ inbox = <<>>
  /\ updating' = FALSE
  /\ \/ UNCHANGED <<manager, cmds>>
     \/ /\ current # map
        /\ current' = map
        /\ IF current = None
           THEN UNCHANGED <<state, joined, given>>
           ELSE LeaveLocal(current)
        /\ cmds' = cmds
                   \o (IF current = None THEN <<>> ELSE LeaveMsg(current))
                   \o (IF map = None THEN <<>> ELSE <<Msg("JoinRoom", map)>>)
  /\ UNCHANGED <<player, inbox, evs, network, wire, server>>

Update ==
  \/ UpdateBegin
  \/ updating /\ (OnConnected \/ OnDisconnected \/ OnRoomJoined \/ OnJoinRejected)
  \/ FollowMap

-----------------------------------------------------------------------------
\* network_task: one arm of its select at a time, then a look at the link,
\* which is
\*   "connecting"  inside connect(): no arm runs meanwhile
\*   "opening"     connected, the server's Welcome has not been seen
\*   "up"
\*   "down"        not connected, and was_connected is not set
\*   "lost"        not connected, and was_connected is set

Linked == link \in {"opening", "up"}

\* A command goes out, or into a connection that is not there.
SendCommand ==
  /\ link # "connecting"
  /\ cmds # <<>>
  /\ cmds' = Tail(cmds)
  /\ toServer' = IF Linked THEN Append(toServer, Head(cmds)) ELSE toServer
  /\ UNCHANGED <<player, manager, update, evs, network, direct, server>>

Receive ==
  /\ Linked
  /\ direct # <<>>
  /\ direct' = Tail(direct)
  /\ IF Head(direct).kind = "Welcome"
     THEN /\ evs'  = Append(evs, Msg("Connected", None))
          /\ link' = "up"
     ELSE /\ evs'  = Append(evs, Head(direct))
          /\ UNCHANGED link
  /\ UNCHANGED <<player, manager, update, cmds, drops, toServer, server>>

Reconnect ==
  /\ link \in {"down", "lost"}
  /\ evs' = IF link = "lost" THEN Append(evs, Msg("Disconnected", None)) ELSE evs
  /\ link' = "connecting"
  /\ UNCHANGED <<player, manager, update, cmds, drops, wire, server>>

\* The server registers a new peer, in no room, and greets it.
ConnectOk ==
  /\ link = "connecting"
  /\ link' = "opening"
  /\ direct' = <<Msg("Welcome", None)>>
  /\ UNCHANGED <<player, manager, update, cmds, evs, drops, toServer, server>>

ConnectFail ==
  /\ link = "connecting"
  /\ link' = "down"
  /\ UNCHANGED <<player, manager, update, cmds, evs, drops, wire, server>>

\* All that is under way is lost, and the server's peer with its rooms.
LoseLink ==
  /\ drops < MaxDrops
  /\ drops' = drops + 1
  /\ toServer' = <<>> /\ direct' = <<>>
  /\ srv' = {} /\ doubtful' = {}

\* was_connected is set once an arm has run after ws.rs saw the Welcome.
Drop ==
  /\ Linked
  /\ link' \in {"lost"} \cup (IF link = "up" THEN {} ELSE {"down"})
  /\ LoseLink
  /\ UNCHANGED <<player, manager, update, cmds, evs>>

\* Lost while the Welcome is handled: Connected, and never Disconnected.
DropAtWelcome ==
  /\ link = "opening" /\ direct # <<>>
  /\ evs'  = Append(evs, Msg("Connected", None))
  /\ link' = "down"
  /\ LoseLink
  /\ UNCHANGED <<player, manager, update, cmds>>

-----------------------------------------------------------------------------
\* The session: one request at a time.

Serving(kind, r) ==
  /\ toServer # <<>>
  /\ Head(toServer) = Msg(kind, r)
  /\ toServer' = Tail(toServer)

ServeJoin(r) ==
  /\ Serving("JoinRoom", r)
  /\ srv' = srv \cup {r}
  /\ doubtful' = doubtful \ {r}
  /\ direct' = Append(direct, Msg("RoomJoined", r))
  /\ UNCHANGED <<player, manager, update, cmds, evs, network>>

\* Key, connection cap, world and team are checked on every join; a refusal
\* takes the peer out of no room.
RefuseJoin(r) ==
  /\ Serving("JoinRoom", r)
  /\ doubtful' = IF r \in srv THEN doubtful \cup {r} ELSE doubtful
  /\ direct' = Append(direct, Msg("JoinRejected", r))
  /\ UNCHANGED <<player, manager, update, cmds, evs, network, srv>>

ServeLeave(r) ==
  /\ Serving("LeaveRoom", r)
  /\ srv' = srv \ {r}
  /\ doubtful' = doubtful \ {r}
  /\ UNCHANGED <<player, manager, update, cmds, evs, network, direct>>

Next ==
  \/ \E m \in MapRoom \cup {None} : ChangeMap(m)
  \/ \E r \in Room : JoinManual(r) \/ LeaveManual(r)
  \/ Update
  \/ SendCommand \/ Receive \/ Reconnect \/ ConnectOk \/ ConnectFail
  \/ Drop \/ DropAtWelcome
  \/ \E r \in Room : ServeJoin(r) \/ RefuseJoin(r) \/ ServeLeave(r)

\* The game calls update() on every frame, and both tasks run.  A server that
\* is tried again and again answers in the end.
Fairness ==
  /\ WF_vars(Update)
  /\ WF_vars(SendCommand) /\ WF_vars(Receive) /\ WF_vars(Reconnect)
  /\ SF_vars(ConnectOk)
  /\ WF_vars(\E r \in Room : ServeJoin(r) \/ RefuseJoin(r) \/ ServeLeave(r))

Spec == Init /\ [][Next]_vars
FairSpec == Spec /\ Fairness
-----------------------------------------------------------------------------
TypeOK ==
  /\ map \in MapRoom \cup {None} /\ current \in MapRoom \cup {None}
  /\ moves \in 0..MaxMoves /\ drops \in 0..MaxDrops
  /\ state \in {"Connecting", "Connected", "InRoom", "Disconnected"}
  /\ link \in {"connecting", "opening", "up", "down", "lost"}
  /\ joined \subseteq Room /\ srv \subseteq Room
  /\ doubtful \subseteq Room /\ given \subseteq Room
  /\ updating \in BOOLEAN
  /\ inbox \in Seq(Event) /\ evs \in Seq(Event)
  /\ cmds \in Seq(Request) /\ toServer \in Seq(Request)
  /\ direct \in Seq(Reply)

In(m, q) == \E i \in DOMAIN q : q[i] = m

Coming(r)  == \E q \in {direct, evs, inbox} : In(Msg("RoomJoined", r), q)
Leaving(r) == \E q \in {cmds, toServer} : In(Msg("LeaveRoom", r), q)

\* The server never keeps the player in a room that the client does not show,
\* longer than a message takes: a room the client has given up is being left,
\* one it does not know yet is being confirmed, through any map changes and
\* reconnects (leave_room, and the handlers of RoomJoined and Connected).  The
\* one exception: a second join of a room that is refused.
HiddenRoomIsTransient ==
  \A r \in srv : r \in joined \/ Coming(r) \/ Leaving(r) \/ r \in doubtful

AtRest ==
  /\ link = "up" /\ ~updating
  /\ inbox = <<>> /\ evs = <<>> /\ cmds = <<>>
  /\ toServer = <<>> /\ direct = <<>>

\* The state that opens the microphone agrees with the confirmed rooms, which
\* change by joins, leaves, refusals and reconnects in any order.
StateAgrees ==
  /\ state = "InRoom" => joined # {}
  /\ joined # {} => state \in {"InRoom", "Disconnected"}
  /\ AtRest => state \in {"Connected", "InRoom"}

\* A confirmed room survives the loss of the link: unless it is left or
\* refused, or the link is lost once more, the server has the player back in
\* it in the end (Connected re-issues joined_rooms).  A link that is lost before
\* the manager has seen it come up takes the rooms along.
DropIsSurvived ==
  \A r \in Room, d \in 1..MaxDrops :
    (/\ link = "lost" /\ drops = d
     /\ r \in joined /\ evs = <<>> /\ inbox = <<>>)
      ~> (r \in srv \/ r \in given \/ drops > d)
=============================================================================
