------------------------------ MODULE PeerAudio ------------------------------
(***************************************************************************)
(* The peers a client hears.  What the server sends reaches the playback   *)
(* engine (audio/thread.rs) twice: from the network task (network.rs) at   *)
(* once, and through the manager (manager.rs) later.  Both write to one    *)
(* channel, which the audio thread works off.                              *)
(*                                                                         *)
(* The server sends room events and audio through one channel of the       *)
(* session and rosters through another; the order between the two is lost. *)
(***************************************************************************)
EXTENDS Integers, Sequences, FiniteSets, SequencesExt

CONSTANTS
  Peer,       \* the other peers
  Room,
  Named,      \* those with a validated account, each its own
  None,
  MaxSteps,   \* bound on what peers and player do
  MaxLoads    \* bound on how often the add-on is loaded again

ASSUME NamedAssumption == Named \subseteq Peer
ASSUME NoneAssumption ==
  None \notin Room \cup [muted : BOOLEAN, streams : SUBSET Room]
ASSUME FiniteAssumption == IsFiniteSet(Peer) /\ IsFiniteSet(Room)
ASSUME BoundAssumption == MaxSteps \in Nat /\ MaxLoads \in Nat

VARIABLES
  steps, loads,
  at, ours,        \* external: the rooms the others are in on the server, and we
  direct, bcast,   \* the session's direct_tx and room_tx
  evs,             \* NetworkEvent channel
  roomIds,         \* VoicePeer.room_ids; empty for a peer that is not in `peers`
  muted,           \* the peers with is_muted
  mutedAccounts,   \* by the peer that has the account
  file,            \* mutes.json, as it is read: empty when it is missing or broken
  joined,          \* joined_rooms
  chan,            \* IncomingAudioCommand channel
  playing,         \* IncomingPlaybackEngine.peers
  thinned,         \* history: peers part of which was dropped since they were listed
  asked,           \* history: whom the player wants muted
  stale            \* history: the last save or load failed

remote  == <<at, ours>>
wire    == <<direct, bcast>>
mutes   == <<mutedAccounts, file, stale>>
manager == <<roomIds, muted, mutes, joined, thinned, asked>>
bounds  == <<steps, loads>>
vars == <<bounds, remote, wire, evs, manager, chan, playing>>

Playback == [muted : BOOLEAN, streams : SUBSET Room]
Fresh    == [muted |-> FALSE, streams |-> {}]

Note(kind, p, r)         == [kind |-> kind, peer |-> p, room |-> r]
Roster(r, ps)            == [kind |-> "RoomJoined", peers |-> ps, room |-> r]
Disconnected             == [kind |-> "Disconnected"]
Connected                == [kind |-> "Connected"]
ResetIncoming            == [kind |-> "ResetIncoming"]
UpsertPeer(p)            == [kind |-> "UpsertPeer", peer |-> p]
RemovePeer(p)            == [kind |-> "RemovePeer", peer |-> p]
RemovePeerFromRoom(p, r) == [kind |-> "RemovePeerFromRoom", peer |-> p, room |-> r]
SetPeerPosition(p)       == [kind |-> "SetPeerPosition", peer |-> p]
PushPeerOpus(p, r)       == [kind |-> "PushPeerOpus", peer |-> p, room |-> r]
SetPeerMuted(p, b)       == [kind |-> "SetPeerMuted", peer |-> p, muted |-> b]

Init ==
  /\ steps = 0 /\ loads = 0
  /\ at = [p \in Peer |-> {}] /\ ours = {}
  /\ direct = <<>> /\ bcast = <<>> /\ evs = <<>>
  /\ roomIds = [p \in Peer |-> {}] /\ muted = {} /\ mutedAccounts = {}
  /\ joined = {}
  /\ chan = <<>>
  /\ playing = [p \in Peer |-> None]
  /\ thinned = {} /\ file = {} /\ asked = {} /\ stale = FALSE

-----------------------------------------------------------------------------
\* The other peers, on the server.

Step == steps < MaxSteps /\ steps' = steps + 1 /\ UNCHANGED loads

In(r) == {p \in Peer : r \in at[p]}

ToUs(kind, p, r) ==
  bcast' = IF r \in ours THEN Append(bcast, Note(kind, p, r)) ELSE bcast

PeerEnters(p, r) ==
  /\ Step
  /\ r \notin at[p]
  /\ at' = [at EXCEPT ![p] = @ \cup {r}]
  /\ ToUs("PeerJoined", p, r)
  /\ UNCHANGED <<ours, direct, evs, manager, chan, playing>>

PeerLeaves(p, r) ==
  /\ Step
  /\ r \in at[p]
  /\ at' = [at EXCEPT ![p] = @ \ {r}]
  /\ ToUs("PeerLeft", p, r)
  /\ UNCHANGED <<ours, direct, evs, manager, chan, playing>>

PeerSends(kind, p, r) ==
  /\ Step
  /\ r \in at[p]
  /\ ToUs(kind, p, r)
  /\ UNCHANGED <<remote, direct, evs, manager, chan, playing>>

\* The player asks for a room, and gets it.
Join(r) ==
  /\ Step
  /\ r \notin ours
  /\ ours' = ours \cup {r}
  /\ direct' = Append(direct, Roster(r, In(r)))
  /\ UNCHANGED <<at, bcast, evs, manager, chan, playing>>

-----------------------------------------------------------------------------
\* network_task.

Upserts(ps) == SetToSeq({UpsertPeer(p) : p \in ps})

ReceiveRoster ==
  /\ direct # <<>>
  /\ direct' = Tail(direct)
  /\ evs'  = Append(evs, Head(direct))
  /\ chan' = chan \o Upserts(Head(direct).peers)
  /\ UNCHANGED <<bounds, remote, bcast, manager, playing>>

\* That audio was received only refreshes the manager's speaking indicator.
ReceiveNote ==
  /\ bcast # <<>>
  /\ bcast' = Tail(bcast)
  /\ LET m == Head(bcast)
     IN  /\ evs'  = IF m.kind = "PeerAudio" THEN evs ELSE Append(evs, m)
         /\ chan' = CASE m.kind = "PeerJoined" -> Append(chan, UpsertPeer(m.peer))
                      [] m.kind = "PeerAudio"  -> Append(chan, PushPeerOpus(m.peer, m.room))
                      [] m.kind = "PeerPosition" -> Append(chan, SetPeerPosition(m.peer))
                      [] m.kind = "PeerLeft"   -> chan
  /\ UNCHANGED <<bounds, remote, direct, manager, playing>>

\* The link is lost, with what is on the way; the next session is in no room.
LinkLost ==
  /\ Step
  /\ ours' = {} /\ direct' = <<>> /\ bcast' = <<>>
  /\ evs'  = evs \o <<Disconnected, Connected>>
  /\ chan' = Append(chan, ResetIncoming)
  /\ UNCHANGED <<at, manager, playing>>

-----------------------------------------------------------------------------
\* VoiceManager.

Listed(p) == roomIds[p] # {}
Event(kind) == evs # <<>> /\ Head(evs).kind = kind /\ evs' = Tail(evs)

\* Of peers without an account the player's wish ends with the listing.
Delist(ps) == asked' = asked \ (ps \ Named)

\* add_peer_to_room, for each of ps.  A new one whose account is on the list
\* is muted.
AddTo(ps, r) ==
  LET new  == {p \in ps : ~Listed(p)}
      mute == new \cap Named \cap mutedAccounts
  IN  /\ roomIds' = [p \in Peer |-> IF p \in ps THEN roomIds[p] \cup {r}
                                    ELSE roomIds[p]]
      /\ muted'   = (muted \ new) \cup mute
      /\ thinned' = thinned \ new
      /\ chan'    = chan \o Upserts(new)
                         \o SetToSeq({SetPeerMuted(p, TRUE) : p \in mute})

OnRoomJoined ==
  /\ Event("RoomJoined")
  /\ joined' = joined \cup {Head(evs).room}
  /\ AddTo(Head(evs).peers, Head(evs).room)
  /\ UNCHANGED <<bounds, remote, wire, mutes, asked, playing>>

OnPeerJoined ==
  /\ Event("PeerJoined")
  /\ AddTo({Head(evs).peer}, Head(evs).room)
  /\ UNCHANGED <<bounds, remote, wire, mutes, joined, asked, playing>>

\* Without room r, of the peers ps some are not in `peers` any more.  A client
\* that is left without rooms resets the engine, whoever is still listed.
DropRoom(ps, r) ==
  LET last  == {p \in ps : roomIds[p] \subseteq {r}}
      reset == joined' = {} /\ joined # {}
  IN  /\ roomIds' = [p \in Peer |-> IF p \in ps THEN roomIds[p] \ {r}
                                    ELSE roomIds[p]]
      /\ muted'   = muted \ last /\ Delist(last)
      /\ thinned' = thinned \cup (IF reset THEN Peer ELSE ps \ last)
      /\ chan'    = chan \o SetToSeq({RemovePeer(p) : p \in last})
                         \o SetToSeq({RemovePeerFromRoom(p, r) : p \in ps \ last})
                         \o (IF reset THEN <<ResetIncoming>> ELSE <<>>)

OnPeerLeft ==
  /\ Event("PeerLeft")
  /\ UNCHANGED joined
  /\ DropRoom({p \in {Head(evs).peer} : Listed(p)}, Head(evs).room)
  /\ UNCHANGED <<bounds, remote, wire, mutes, playing>>

OnPeerPosition ==
  /\ Event("PeerPosition")
  /\ chan' = IF Listed(Head(evs).peer)
             THEN Append(chan, SetPeerPosition(Head(evs).peer)) ELSE chan
  /\ UNCHANGED <<bounds, remote, wire, manager, playing>>

OnDisconnected ==
  /\ Event("Disconnected")
  /\ roomIds' = [p \in Peer |-> {}]
  /\ muted'   = {} /\ Delist(Peer)
  /\ thinned' = {}
  /\ chan'    = Append(chan, ResetIncoming)
  /\ UNCHANGED <<bounds, remote, wire, mutes, joined, playing>>

\* The rooms are asked for anew.
OnConnected ==
  /\ Event("Connected")
  /\ joined' = {}
  /\ ours'   = ours \cup joined
  /\ direct' = direct \o SetToSeq({Roster(r, In(r)) : r \in joined \ ours})
  /\ UNCHANGED <<bounds, at, bcast, roomIds, muted, mutes, thinned, asked,
                 chan, playing>>

\* leave_room for a confirmed room, and the server that is told.
Leave(r) ==
  /\ Step
  /\ r \in joined
  /\ joined' = joined \ {r}
  /\ ours'   = ours \ {r}
  /\ DropRoom({p \in Peer : r \in roomIds[p]}, r)
  /\ UNCHANGED <<at, wire, evs, mutes, playing>>

\* save_muted_accounts, which may fail before the file is touched, or after.
\* Mutant: it adds to the file.
SaveAdds(accounts) == file' = file \cup accounts /\ stale' = FALSE
Save(accounts) ==
  \/ file' = accounts /\ stale' = FALSE
  \/ file' \in {file, {}} /\ stale' = TRUE

\* load_muted_accounts: nothing on any error.
Load(ok) == IF ok THEN file ELSE {}

\* mute_peer.  Mutant: a mute without an account is persisted too.
PersistedAny(p) == {p}
Persisted(p) == {p} \cap Named

Mute(p, b) ==
  /\ Step
  /\ Listed(p)
  /\ muted' = IF b THEN muted \cup {p} ELSE muted \ {p}
  /\ mutedAccounts' = IF b THEN mutedAccounts \cup Persisted(p)
                      ELSE mutedAccounts \ Persisted(p)
  /\ IF mutedAccounts' # mutedAccounts THEN Save(mutedAccounts') ELSE UNCHANGED <<file, stale>>
  /\ asked' = IF b THEN asked \cup {p} ELSE asked \ {p}
  /\ chan' = Append(chan, SetPeerMuted(p, b))
  /\ UNCHANGED <<remote, wire, evs, roomIds, joined, thinned, playing>>

\* shutdown(), and the end of the threads and of the connection.
Shutdown ==
  /\ ours' = {} /\ direct' = <<>> /\ bcast' = <<>> /\ evs' = <<>> /\ chan' = <<>>
  /\ roomIds' = [p \in Peer |-> {}] /\ muted' = {} /\ joined' = {} /\ thinned' = {}
  /\ playing' = [p \in Peer |-> None]

\* The add-on is unloaded, if not killed, and loaded again.  With what could not be read or had not been saved
\* the player's wish is forgotten.
Restart(ok) ==
  /\ loads < MaxLoads /\ loads' = loads + 1
  /\ Shutdown
  /\ mutedAccounts' = Load(ok)
  /\ asked' = IF ok /\ ~stale THEN asked \cap Named ELSE mutedAccounts'
  /\ stale' = (stale \/ ~ok)
  /\ UNCHANGED <<steps, at, file>>
-----------------------------------------------------------------------------
\* The playback engine.  Mutant: an upsert starts the peer afresh.

UpsertedAfresh(p) == Fresh
Upserted(p) == IF playing[p] = None THEN Fresh ELSE playing[p]

\* A peer is dropped with its last stream, which it may never have had.
Without(p, r) ==
  IF playing[p] = None \/ playing[p].streams \subseteq {r} THEN None
  ELSE [playing[p] EXCEPT !.streams = @ \ {r}]

Ensured(p) == IF playing[p] = None THEN Fresh ELSE playing[p]

Play ==
  /\ chan # <<>>
  /\ chan' = Tail(chan)
  /\ LET c == Head(chan)
         Set(v) == playing' = [playing EXCEPT ![c.peer] = v]
     IN  \/ c.kind = "ResetIncoming" /\ playing' = [p \in Peer |-> None]
         \/ c.kind = "UpsertPeer" /\ Set(Upserted(c.peer))
         \/ c.kind = "SetPeerPosition" /\ Set(Ensured(c.peer))
         \/ c.kind = "RemovePeer" /\ Set(None)
         \/ c.kind = "RemovePeerFromRoom" /\ Set(Without(c.peer, c.room))
         \/ /\ c.kind = "PushPeerOpus"
            /\ Set([Ensured(c.peer) EXCEPT !.streams = @ \cup {c.room}])
         \/ /\ c.kind = "SetPeerMuted"
            /\ Set(IF playing[c.peer] = None THEN None
                   ELSE [playing[c.peer] EXCEPT !.muted = c.muted])
  /\ UNCHANGED <<bounds, remote, wire, evs, manager>>

Next ==
  \/ \E p \in Peer, r \in Room :
       PeerEnters(p, r) \/ PeerLeaves(p, r) \/ PeerSends("PeerAudio", p, r)
         \/ PeerSends("PeerPosition", p, r)
  \/ \E r \in Room : Join(r) \/ Leave(r)
  \/ \E p \in Peer, b \in BOOLEAN : Mute(p, b)
  \/ ReceiveRoster \/ ReceiveNote \/ LinkLost
  \/ \E ok \in BOOLEAN : Restart(ok)
  \/ OnRoomJoined \/ OnPeerJoined \/ OnPeerLeft \/ OnDisconnected
  \/ OnPeerPosition \/ OnConnected
  \/ Play

Spec == Init /\ [][Next]_vars
-----------------------------------------------------------------------------
TypeOK ==
  /\ steps \in 0..MaxSteps /\ loads \in 0..MaxLoads
  /\ at \in [Peer -> SUBSET Room] /\ ours \subseteq Room
  /\ roomIds \in [Peer -> SUBSET Room] /\ joined \subseteq Room
  /\ muted \subseteq Peer /\ mutedAccounts \subseteq Named
  /\ file \subseteq Named /\ asked \subseteq Peer /\ stale \in BOOLEAN
  /\ thinned \subseteq Peer
  /\ playing \in [Peer -> Playback \cup {None}]

AtRest == direct = <<>> /\ bcast = <<>> /\ evs = <<>> /\ chan = <<>>

\* When everything has settled, the player sees muted whom it wants muted, over
\* leaving, lost links and restarts that could read what was last to be saved; nobody
\* else is silenced, and whoever is seen muted is, as long as the peer has been in the
\* same rooms as the player since they met: the mute, the rosters and the audio arrive
\* by different ways and in different orders (add_peer_to_room, mute_peer,
\* save_muted_accounts, handle_command).
MuteHolds ==
  AtRest => \A p \in Peer : Listed(p) =>
    /\ p \in muted <=> p \in asked
    /\ playing[p] # None =>
         /\ playing[p].muted => p \in asked
         /\ p \in asked /\ p \notin thinned => playing[p].muted
=============================================================================
