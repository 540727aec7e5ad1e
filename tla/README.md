# A TLA+ model of Vloxximity

Vloxximity is proximity voice chat for Guild Wars 2: an addon (`client/`) that
captures, encodes and spatialises voice, and a relay server (`server/`) that
keeps rooms of peers and fans events and audio out to them.  This directory
holds TLA+ modules of the parts whose correctness depends on the order in which
things happen, the TLC configurations that check them, and TLAPS proofs about
them.  Line numbers refer to the Rust sources; `PROJECT.json` maps every
definition to its lines.

## 1. Inventory

### Server

| component | state | operations | interacts with |
|---|---|---|---|
| Room directory (`rooms.rs`) | `rooms`, `peers`, `accounts` (three DashMaps), each `Room`'s own listing | register, unregister, join, leave, leave_all, bind account, position and audio fan-out | called by every session task and the test-peer tasks; pushes `RoomEvent`s into each peer's broadcast channel |
| Session (`session.rs`) | per connection: bounded `direct` mpsc, `broadcast` receiver, rate limits, last_seen, kick | one handler per client message; an outbound task that selects over the two channels | directory, GW2 and WvW caches, squads |
| Rate limits (`rate_limit.rs`) | five token buckets, an overage window | `try_take`, `record_overage` | session |
| Sweeper (`sweeper.rs`) | timer | kick idle peers, sweep squads | directory, squads, sessions (`Notify`) |
| Squad registry (`squad.rs`) | clusters of account names with a last-seen time | `identify`, `sweep` | session, sweeper |
| GW2 and WvW API (`gw2.rs`, `wvw.rs`) | caches keyed by key hash / world | check, await the fetch, insert | session |
| Test peers (`test_peer.rs`) | one supervisor | start and stop synthetic peers | directory |
| Wire protocol (`protocol.rs` on both sides) | none | JSON messages, binary audio frames | session, client network task |

### Client

| component | state | operations | interacts with |
|---|---|---|---|
| Voice manager (`voice/manager.rs`) | joined rooms, slots of automatic rooms, peers, mutes, pending identify, validation status | `update()` drains the network events once per frame; join, leave, mute, settings, member events of RTAPI | network task, audio thread, UI, persistence |
| Network (`voice/network.rs`, `network/ws.rs`) | connection, command and event queues | connect, reconnect, send, receive | manager, server |
| Group and rooms (`voice/group.rs`, `auto_rooms.rs`, `active_speak.rs`, `room_type.rs`) | current squad or party, auto-join switches, preferred speak room | apply member events, reconcile the group room, resolve the speak room | manager |
| Audio thread (`audio/thread.rs`, `audio/playback.rs`) | playback peers, one jitter buffer and decoder per (peer, room), mute and volume, two clocks | handle commands, mix frames, queue them for the device | manager and network task (command queue), output thread |
| Capture and VAD (`audio/capture.rs`, `audio/vad.rs`) | capture channel, counts of frames with and without speech | fill the channel from the device callback, process a frame | audio thread, manager |
| Persistence (`voice/persist/`) | settings and mutes files, keyring | load, save | manager |

### What is hard here, and what makes each part correct

* Sessions run in parallel on a multi-threaded runtime, and each directory call
  is a sequence of separately locked steps: any two sessions interleave between
  any two of them.  *Correct* means: members of a room know of each other, no
  room and no slot of an account is leaked, listings name the bound account.
* A client hears about a room on two channels: `RoomJoined` is sent on the
  direct channel, `PeerJoined`/`PeerLeft` on the broadcast one; the order in
  which they arrive is not the order in which they happened, and both channels
  may drop (`try_send` on a full queue, `Lagged`).  *Correct*: what was not
  dropped is on the client's list in the end.
* State is read before an `await` or an unlock and used after it: account
  checks, squad clusters, API caches, room emptiness, the sweeper's look at
  `last_seen`.  *Correct*: nobody gets in by an answer that is older than the
  cache and the request allow, no two groups share a cluster, nobody is kicked
  for a silence that is long over, and nobody silent stays.
* Connections close at any step; a client reconnects and replays its rooms,
  while the map, the group, the API key and the user's wishes change.
  *Correct*: the server has the player in the rooms that the client shows and
  follows, and in no other; a reported group ends up in its room; a mute is
  kept by what is shown, what is heard and what is saved.
* Audio passes through four bounded buffers and three threads with clocks of
  their own.  *Correct*: no gaps, no growing delay, silence when deafened, and
  a captured frame goes to the room the keys ask for.

`PROJECT.json`, "hazards", lists each one at its line with the property that
covers it, or the reason none does.

## 2. Plan

All of it is done except where section 5 says otherwise; the order was the room
directory, rate limits and squads with their proofs; the client's rooms, its
peers, and the way of a captured frame; then admission through the two API
caches, the relay's channels, the life of a connection under the sweeper, the
rooms joined automatically with the group flow and the API key, the playback
clocks, the persisted mutes, the refinement of the token bucket, and the proofs
of Admission, Session, ClientRooms, Relay, PeerAudio, Playback, Speaking and
AutoRooms.

What could be added next: an abstract directory with atomic joins, which
RoomManager implements as long as no room is removed under a joiner
(`rooms_roster` shows that it does not in general); the rate limit in the
client's modules.

## 3. Modules and the code

Each module that models code has an MC module that adds only model values,
constant functions and symmetry sets; properties, mutants of an operator (named
in a comment that begins with "Mutant") and the configuration's names are
otherwise in the module itself.  Proofs of `X` are in `XProofs`, except that
`ConnectionProofs` is about RateLimit, SquadRegistry and Session and `AudioProofs` about
Playback and Speaking.  Of each of these groups all but the first have a prefix (`SR`, `Se`,
`Sp`) to `Init`, `Next`, `Spec`, `TypeOK`, so that one module can extend them all.

How they fit together: **RoomManager** has the interleaving of directory calls
that **Relay**, **Admission** and **ClientRooms** take as one step; **Relay** has the two
channels between session and client, **ClientRooms** the queues between session
and manager, and **AutoRooms** decides what the manager asks for and takes one queue
for those stages; **PeerAudio** goes on from the events to the playback engine's
peers, **Playback** from their streams to the device, **Speaking** from the
microphone to the commands that carry audio.  **SquadRegistry** and **RateLimit** are
objects that a session calls, **Session** is the loop that calls them.

**RoomManager** (`server/src/rooms.rs`).  One action is one step under one lock
of one session; `pc` is the place in the call.  `rooms` maps a room id to an
`Instance`, the identity of the `Room` behind an `Arc`: a joiner that has cloned
the `Arc` (`arc`) goes on with it although the entry is removed, and an instance
nobody refers to any more is given back and can be allocated again.  A read guard
on a map entry (`readers`) is modelled where the code holds one over several
steps, from `rooms.get` to the emptiness check of `leave_room`, and blocks writers of
the same entry.  Broadcasts visit the other peers one at a time (`JoinScan`,
`LeaveScan`) and decide for each at that moment.  `view` is what the clients have
been told if nothing is lost.

| action | code |
|---|---|
| `Register`, `Unregister` | `register_peer`, `unregister_peer` |
| `JoinFlag`, `JoinEntry`, `JoinSnapshot`, `JoinAdd`, `JoinScan`, `JoinReturn` | `join_room`, in the order of its steps |
| `Leave`, `LeaveAll`, `LeaveFlag`, `LeaveRoom`, `LeaveScan`, `LeaveCheck`, `LeaveRemove` | `leave_room`, alone or out of `leave_all_rooms` and `unregister_peer` |
| `SetAccount`, `SetName`, `Relabel`, `RelabelDone` | `try_set_account_name` |
| `Unbind`, `UnbindRemove` | `unbind_account`, in both of its callers |

**RateLimit** (`server/src/rate_limit.rs`, and its use in `session.rs`).  A
bucket's `tokens` are counted in parts of `Unit` to a message, `last` is
`last_refill`.  `Admit` and `Refuse` are the two ways of `try_take`, the second
with `record_overage`.  `Mark`, `MarkRefusals` and the counters `admitted`,
`sinceFull` and `refused` are history: they begin to count at any instant.
**EagerBucket** is the abstract specification: a level that every tick raises.
`Eager` instantiates it with the level a bucket would have if it were asked now;
`IsEager` says that the lazily refilled bucket implements it.

**SquadRegistry** (`server/src/squad.rs`).  `identify` is `Start`, one `Visit` per
cluster, then `Match` or `Mint`; `sweep` is `SweepCollect` and one `SweepRemove`
per id.  `started` is the `now` that `identify` reads once.  `of`, `owner` and
`answer` are history: the group a session really is in, the group a cluster was
minted for, what the session was told.

**Admission** (`JoinRoom` and `ValidateApiKey` of `session.rs`, `gw2.rs`, `wvw.rs`).
`pc` is the await a session's handler is at, `request`, `got`, `side` and `since` are
its locals.  `Receive` looks the key up; `AccountAnswered`, `AccountFailed` and
`AccountStored` are the request and the insert of `validate_api_key`; `BindJoin` and
`BindValidate` go by the answer; `CheckRoom`, `TeamAnswered`, `TeamUnknown` and
`TeamStored` are `verify_team`; `Join` is the end of the handler.  `KeyChanges` and
`MatchChanges` are the API, `answered` and `fought` record when it last said what.

**Session** (`handle_socket` of `session.rs`, `sweeper.rs`).  `Kick` and `Read` are the
biased select of the receive loop, `Return` the end of an awaiting handler,
`KickEnds` and `Unregister` the way out.  `StartWalk`, `Look` and `Notify` are
`sweep_once` over the handles it copied: the look at `last_seen` and the permit of
the `Notify` are two steps.  `silent` and `spared` are history.

**Relay** (`handle_socket`, the fan-out of `rooms.rs`, and the lists of `manager.rs`).
One connection is followed; the others are peers that come, go, move and speak.
`Broadcast` is tokio's broadcast channel (full, it drops the oldest event),
`TrySend` the direct one (full, it drops the newest answer), `WriteEvent` and
`WriteDirect` are the writer task together with the client that takes what comes.
A `JoinRoom` is two steps, `Validate` with its `AccountValidated` and then `JoinRoom` or
`RefuseJoin`, since the handler awaits before each.  `TakeRoster` and `TakeRefusal` are what
the manager makes of the two answers; a refusal that leaves it without a confirmed room
clears its list of peers.  `news`, `lost` and `clean` are history.

**ClientRooms** (`voice/manager.rs`, `voice/network.rs`, `network/ws.rs`, and the
join and leave of `session.rs`).  Four parts run by themselves: the manager (the
`On...` actions and `FollowMap` make up `update()`, between `UpdateBegin` and
`FollowMap`; `JoinManual` and `LeaveManual` are calls of the user interface), the
network task (`SendCommand`, `Receive`, `Reconnect`, `ConnectOk`, `ConnectFail`), the
link (`Drop`, `DropAtWelcome`) and the session (`ServeJoin`, `RefuseJoin`,
`ServeLeave`).  `link` takes the connection's state together with the task's
`was_connected`; `cmds` and `evs` are its two channels, `inbox` the events that
`update()` has collected.

**AutoRooms** (`voice/manager.rs`, `voice/auto_rooms.rs`, `voice/group.rs`).  The manager is
one record and its methods are operators on it, since `update()` holds the
manager's lock from the first event to the last room: `Update` handles all events
(`Handle` one, `After` as many as have come, a recursive function), lets the slots follow MumbleLink (`Tracking`; `Vacate` and `Occupy` are what it does
to a slot), sends a due report
(`Flush`) and reconciles the group's room (`Target`, `Follow`).  `MemberJoined`,
`MemberLeft`, `MemberUpdated` are RTAPI's events, `LeaveManual`, `ChangeKey` and `SwitchAuto` the
user; `ServeJoin`, `ServeLeave`, `ServeValidate` and `ServeIdentify` the session, which turns a
good key down in `RefuseJoin` (account cap, PvP and WvW checks) and `RefuseValidate` (account cap).

**PeerAudio** (`voice/manager.rs`, `voice/network.rs`, `audio/thread.rs`,
`voice/persist/mutes.rs`).  `direct` and `bcast` are the two channels of the session.
`ReceiveRoster` and `ReceiveNote` are the network task, which writes to the manager's
events (`evs`) and straight to the audio thread (`chan`); the `On...` actions, `Leave`
and `Mute` are the manager, which writes to `chan` as well; `Play` is
`handle_command`.  `Save` and `Load` are the file of muted accounts with their ways
to fail, `Restart` the add-on that is unloaded or killed and loaded again.

**Playback** (`audio/thread.rs`, `audio/playback.rs`).  `Run` is a round of the audio
thread with `process()`: `Due` is its pacing loop, `Mix` the frames it takes from the jitter buffer and
queues, `Deaf` its deafened branch; `Start`, `Stop`, `SetOutputDevice`, `SetDeafened` and `ResetIncoming` are commands, `Push` is a
frame that arrives, `Drain` the output thread, `Tick` time and the device.  The clocks
`next_mix_at` and `playback_buffered_until` are kept as distances from now.  `thread` is what the
audio thread keeps in locals.  `Popped` is what repeated calls of `pop()` leave, in closed form;
MCPlayback has TLC compare it with the calls one by one.

**Speaking** (`audio/capture.rs`, `audio/thread.rs`, `audio/vad.rs`,
`voice/active_speak.rs`, `voice/manager.rs`).  `Capture` is the device callback,
`Forward` the audio thread's drain of it, one frame at a time, and `SetInputDevice` its stop
and start, which makes a new channel or fails.  `process_outgoing_audio` is `StartTurn`, which
reads mute, state and keys once, one `Transmit` per frame, and `EndTurn`; `target` is its local.
Keys, settings, events and rooms wait for the manager's lock meanwhile (`Unlocked`), the device
and the audio thread do not.  `Resolve` is `ActiveSpeak::resolve` and `Detect`
`VoiceActivityDetector::process`.  `joinedAt` is `joined_rooms`, an instant per room.  Of a frame
only its sound matters: silence, noise or voice.  `keys` and `fed` are history: the
presses and releases, and what the detector was given.

## 4. Runs

| run | what it asks | bounds | distinct states, time |
|---|---|---|---|
| `rooms_two` | awareness of members, leaked rooms, leaked slots, names in listings, the inductive invariant | two connections, two rooms, two accounts, a cap of one, three instances | 0.8 million, 45 s |
| `rooms_roster` (violation) | is every roster complete? | three connections, one room, three instances | 5 s |
| `rate_limit` | bounds on admissions and refusals; no undue refusal; the refinement of EagerBucket | two kinds, ticks up to 4, twice the window of overages | 0.4 million, 25 s |
| `squad_fusion` | are two groups ever told one cluster? the inductive invariant | two sessions, two groups with one player in common, three ids, two ticks, a lifetime of one | 1.2 million, 50 s |
| `admission` | how old may an answer be that somebody is let in by? the inductive invariant | two sessions, one key, the room of the account's own world and one of another, ticks up to 3, one change of the API, a cap of one | 2.3 million, 65 s |
| `session` | is a silent connection dropped in time and in the end, and only a silent one? the inductive invariant | two connections, an idle timeout and a sweep of two ticks, requests of one | 0.3 million, 40 s |
| `relay` | is the client's list right when its channels are empty? | two others, one room, two events, two answers, one request under way | 0.8 million, 45 s |
| `client_rooms` | hidden rooms, state, survival of a lost link | one map room, one typed room, one move, two link losses | 84 thousand, 20 s |
| `auto_rooms` | rooms that nobody follows, groups left by hand, verdicts on keys, groups that are never reached; the inductive invariant | one tracked slot with one place, two groups, three accounts, a good and a bad key, three moves or refused joins, one link loss or refused validation | 0.3 million, 165 s |
| `peer_mute` | do the mutes that are wanted, seen, heard and saved agree? | two peers, one of them with an account, two rooms, five steps, one restart | 1.7 million, 40 s |
| `playback` | gaps, delay, deafness, loss, the inductive invariant | sizes as in the code, a frame of four ticks, two frames under way, threads late by two ticks and by one | 0.4 million, 20 s |
| `speaking` | does a frame go where the keys ask, does the detector do what its definition says? the inductive invariant | three rooms of two types, two keys, four frames, channels of one and two, three key events, three other steps | 0.6 million, 40 s |

Why the bounds are enough:

* `rooms_two`.  Every property of the run relates one peer to another in a room, or one
  peer to an account; the hazards are two sessions at two points of their calls.
  The second room is for calls that go on to another room with the first one half
  done, the third instance for one that is removed while a joiner still holds it.
  That two connections are enough is not taken on trust: the proofs are for any
  number.  The violation needs a third connection, and has one.
* `rate_limit`.  The clock runs for twice the window of two, so that a window
  starts over, and a bucket fills, runs dry and fills again in between.
* `squad_fusion`.  Three ids let two calls mint at once and one more after a sweep; two
  ticks are enough for a cluster to expire while a call that began before is under
  way.  Again the theorem has no such bounds.
* `admission`.  Two sessions with one key are what it takes for two requests of one entry to
  come back in the other order.  An account's entry lives for two ticks, a match's entry and every
  request for one: the clock's three reach the bound on an answer's age at the check of the key
  and the bound on the team's age, but not the four ticks that the account's world may be old when its
  team has been asked for as well.  That conjunct of `TeamIsRecent` is shown by the theorem only; with
  lifetimes of one tick, where the clock reaches it, the properties held as well (3.9 million states).
  A PvP room
  is admitted or refused by its name alone, and no room of the run is one.  The theorems have no
  bounds.
* `session`.  One connection is looked at by the sweeper while the other one's session goes on.
  A timeout as long as the sweep's interval lets a silence begin anywhere between two walks.
* `relay`.  Two answers, so that a refusal waits ahead of a roster, or the roster ahead of a refusal of
  the same room; two events, so that one is read before an answer that was written before it while
  another waits, and a third pushes out the first; two peers, so that what is lost of one must not
  cost the other.  In one room every refusal leaves the client without any.  That another room which is
  confirmed keeps the lists takes two: with two rooms, one peer and one event (3.4 million states) the three
  properties held as well.  The theorems have no bounds.
* `client_rooms`.  Two losses of the link: the second one can come before the first is
  known, while the rooms are asked for anew, or after.  One move is a map change, a
  manual join or a manual leave, in the middle of any of it.  The theorems are for any number.
* `auto_rooms`.  The groups share the player only, as groups of the game do.  Three moves are, for
  example, to join a group, to leave its room by hand, and to convert the group; or to edit the
  key twice while the first answer is under way.  The theorems have no bounds.
* `peer_mute`.  The shortest ways for a mute to go astray take up to six steps with one peer; the run's bound of
  five counts only what players and the link do, and not the steps of the tasks.  Without
  restarts the model was also run with six steps for two peers and with seven for one, and
  the property held.
* `playback`.  The sizes are the code's: a lead of three frames, bursts of eight, a jitter buffer of ten
  that keeps two back, a channel of 32, a buffer of 25 frames (48000 samples).  A frame is four
  ticks, so that threads run at, before and after any frame's time.  The clock `next_mix_at` is cut off at
  64 ticks ahead, behind which nothing changes.  The theorems are for any sizes that fit each other.
* `speaking`.  Thresholds of two frames each, four frames: the detector goes on, stays on over a
  pause of one frame, or goes off after two.  Channels of one and of two frames overflow.  Two rooms of one type make "the latest of the
  type" a question, two keys "the key pressed last", and three key events let the
  first be held, the second be pressed, and the first one repeat.  Three other steps connect
  and join two of the rooms; with a fourth, for a change of settings or a room left meanwhile, and channels of
  one (3.0 million states), the properties held as well.  The two rooms of one type are
  symmetric, since only their joins tell them apart.  The theorems have no bounds.

Deadlock is checked except in `peer_mute` and `speaking`, where players may stop doing
anything and the bounds on their steps are used up.  In RoomManager `AllGone` is the end of all
connections, of which the model has only so many.

**Fairness.**  Three specifications have any, each for a liveness property of its own.

* `ClientRooms!FairSpec`, for `DropIsSurvived`: weak fairness of `Update` (the game calls
  `update()` on every frame), of the arms of the network task that send, receive and
  reconnect and of the session (each is a loop on a runtime thread that takes what is in
  its queue), and strong fairness of `ConnectOk` (`connect()` is called again and again, and
  a server that is tried that often answers some time).  Neither map changes, manual calls, link
  losses, refused joins nor failed connects are fair.
* `Session!SeSpec`, for `SilentIsGone`: weak fairness of every task and of the sweeper (the runtime
  schedules what can run), and strong fairness of `SeTick`: time passes, whatever clients send.
* `AutoRooms!FairSpec`, for `GroupIsReached`: weak fairness of `Update(TRUE, TRUE)`, a
  frame on which MumbleLink can be read and the debounce is over, and of `Serve`.

**Finding.**  `rooms_roster`: `leave_room` removes the entry after it let go of the guard
under which the room was empty; a peer that joins in between is in a `Room` that the
directory does not know, and the next joiner is not told of it, although manager.rs:714 says
that the server returns the actual roster.

**What else the models showed.**  These are ways of the code that a text of the repository says
otherwise about, or that surprise; the properties are stated so as to hold around them, and
the exceptions are named there.

* `unbind_account` (rooms.rs:234) removes an account's entry in the same two steps, and one
  connection more than the cap (limits.rs:17) gets in.
* A `JoinRoom` that the network task takes without a connection is lost (ws.rs:177), and the
  room of the map is not asked for again, because `current_map_room` is set all the same
  (README.md:166 calls map rooms automatic).
* A `RoomJoined` that is read after the room was left puts it back into `joined_rooms`
  (manager.rs:610, against manager.rs:46), where it stays; after a reconnect the room is then
  really joined.  In AutoRooms such rooms are `late`.
* `revalidate_saved_api_key` clears the slots without leaving their rooms when the state is not
  `InRoom`; a room whose confirmation is under way, or that is rejoined, is then followed by
  nobody.  So is the map's when `Connected` is handled without a key.  These are `forgotten`.  A
  reconnect joins such a room anew, also when it is that of a group the user left by hand
  meanwhile; `LeftByHand` has the exception for them too, which takes five moves and two good
  keys to need.
* `AccountValidated` does not say which key it is about: only that answers come in order makes
  `VerdictIsOfKey` hold, for a link that does not drop.
* A `GroupIdentified` that was under way when the group disbanded sets `last_cluster_id` again
  (manager.rs:676), and the next group of two or more is taken into that room until its own
  report is answered.
* An `IdentifyGroup` that falls due while the state is `Disconnected` is discarded until the
  group changes (manager.rs:430).
* A peer loses its mute in the playback engine with its last stream (thread.rs:484), although it
  is still in another common room and thread.rs:230 calls the mute peer-global.  These peers are
  `thinned`.
* With push to talk, frames captured while no key was held wait in the channel (64 frames at
  most) and are sent when a key is pressed (manager.rs:945, against active_speak.rs:13).
* The pacing loop (thread.rs:559) ends when both clocks are ahead but advances only
  `next_mix_at`, so that once it starts it always mixes eight frames: audio comes in bursts.  As a burst takes
  what the jitter buffer holds beyond the frames it keeps back, the buffer overflows as soon as a
  burst is late (thread.rs:210): up to one frame, and those under way, per burst.
* `clear_buffer` (playback.rs:196) does not reach the channel before the buffer: up to 32 frames
  that were queued come after it.
* Two first reports of one group that run at once both mint, and the group is in two clusters until
  the next report (squad.rs:87).  A cluster expires while its members still use the id, since
  nobody reports an unchanged group (squad.rs:61).
* A roster that does not fit the direct channel is dropped with a log line (session.rs:465) and
  never sent again.
* A refusal that leaves the client without a confirmed room clears all its peers
  (manager.rs:700).  So a peer that joined a room whose own roster is still behind the refusal in
  the direct channel, and was announced before it, is off the list until it comes or goes again;
  and a second join of a room that is refused empties the list while the server keeps the
  player in the room.  In Relay these peers count as `lost`.

## 5. What is abstracted

* **RoomManager.**  The roster is read in one step (`get_peers` clones under the shard locks, one
  after another; what it may miss that way is a peer that is added meanwhile, which
  broadcasts to us).  Display names and positions are left out: nothing decides on them.
  `view` assumes that what is pushed is read in order; loss and reordering are Relay's.
  The fan-out of audio and of positions changes no directory state and is not an action here.
* **RateLimit.**  The code counts tokens in floating point and time in nanoseconds; the model in exact
  fractions and ticks, so rounding is not covered.  The window of overages is a
  fixed one that starts anew with the first refusal after it ended, although
  `rate_limit.rs:72` speaks of a rolling one: `RefusalBound` therefore has a factor of two.
* **SquadRegistry.**  The overlap is not looked at again under the lock that stores the report; the model
  does as the code does, and a cluster rewritten meanwhile is one of the same group.
  A sweep may remove a cluster that was refreshed after it was collected.
  `squad.rs:21` says that a party of two never clusters; reports that name both players do.
* **Admission.**  The code between two awaits takes no time, and a request ends within its timeout.  A
  failure of the API, of whatever kind, is the answer `None`, which the account cache keeps and the
  match cache does not.  `try_set_account_name` and `join_room` are one step.
* **Session.**  Of a frame only what it is to the loop is modelled: handled at once, handled with a
  request, refused, or the last.  One frame waits on the wire at a time.  Ages are not told apart beyond
  those that the properties name.
* **Relay.**  Joins and leaves of the directory are one step.  Between the taking of a roster on the server and
  its reading by the client an event may overtake it, and a peer that left in between stays on the client's
  list: `ChangesAreSeen` counts from the reading on, and `MembersAreSeen` is about members only.  The
  latter is for stays that began when no event of the room's earlier stay was under way (`clean`):
  without that it fails.  Excepted are peers whose last event was dropped, those of a room whose roster was
  dropped, and those that a refusal struck from the list and that were not listed since (`lost`).
  A join is refused at any time, for whatever reason (Admission has the reasons).  Answers that are neither a roster
  nor a refusal are one message, which takes its place in the channel.
* **ClientRooms.**  An API key is present, and neither the session's rate limit nor the capacity of its
  direct channel is reached.  The room of the map is the only one followed
  automatically.  Join and leave on the server are one step.  Messages not yet read when
  the link drops are lost.  `doubtful` is the one exception to `HiddenRoomIsTransient`: the server
  checks key, cap and team on every join, and refuses a second join of a room without taking
  the peer out of it, while the client takes a refusal for being out.
* **AutoRooms.**  `update()` is one step; a queue in each direction stands for the stages of ClientRooms.
  A loss of the link is always reported to the manager (ClientRooms has those that are not).  Rooms are joined by
  hand in ClientRooms only.  The account cap and the team checks refuse a good key at any time, as often as the
  bounds allow; who else is connected with the account is not modelled.  `VerdictIsOfKey` is about links
  that did not drop and keys whose validation the cap did not refuse, for its answer then is a bad key's.  The debounce is a free choice of when a report is due.
* **PeerAudio.**  Joins on the server are one step and none is refused.  Volume and position are kept the way
  the mute is and are not distinguished; the positions that come with a roster (network.rs:188) are sent after the
  peer itself, and a position changes nothing but the position.  Of a stream only its existence is modelled.  A save that fails
  leaves the file as it was, or empty; what the player wants is forgotten with what could not be saved or
  read, and for peers without an account with the peer.
* **Playback.**  One peer's stream.  Commands come at any time, while the code takes them at the
  start of a round only.  Samples, the mixer and the decoder are left out; a muted peer's frames
  are taken like any other's.
* **Speaking.**  A turn of the manager is several steps under its lock; a command of the audio thread may
  come between two frames of its drain, while the code takes commands between two drains.  Two presses never have the same `Instant`.  How a frame is classified, its encoding,
  the input volume and the partly filled buffer of the device callback are left out.  `Stop` is
  never sent by the client and has no action.

### Not modelled

* **Test peers** (`test_peer.rs`): a diagnostic aid.  Its peers call the directory like sessions, which
  RoomManager covers.
* **Signal processing and output** (`spatial.rs`, `codec.rs`, `mixer.rs`): floating-point
  computation on one block at a time.
* **MumbleLink and positions** (`position/`): shared memory that the game writes, and vector arithmetic.
  ClientRooms and AutoRooms take the map it shows as a free choice.
* **Settings and keyring** (`voice/persist/settings.rs`): one hazard of theirs is listed, an API key that could
  not be read at the start and is deleted by the next save (settings.rs:174); it needs no order of steps to
  happen.
* **User interface, add-on entry, server entry point**: rendering, registration and routing.  The calls of
  the user interface are actions of the client's modules.
* **Shutdown and the server URL**: a changed URL is not handed to the network task while the state is
  `Disconnected` (manager.rs:1500); the network task of the models has one server.
* **Two connections of one client**: the read task of an old connection writes `Disconnected` into the state it
  shares with the next one (ws.rs:159); the models have one connection at a time.
* **Byte formats**: JSON and the audio frame's header.

## 6. Proofs

TLAPS proves, for every value of the constants that satisfies the named assumptions:

| theorem | says |
|---|---|
| `RoomManagerProofs!TypeCorrect` | type correctness |
| `RoomManagerProofs!MembersAreAware` | `MutualAwareness` |
| `RoomManagerProofs!NoRoomLeaks` | `NoLeakedRoom` |
| `RoomManagerProofs!NoSlotLeaks` | `NoSlotLeak` |
| `RoomManagerProofs!RostersNameTheBoundAccount` | `ListedNameIsBound` |
| `ConnectionProofs!BucketsLimit`, `RefusalsAreBounded`, `RefusalsAreDue` | `AdmissionBound`, `RefusalBound`, `RefusalIsDue` |
| `ConnectionProofs!LazyIsEager` | `IsEager`, the refinement of EagerBucket |
| `ConnectionProofs!GroupsAreNotFused`, `ClustersAreOwned` | `NoFusion`, and its inductive invariant `SRInv` |
| `AdmissionProofs!AnswersAreRecent`, `TeamsAreRecent` | `AnswerIsRecent`, `TeamIsRecent` |
| `ConnectionProofs!SilenceEnds`, `KicksAreEarned` | `DroppedInTime`, `KickIsEarned` |
| `RelayProofs!TypeCorrect` | type correctness |
| `RelayProofs!ChangesSeen`, `MembersSeen` | `ChangesAreSeen`, `MembersAreSeen` |
| `PeerAudioProofs!TypeCorrect` | type correctness |
| `PeerAudioProofs!MutesHold` | `MuteHolds` |
| `ClientRoomsProofs!TypeCorrect` | type correctness |
| `ClientRoomsProofs!HiddenRoomsAreTransient` | `HiddenRoomIsTransient` |
| `ClientRoomsProofs!StatesAgree` | `StateAgrees` |
| `AudioProofs!TypeCorrect` | type correctness of Playback |
| `AudioProofs!DeviceNeverWaits`, `DelayStaysShort` | `NoGap`, `DelayIsBounded` |
| `AudioProofs!DeafHearNothing`, `LossesStaySmall` | `DeafIsSilent`, `LossIsBounded` |
| `AudioProofs!GateIsHysteresis` | `VoiceGateIsHysteresis` |
| `AudioProofs!SpeechGoesWhereAsked` | `GoesWhereAsked`, an action property |
| `AutoRoomsProofs!NoStrayRoom`, `LeftStaysLeft` | `OnlyOwnRooms`, `LeftByHand` |
| `AutoRoomsProofs!VerdictFits` | `VerdictIsOfKey` |

and in each module that the inductive invariant holds (`Invariance`; for Speaking it is
`SpeechInvariance`, for SquadRegistry `ClustersAreOwned`, for Session `SessionInvariance`), which
the runs of RoomManager, SquadRegistry, Admission, Session, Playback, Speaking and AutoRooms
check too.  Its definition is a
conjunction of named parts; a lemma for Init and one for a step are the two halves of the
induction, the second put together from lemmas per conjunct and, in those, one step per action.

**RoomManager.**  Assumed: the cap is at least one, and `None` is not a room, an account, an
instance or a set of peers.  None of the properties is inductive, and `IInv` adds:
`Control`, what the locals of a session are at each place of its call;
`Sharing`, that an instance is behind at most one room id, and behind none other than
that of a joiner that holds it; `Listing`, that a peer listed by a live room has the flag,
or is about to take itself out; `Awareness`, the property with the joins that are under
way: of two peers with the flag, one listed, the other has been told of it, is still to be visited by its
broadcast, or has it in the roster that its own join returns; `SlotInv` and `LabelInv`, the same for the steps of
`try_set_account_name`.  `NoLeakedRoom` needs `Control` for the peer that is on its way.
What the proof of awareness turns on is the order in `join_room`: the flag, then the roster,
then the listing, then the broadcast.

**RateLimit.**  Assumed: rates, bursts and the window are naturals, `Unit` and the threshold
positive.  `IInv` says that what was admitted since the mark and what is left are together within
burst and refill (`Level`), that since the bucket was last full they are no less
(`Exact`), and that an interval of refusals lies in the current window, began in the one
before it, or is longer than a window (`Windows`).  The arithmetic lemmas `Product`, `OneMore` and
`Refill` keep nonlinear terms out of the rest.  The refinement maps a tick to a `Drip`, an
admission to a `Pay`, everything else to a stutter.

**SquadRegistry.**  Assumed: groups are finite, and two of them share less than `MinOverlap`
players, which is the reason the constant's comment gives for its value.  `SRInv`
says that the members of a cluster are of the group it was minted for (`Owned`), that what a
call reports and has found is of its session's group (`Calls`), and that an answer is a cluster of the
group of who got it (`Answers`); `SameGroup` is the one step that uses the assumption.

**Admission.**  Assumed: the lifetimes are positive, `None` is none of the other values.  `IInv` says how far an
entry of either cache is from what the API last said so (a request's timeout at most when it was
stored, for the clock of the entry starts at the insert), and what a handler knows at each of its awaits: that its
request began no longer ago than the timeout, and that what it carries was said since.  The sum of
lifetime and timeout in the properties comes from these two.

**Session.**  Assumed: a request takes no longer than the idle timeout, as its three and five seconds do.  `SeInv` relates a silence to the sweeper's phase: one that the last walk did not find too long
is no longer than the timeout and what has passed since; one that it did find is on its way to a permit.
Of a permit it says that the silence it is for is over no longer than the handler has been awaiting.

**Relay.**  Assumed: the channels hold at least one message.  The list is right only when nothing is under way,
so what is kept is what the list is *going to* be.  `Current` says that the last event under way about a peer
is what is true of the peer; it is what the client will have read last.  `Right` and `Listed` say what holds of
the list itself once no event about the peer is under way, none was dropped, and the client is not leaving:
it agrees with the membership of a peer that came or went, and has every member, or the roster that is on its way has.
A full channel drops its oldest event, so that `Current` survives a drop.  A refusal that clears the list makes
the peers on it `lost`, of whom nothing is claimed until they are heard of again.  The lemmas
`LastAppend...`, `LastTail`, `HasTail` are about one queue, `BroadcastStep` and `Quiet` about a step
that concerns the peer and one that does not; each action is one of the two.

**ClientRooms.**  Assumed: `None` is no room.  The queues have any length, and a property of the client's
state cannot be inductive while messages are under way.  `IInv` therefore speaks of what the client is
*going to* show: `After` reads a queue for the last message that says anything about the room, and
`Line` does so for the three queues in their order.  `Shown` says that a room of the server will be
shown so, or is being left, or doubtful; `Told` the same of the link.  The lemmas `AfterAppend` and
`AfterHead` are what a queue does when a message comes or is handled, `Line...` what the moves between queues
do; each action is then one of these.  `After` is a definition by quantifiers and not by recursion, so that no
induction over queues is needed.

**PeerAudio.**  Assumed: peers and rooms are finite, those with an account are peers, and `None` is no room and no
state of a playing peer.  `Wishes` relates the two lists of the manager and the file to what the player asked
for.  For the engine, `Outcome` says how a queue of commands ends for one peer, given the state it starts from:
with what brings a thing about and nothing after that ends it.  `Silenced` says with it that nobody
ends up muted whom the player does not want muted.  `Lasting` says that a listed peer which is not thinned ends up playing, and if it is to be
muted, muted after it plays: `Muting` takes both together, for a mute that is handled before the
peer plays is lost.  `Lasting` is suspended while a `Disconnected` is on its way to the manager, for the
engine has been reset by then.  `Sent` and `PlayStep` say what more commands and what the
engine's turn do to an outcome; `AddToStep` is where the order of the upsert and the mute counts.

**Playback.**  Assumed: the sizes are positive (`PlaybackAssumption`) and fit each other
(`SizeAssumption`): the lead outlasts the pauses of both threads, a burst lasts longer than the lead, and the
channel, the buffer and the jitter buffer hold the bursts that can come.  The code's sizes do.  The loop
of `process()` looks at two clocks and advances one, so that the lemmas say first how far a burst
moves them.  `Silenced` and `Backlog` are about clears that do not reach everything; `Clocked` says where
`next_mix_at` stands against `playback_buffered_until`; `Ebbing` bounds what waits by what
the second clock says of it, from above, and `Supplied` from below, up to the phase of the device.
`NoGap` follows from the latter: the lead cannot have run out before both threads had their
turn.  `Paced` and `Fed` count the frames that a jitter buffer can have been given since the last burst.

**Speaking.**  Assumed: the thresholds and channel sizes are positive, a room's type is one of five, and `None` is
no room.  `VoiceGateIsHysteresis` speaks of the whole history; inductive it becomes with `Counted`: each of the two
counters is the length of the run of equal frames in which the history ends.  `GoesWhereAsked` needs
`Pressed`, that a key's state is what the record says of it, `Ordered`, that no two rooms were joined
at one instant, and `Asked`, that what held when a turn of the manager began holds until it
ends.  The last one needs the lock: without the guard `Unlocked` it fails.  That the
room joined last, the key pressed last and the first frame of a hold exist is by
well-foundedness of the naturals (`WFMin`).

**AutoRooms.**  Assumed: `None` is no room, group, place, key or account, and the player is not counted
among a group's other members.
`IInv` is put together from `Good`, which is stated of a manager in the middle of `update()`, with the
commands it has not handed over yet after those on their way.  An update is then a chain of small
steps that each keep `Good`: an event handled, a slot vacated or occupied, a report sent, a
group's room joined or left.  `RoomsKept` says that a room the manager has confirmed, or that
the server has or will have when it has been told all (`Going`), is in a slot, or forgotten, or
late: the server's rooms alone are not inductive, for a join under way after a leave brings a
room back.  `Respected` says that the group's slot never holds a room left by hand.
`VerdictComes` says of the last command or answer that brings a verdict (`LastIsOf`) that it
is of the present key; before the first connection nothing is answered (`Unheard`), so that
no answer of an earlier connection can follow.  The lemmas named `...After` are what a command more does to a
queue.  `After` is a recursive function over the answers that have come; that it exists, and
that `Good` holds along it, is shown by the least number of answers for which it would not (`WFMin`).

**Only model-checked.**  Liveness (`DropIsSurvived`, `SilentIsGone`, `GroupIsReached`), which is
out of TLAPS's reach here.  `rooms_roster` is a counterexample and needs no proof.
