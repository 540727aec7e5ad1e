---------------------------- MODULE RoomManager ----------------------------
(***************************************************************************)
(* server/src/rooms.rs: the membership directory of the relay.  Three      *)
(* concurrent maps - `rooms` (room id -> shared Room), `peers` and         *)
(* `accounts` - are updated by one session task per peer.  A session runs  *)
(* its own calls one after another, but every call is a sequence of        *)
(* separately locked steps, and the sessions of a multi-threaded runtime   *)
(* interleave between any two of them.  One action is one locked step.     *)
(*                                                                         *)
(* A Room is reached through an Arc: `rooms` maps an id to an Instance,    *)
(* and a joiner keeps the Instance it cloned even if the map entry is      *)
(* removed meanwhile.                                                      *)
(***************************************************************************)
EXTENDS Naturals, FiniteSets

CONSTANTS
  Peer,      \* connections; an id is a fresh uuid, so it is registered once
  RoomId,    \* room ids
  Account,   \* GW2 account names
  Instance,  \* identities of the Room objects behind an Arc
  MaxConnectionsPerAccount,
  None       \* no room, no account, no entry

ASSUME CapAssumption == MaxConnectionsPerAccount \in Nat \ {0}
ASSUME NoneAssumption ==
  /\ None \notin Instance \cup RoomId \cup Account
  /\ \A ids \in SUBSET Peer : None # ids

VARIABLES
  registered,  \* the keys of `peers`
  roomIds,     \* Peer.room_ids
  account,     \* Peer.account_name
  rooms,       \* `rooms`: the Instance behind each id
  listed,      \* Room.peers: the peers an Instance lists ...
  label,       \* ... and the account name each of them is listed with
  accounts,    \* `accounts`: AccountState.peer_ids behind each name
  readers,     \* sessions that hold a read guard on a `rooms` entry
  pc,          \* where each session stands in its current call
  room,        \* local: the room the call is about
  arc,         \* local: the Arc<Room> a join holds
  rejoin,      \* local: was_already_member
  roster,      \* local: existing_peers
  todo,        \* local: peers a broadcast has not visited yet
  queue,       \* local: rooms still to leave or relabel
  acct,        \* local: the account to unbind / to bind
  view         \* history: the members each client has been told of

dirVars   == <<registered, roomIds, account, rooms, listed, label, accounts>>
localVars == <<room, arc, rejoin, roster, todo, queue, acct>>
vars == <<registered, roomIds, account, rooms, listed, label, accounts,
          readers, pc, room, arc, rejoin, roster, todo, queue, acct, view>>

PC == {"off", "idle", "gone",
       "joinEntry", "joinSnapshot", "joinAdd", "joinScan",
       "leaving", "leaveRoom", "leaveScan", "leaveRemove",
       "unbind", "unbindRemove", "setName", "relabel"}

Goto(p, l) == pc' = [pc EXCEPT ![p] = l]
Others(p)  == Peer \ {p}

\* Is the Instance alive when p holds no Arc to it (any more)?  The Room of
\* one that is not alive is dropped, and its identity can be a new Room's.
Mapped(i)       == \E r \in RoomId : rooms[r] = i
HeldBesides(p, i) == \E q \in Others(p) : arc[q] = i

\* The Room behind i is empty: it is new, or its memory was given back.
EmptyRoom(i) ==
  /\ listed' = [listed EXCEPT ![i] = {}]
  /\ label'  = [label EXCEPT ![i] = [q \in Peer |-> None]]

Init ==
  /\ registered = {}
  /\ roomIds    = [p \in Peer |-> {}]
  /\ account    = [p \in Peer |-> None]
  /\ rooms      = [r \in RoomId |-> None]
  /\ listed     = [i \in Instance |-> {}]
  /\ label      = [i \in Instance |-> [p \in Peer |-> None]]
  /\ accounts   = [a \in Account |-> None]
  /\ readers    = [r \in RoomId |-> {}]
  /\ pc         = [p \in Peer |-> "off"]
  /\ room       = [p \in Peer |-> None]
  /\ arc        = [p \in Peer |-> None]
  /\ rejoin     = [p \in Peer |-> FALSE]
  /\ roster     = [p \in Peer |-> {}]
  /\ todo       = [p \in Peer |-> {}]
  /\ queue      = [p \in Peer |-> {}]
  /\ acct       = [p \in Peer |-> [old |-> None, new |-> None]]
  /\ view       = [p \in Peer |-> [r \in RoomId |-> {}]]

Register(p) ==
  /\ pc[p] = "off"
  /\ registered' = registered \cup {p}
  /\ Goto(p, "idle")
  /\ UNCHANGED <<roomIds, account, rooms, listed, label, accounts, readers,
                 localVars, view>>

-----------------------------------------------------------------------------
\* join_room: flag, entry, roster, listing, broadcast, reply.

\* The membership flag is set first, under the peer's own lock.
JoinFlag(p, r) ==
  /\ pc[p] = "idle"
  /\ roomIds' = [roomIds EXCEPT ![p] = @ \cup {r}]
  /\ rejoin'  = [rejoin EXCEPT ![p] = r \in roomIds[p]]
  /\ room'    = [room EXCEPT ![p] = r]
  /\ Goto(p, "joinEntry")
  /\ UNCHANGED <<registered, account, rooms, listed, label, accounts, readers,
                 arc, roster, todo, queue, acct, view>>

\* entry(..).or_insert_with(..).clone(): needs the entry's write lock.
JoinEntry(p) ==
  /\ pc[p] = "joinEntry"
  /\ readers[room[p]] = {}
  /\ \/ /\ rooms[room[p]] # None
        /\ arc' = [arc EXCEPT ![p] = rooms[room[p]]]
        /\ UNCHANGED <<rooms, listed, label>>
     \/ /\ rooms[room[p]] = None
        /\ \E i \in Instance :
             /\ ~Mapped(i) /\ ~HeldBesides(p, i)
             /\ arc'    = [arc EXCEPT ![p] = i]
             /\ rooms'  = [rooms EXCEPT ![room[p]] = i]
             /\ EmptyRoom(i)
  /\ Goto(p, "joinSnapshot")
  /\ UNCHANGED <<registered, roomIds, account, accounts, readers,
                 room, rejoin, roster, todo, queue, acct, view>>

\* get_peers: the roster.  A rejoin has nothing to list or to broadcast.
JoinSnapshot(p) ==
  /\ pc[p] = "joinSnapshot"
  /\ roster' = [roster EXCEPT ![p] = listed[arc[p]]]
  /\ Goto(p, IF rejoin[p] THEN "joinScan" ELSE "joinAdd")
  /\ IF rejoin[p] /\ ~Mapped(arc[p]) /\ ~HeldBesides(p, arc[p])
     THEN EmptyRoom(arc[p])
     ELSE UNCHANGED <<listed, label>>
  /\ arc' = IF rejoin[p] THEN [arc EXCEPT ![p] = None] ELSE arc
  /\ UNCHANGED <<registered, roomIds, account, rooms, accounts, readers,
                 room, rejoin, todo, queue, acct, view>>

\* add_peer, then peers.iter() starts.  The Arc is not used again: dropping
\* it drops a Room that nothing else refers to, and the listing with it.
JoinAdd(p) ==
  /\ pc[p] = "joinAdd"
  /\ IF Mapped(arc[p]) \/ HeldBesides(p, arc[p])
     THEN /\ listed' = [listed EXCEPT ![arc[p]] = @ \cup {p}]
          /\ label'  = [label EXCEPT ![arc[p]][p] = account[p]]
     ELSE EmptyRoom(arc[p])
  /\ arc'    = [arc EXCEPT ![p] = None]
  /\ todo'   = [todo EXCEPT ![p] = Others(p)]
  /\ Goto(p, "joinScan")
  /\ UNCHANGED <<registered, roomIds, account, rooms, accounts, readers,
                 room, rejoin, roster, queue, acct, view>>

\* The peers a broadcast reaches: those that carry the room's flag.
\* Mutant: those the room lists.
FlaggedListed(q, r) == rooms[r] # None /\ q \in listed[rooms[r]]
Flagged(q, r) == r \in roomIds[q]

\* The iteration visits the other peers one by one; PeerJoined goes to those
\* that are to be reached at that moment.
JoinScan(p, q) ==
  /\ pc[p] = "joinScan"
  /\ q \in todo[p]
  /\ view' = IF Flagged(q, room[p])
             THEN [view EXCEPT ![q][room[p]] = @ \cup {p}] ELSE view
  /\ todo' = [todo EXCEPT ![p] = @ \ {q}]
  /\ UNCHANGED <<dirVars, readers, pc, room, arc, rejoin, roster, queue, acct>>

\* The caller answers RoomJoined with the roster; a client skips itself.
JoinReturn(p) ==
  /\ pc[p] = "joinScan"
  /\ todo[p] = {}
  /\ view'   = [view EXCEPT ![p][room[p]] = @ \cup (roster[p] \ {p})]
  /\ roster' = [roster EXCEPT ![p] = {}]
  /\ room'   = [room EXCEPT ![p] = None]
  /\ rejoin' = [rejoin EXCEPT ![p] = FALSE]
  /\ Goto(p, "idle")
  /\ UNCHANGED <<dirVars, readers, arc, todo, queue, acct>>

-----------------------------------------------------------------------------
\* leave_room, leave_all_rooms, unregister_peer.

\* Where a call goes when the rooms in rest are still to be left.
AfterRoom(p, rest) ==
  IF rest # {} THEN "leaving"
  ELSE IF p \in registered THEN "idle"
  ELSE IF acct[p].old # None THEN "unbind" ELSE "gone"

Leave(p, r) ==
  /\ pc[p] = "idle"
  /\ queue' = [queue EXCEPT ![p] = {r}]
  /\ Goto(p, "leaving")
  /\ UNCHANGED <<dirVars, readers, room, arc, rejoin, roster, todo, acct, view>>

LeaveAll(p) ==
  /\ pc[p] = "idle"
  /\ roomIds[p] # {}
  /\ queue' = [queue EXCEPT ![p] = roomIds[p]]
  /\ Goto(p, "leaving")
  /\ UNCHANGED <<dirVars, readers, room, arc, rejoin, roster, todo, acct, view>>

\* The connection closed: the Peer is taken out of `peers`, what it held
\* (room_ids, account_name) is now local to the call.
Unregister(p) ==
  /\ pc[p] = "idle"
  /\ registered' = registered \ {p}
  /\ queue'   = [queue EXCEPT ![p] = roomIds[p]]
  /\ acct'    = [acct EXCEPT ![p].old = account[p]]
  /\ roomIds' = [roomIds EXCEPT ![p] = {}]
  /\ account' = [account EXCEPT ![p] = None]
  /\ view'    = [view EXCEPT ![p] = [r \in RoomId |-> {}]]
  /\ Goto(p, IF roomIds[p] # {} THEN "leaving"
             ELSE IF account[p] # None THEN "unbind" ELSE "gone")
  /\ UNCHANGED <<rooms, listed, label, accounts, readers,
                 room, arc, rejoin, roster, todo>>

\* A peer that is already unregistered counts as a member.
\* Mutant: it does not.
WasMemberIfPresent(p, r) == r \in roomIds[p]
WasMember(p, r) == p \notin registered \/ r \in roomIds[p]

\* Drop the flag; a peer that had none is done with the room.
LeaveFlag(p, r) ==
  /\ pc[p] = "leaving"
  /\ r \in queue[p]
  /\ queue'   = [queue EXCEPT ![p] = @ \ {r}]
  /\ roomIds' = [roomIds EXCEPT ![p] = @ \ {r}]
  /\ view'    = [view EXCEPT ![p][r] = {}]
  /\ IF WasMember(p, r)
     THEN /\ room' = [room EXCEPT ![p] = r]
          /\ Goto(p, "leaveRoom")
     ELSE /\ Goto(p, AfterRoom(p, queue[p] \ {r}))
          /\ UNCHANGED room
  /\ UNCHANGED <<registered, account, rooms, listed, label, accounts, readers,
                 arc, rejoin, roster, todo, acct>>

\* rooms.get(..): a read guard, held until the emptiness check, under which
\* the peer is unlisted.  Without an entry there is nothing to do.
LeaveRoom(p) ==
  /\ pc[p] = "leaveRoom"
  /\ \/ /\ rooms[room[p]] = None
        /\ room' = [room EXCEPT ![p] = None]
        /\ Goto(p, AfterRoom(p, queue[p]))
        /\ UNCHANGED <<listed, label, readers, todo>>
     \/ /\ rooms[room[p]] # None
        /\ readers' = [readers EXCEPT ![room[p]] = @ \cup {p}]
        /\ listed'  = [listed EXCEPT ![rooms[room[p]]] = @ \ {p}]
        /\ label'   = [label EXCEPT ![rooms[room[p]]][p] = None]
        /\ todo'    = [todo EXCEPT ![p] = Others(p)]
        /\ Goto(p, "leaveScan")
        /\ UNCHANGED room
  /\ UNCHANGED <<registered, roomIds, account, rooms, accounts,
                 arc, rejoin, roster, queue, acct, view>>

\* PeerLeft to each other peer that carries the flag.
LeaveScan(p, q) ==
  /\ pc[p] = "leaveScan"
  /\ q \in todo[p]
  /\ view' = IF Flagged(q, room[p])
             THEN [view EXCEPT ![q][room[p]] = @ \ {p}] ELSE view
  /\ todo' = [todo EXCEPT ![p] = @ \ {q}]
  /\ UNCHANGED <<dirVars, readers, pc, room, arc, rejoin, roster, queue, acct>>

\* is_empty(), and the guard goes either way; the entry is removed only
\* after the guard is gone.
LeaveCheck(p) ==
  /\ pc[p] = "leaveScan"
  /\ todo[p] = {}
  /\ readers' = [readers EXCEPT ![room[p]] = @ \ {p}]
  /\ IF listed[rooms[room[p]]] = {}
     THEN /\ Goto(p, "leaveRemove")
          /\ UNCHANGED room
     ELSE /\ Goto(p, AfterRoom(p, queue[p]))
          /\ room' = [room EXCEPT ![p] = None]
  /\ UNCHANGED <<dirVars, arc, rejoin, roster, todo, queue, acct, view>>

\* rooms.remove(..): whatever the entry holds by now.
LeaveRemove(p) ==
  /\ pc[p] = "leaveRemove"
  /\ readers[room[p]] = {}
  /\ rooms' = [rooms EXCEPT ![room[p]] = None]
  /\ LET i == rooms[room[p]]
     IN  IF i # None /\ ~HeldBesides(p, i)
         THEN EmptyRoom(i)
         ELSE UNCHANGED <<listed, label>>
  /\ room'  = [room EXCEPT ![p] = None]
  /\ Goto(p, AfterRoom(p, queue[p]))
  /\ UNCHANGED <<registered, roomIds, account, accounts, readers,
                 arc, rejoin, roster, todo, queue, acct, view>>

-----------------------------------------------------------------------------
\* try_set_account_name and unbind_account.

\* With the slot in the new account taken, the old one is given back.
\* Mutant: it is kept.
AfterReserveKeepsOld(p) == "setName"
AfterReserve(p) == IF account[p] = None THEN "setName" ELSE "unbind"

\* A call that names the bound account, or finds the new one full, changes
\* nothing.  Otherwise the slot in the new account is taken first.
SetAccount(p, a) ==
  /\ pc[p] = "idle"
  /\ a # account[p]
  /\ IF a = None THEN UNCHANGED accounts
     ELSE LET ids == IF accounts[a] = None THEN {} ELSE accounts[a]
          IN  /\ p \in ids \/ Cardinality(ids) < MaxConnectionsPerAccount
              /\ accounts' = [accounts EXCEPT ![a] = ids \cup {p}]
  /\ acct' = [acct EXCEPT ![p] = [old |-> account[p], new |-> a]]
  /\ Goto(p, AfterReserve(p))
  /\ UNCHANGED <<registered, roomIds, account, rooms, listed, label, readers,
                 room, arc, rejoin, roster, todo, queue, view>>

\* What follows unbind_account in its two callers.
AfterUnbind(p) == IF p \in registered THEN "setName" ELSE "gone"

\* get_mut(..): drop the id; whether the entry is to be removed is decided
\* here, under the lock ...
Unbind(p) ==
  /\ pc[p] = "unbind"
  /\ LET a == acct[p].old
     IN  IF accounts[a] = None
         THEN /\ Goto(p, AfterUnbind(p))
              /\ UNCHANGED accounts
         ELSE /\ accounts' = [accounts EXCEPT ![a] = @ \ {p}]
              /\ Goto(p, IF accounts[a] \subseteq {p} THEN "unbindRemove"
                         ELSE AfterUnbind(p))
  /\ UNCHANGED <<registered, roomIds, account, rooms, listed, label, readers,
                 localVars, view>>

\* ... and done here, without it.
UnbindRemove(p) ==
  /\ pc[p] = "unbindRemove"
  /\ accounts' = [accounts EXCEPT ![acct[p].old] = None]
  /\ Goto(p, AfterUnbind(p))
  /\ UNCHANGED <<registered, roomIds, account, rooms, listed, label, readers,
                 localVars, view>>

SetName(p) ==
  /\ pc[p] = "setName"
  /\ account' = [account EXCEPT ![p] = acct[p].new]
  /\ acct'    = [acct EXCEPT ![p] = [old |-> None, new |-> None]]
  /\ queue'   = [queue EXCEPT ![p] = roomIds[p]]
  /\ Goto(p, "relabel")
  /\ UNCHANGED <<registered, roomIds, rooms, listed, label, accounts, readers,
                 room, arc, rejoin, roster, todo, view>>

\* The rooms still to visit after r.  Mutant: the loop ends with the first.
FirstOnly(p, r) == {}
Remaining(p, r) == queue[p] \ {r}

\* The listing's copy of the name follows, room by room.
Relabel(p, r) ==
  /\ pc[p] = "relabel"
  /\ r \in queue[p]
  /\ queue' = [queue EXCEPT ![p] = Remaining(p, r)]
  /\ label' = IF rooms[r] # None /\ p \in listed[rooms[r]]
              THEN [label EXCEPT ![rooms[r]][p] = account[p]] ELSE label
  /\ UNCHANGED <<registered, roomIds, account, rooms, listed, accounts,
                 readers, pc, room, arc, rejoin, roster, todo, acct, view>>

RelabelDone(p) ==
  /\ pc[p] = "relabel"
  /\ queue[p] = {}
  /\ Goto(p, "idle")
  /\ UNCHANGED <<dirVars, readers, localVars, view>>

-----------------------------------------------------------------------------
\* Every connection is closed: the server waits for new ones, of which the
\* model has none left.
AllGone ==
  /\ \A p \in Peer : pc[p] = "gone"
  /\ UNCHANGED vars

Session(p) ==
  \/ Register(p)
  \/ \E r \in RoomId : JoinFlag(p, r)
  \/ JoinEntry(p)
  \/ JoinSnapshot(p)
  \/ JoinAdd(p)
  \/ \E q \in Peer : JoinScan(p, q)
  \/ JoinReturn(p)
  \/ \E r \in RoomId : Leave(p, r)
  \/ LeaveAll(p)
  \/ Unregister(p)
  \/ \E r \in RoomId : LeaveFlag(p, r)
  \/ LeaveRoom(p)
  \/ \E q \in Peer : LeaveScan(p, q)
  \/ LeaveCheck(p)
  \/ LeaveRemove(p)
  \/ \E a \in Account \cup {None} : SetAccount(p, a)
  \/ Unbind(p)
  \/ UnbindRemove(p)
  \/ SetName(p)
  \/ \E r \in RoomId : Relabel(p, r)
  \/ RelabelDone(p)

Next == (\E p \in Peer : Session(p)) \/ AllGone

Spec == Init /\ [][Next]_vars

-----------------------------------------------------------------------------
AcctLocal == [old : Account \cup {None}, new : Account \cup {None}]

TypeOK ==
  /\ registered \subseteq Peer
  /\ roomIds    \in [Peer -> SUBSET RoomId]
  /\ account    \in [Peer -> Account \cup {None}]
  /\ rooms      \in [RoomId -> Instance \cup {None}]
  /\ listed     \in [Instance -> SUBSET Peer]
  /\ label      \in [Instance -> [Peer -> Account \cup {None}]]
  /\ accounts   \in [Account -> {None} \cup SUBSET Peer]
  /\ readers    \in [RoomId -> SUBSET Peer]
  /\ pc         \in [Peer -> PC]
  /\ room       \in [Peer -> RoomId \cup {None}]
  /\ arc        \in [Peer -> Instance \cup {None}]
  /\ rejoin     \in [Peer -> BOOLEAN]
  /\ roster     \in [Peer -> SUBSET Peer]
  /\ todo       \in [Peer -> SUBSET Peer]
  /\ queue      \in [Peer -> SUBSET RoomId]
  /\ acct       \in [Peer -> AcctLocal]
  /\ view       \in [Peer -> [RoomId -> SUBSET Peer]]
-----------------------------------------------------------------------------
\* The peers the room behind r lists, and those on their way into it.
Members(r) == IF rooms[r] = None THEN {} ELSE listed[rooms[r]]

Joining(p, r) ==
  /\ room[p] = r
  /\ pc[p] \in {"joinEntry", "joinSnapshot", "joinAdd", "joinScan"}

\* Two peers listed by the same live room, both with the flag and neither in
\* the middle of a join, know of each other: either the later one read the
\* earlier one's listing into its roster, or the earlier one carried its flag
\* when the later one broadcast PeerJoined (join_room sets the flag before it
\* reads the roster, and lists itself before it broadcasts).
MutualAwareness ==
  \A r \in RoomId : \A p, q \in Members(r) :
    (/\ p # q
     /\ r \in roomIds[p] /\ ~Joining(p, r)
     /\ r \in roomIds[q] /\ ~Joining(q, r))
      => q \in view[p][r]

\* Who will take the entry of r out of `rooms` in the end: a peer that has
\* yet to leave r, or one that is leaving and has not checked for emptiness.
Responsible(p, r) ==
  \/ r \in roomIds[p]
  \/ p \notin registered /\ r \in queue[p]
  \/ room[p] = r /\ pc[p] \in {"leaveRoom", "leaveScan", "leaveRemove"}

\* No entry of `rooms` is left without a peer whose leave_room will remove it,
\* whichever way joins, leaves and disconnects race (leave_room goes on for a
\* peer that is already unregistered; the last one to check finds it empty).
NoLeakedRoom ==
  \A r \in RoomId : rooms[r] # None => \E p \in Peer : Responsible(p, r)

\* Every id an account's entry counts belongs to a connection that is bound to
\* it, is about to be, or is about to give the slot back: no slot of the
\* per-account cap is lost to a connection that no longer exists
\* (try_set_account_name, unbind_account, unregister_peer).
NoSlotLeak ==
  \A a \in Account : accounts[a] # None => \A p \in accounts[a] :
    \/ account[p] = a
    \/ acct[p].new = a /\ pc[p] \in {"unbind", "unbindRemove", "setName"}
    \/ /\ acct[p].old = a
       /\ pc[p] = "unbind" \/ (p \notin registered /\ pc[p] # "gone")

\* A peer between two calls is listed under the account it is bound to, in
\* every live room that lists it: the roster a joiner gets names the account
\* its mute list is matched against (add_peer, try_set_account_name).
ListedNameIsBound ==
  \A r \in RoomId : \A p \in Members(r) :
    pc[p] = "idle" => label[rooms[r]][p] = account[p]
-----------------------------------------------------------------------------
\* What the documentation says of the directory, and the code does not keep.

\* "The server returns the actual roster via `RoomJoined`": two members that
\* are not in the middle of a join know of each other.  (A joiner that cloned
\* the Arc, or found the entry, before a leaver's rooms.remove ends up in a
\* Room that `rooms` no longer refers to.)
RosterIsComplete ==
  \A r \in RoomId : \A p, q \in Peer :
    (/\ p # q
     /\ r \in roomIds[p] /\ ~Joining(p, r)
     /\ r \in roomIds[q] /\ ~Joining(q, r))
      => q \in view[p][r]
=============================================================================
