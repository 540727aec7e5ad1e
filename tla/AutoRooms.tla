------------------------------ MODULE AutoRooms ------------------------------
(***************************************************************************)
(* The rooms that a client joins by itself (client/src/voice/manager.rs):  *)
(* the map's and the team's, which MumbleLink shows (auto_rooms.rs), and   *)
(* the group's, for which it reports the members it has heard of from      *)
(* RTAPI (group.rs) and is told a cluster id.  Also what it knows of the   *)
(* API key that it joins with.                                             *)
(*                                                                         *)
(* The manager is a record and its methods are operators on it: update()   *)
(* holds the manager's lock from the first event to the last room.  The    *)
(* stages between manager and session are ClientRooms'; one queue stands   *)
(* for them in each direction.  The player joins nothing by hand.          *)
(***************************************************************************)
EXTENDS Naturals, FiniteSets, Sequences, SequencesExt

CONSTANTS
  Tracked,      \* the slots that follow MumbleLink: "map", "wvw", "pvp"
  Place,        \* what the ids of their rooms are made of
  Group,        \* groups of the game, and the ids the server has for them
  Account, Me,
  Others,       \* who is in a group with the player
  Key, Owner,   \* API keys; whose they are, None for a rejected one
  None,
  MaxMoves,     \* bound on what player and user do, and on refused joins
  MaxDrops      \* bound on link losses and refused validations

ASSUME AutoRoomsAssumption ==
  /\ Tracked \subseteq {"map", "wvw", "pvp"}
  /\ Me \in Account /\ Others \in [Group -> SUBSET (Account \ {Me})]
  /\ Owner \in [Key -> Account \cup {None}]
  /\ None \notin Group \cup Place \cup Account \cup Key
  /\ MaxMoves \in Nat /\ MaxDrops \in Nat

Slot == Tracked \cup {"group"}
Shape == {"squad", "party"}
RoomsOf(s) == IF s = "group" THEN [kind : Shape, id : Group] ELSE [kind : {s}, id : Place]
Room == UNION {RoomsOf(s) : s \in Slot}

ASSUME NoneIsNoRoom == None \notin Room

VARIABLES
  at,        \* external: the room of each tracked slot that MumbleLink shows
  group, shape,  \* external: the player's group, as RTAPI shows it
  m,         \* the VoiceManager
  toServer,  \* its commands, up to the session
  answers,   \* the session's answers, up to the manager's events
  up,        \* the link is up
  srv,       \* the session's peer: its rooms
  bound,     \* its account
  moves, drops

player == <<at, group, shape>>
session == <<srv, bound>>
vars == <<player, m, toServer, answers, up, session, moves, drops>>

Join(r, k)  == [kind |-> "JoinRoom", room |-> r, key |-> k]
Leave(r)    == [kind |-> "LeaveRoom", room |-> r]
Validate(k) == [kind |-> "ValidateApiKey", key |-> k]
Identify(ms) == [kind |-> "IdentifyGroup", members |-> ms]
Command == {Join(r, k) : r \in Room, k \in Key} \cup {Leave(r) : r \in Room}
      \cup {Validate(k) : k \in Key} \cup {Identify(ms) : ms \in SUBSET Account}

About(kind, r) == [kind |-> kind, room |-> r]
Validated(a)   == [kind |-> "AccountValidated", account |-> a]
Identified(g)  == [kind |-> "GroupIdentified", cluster |-> g]
Notice(kind)   == [kind |-> kind]
Answer == {About(kind, r) : kind \in {"RoomJoined", "JoinRejected"}, r \in Room}
     \cup {Validated(a) : a \in Account \cup {None}} \cup {Identified(g) : g \in Group}
     \cup {Notice("Connected"), Notice("Disconnected")}

\* A key may have been saved in an earlier session.
Init ==
  /\ at = [s \in Tracked |-> None] /\ group = None /\ shape = "squad"
  /\ \E k \in Key \cup {None} :
       m = [state |-> "Connecting", joined |-> {},
            slot |-> [s \in Slot |-> None], suppressed |-> {},
            members |-> {}, pending |-> FALSE, cluster |-> None, auto |-> TRUE,
            key |-> k, status |-> "Unknown", statusFor |-> None,
            out |-> <<>>,        \* commands of the method that runs
            forgotten |-> {},    \* history: rooms struck from a slot, not left
            late |-> {}]         \* history: rooms confirmed after they were left, or
                                 \* refused while asked for again, or granted before
  /\ toServer = <<>> /\ answers = <<>> /\ up = FALSE /\ srv = {} /\ bound = None
  /\ moves = 0 /\ drops = 0
-----------------------------------------------------------------------------
(* Joining and leaving one room *)

Send(v, c) == [v EXCEPT !.out = Append(@, c)]

Validating(v) == [v EXCEPT !.status = "Validating", !.statusFor = v.key]

\* join_room.  Without a key nothing is sent, and nobody is told.
JoinRoom(v, r) ==
  IF v.key = None THEN v ELSE Send(Validating(v), Join(r, v.key))

\* leave_room.  Mutant: a room that is not confirmed is not left.
LeavesConfirmed(v, r) == IF r \in v.joined THEN <<Leave(r)>> ELSE <<>>
LeaveCommands(v, r) == <<Leave(r)>>

LeaveRoom(v, r) ==
  [v EXCEPT !.joined = @ \ {r},
            !.state = IF v.joined = {r} THEN "Connected" ELSE @,
            !.out = @ \o LeaveCommands(v, r),
            !.forgotten = @ \ {r}, !.late = @ \ {r}]

\* A slot follows its room: the old one is left, the new one joined, and recorded
\* whether or not that could be sent.
Put(v, s, r) == [v EXCEPT !.slot[s] = r]
Vacate(v, s) ==
  IF v.slot[s] = None THEN v ELSE Put(LeaveRoom(v, v.slot[s]), s, None)
Occupy(v, s, r) == IF r = None THEN v ELSE Put(JoinRoom(v, r), s, r)

Follow(v, s, r) == IF v.slot[s] = r THEN v ELSE Occupy(Vacate(v, s), s, r)
-----------------------------------------------------------------------------
(* The group *)

Members(g) == IF g = None THEN {} ELSE {Me} \cup Others[g]

\* handle_group_member_event, of a change: a group of one has no suggestion, any
\* other is reported when the debounce is over.  Mutant: a report that is due
\* outlives the group.
AloneKeeps(v) == [v EXCEPT !.cluster = None]
Alone(v) == [v EXCEPT !.cluster = None, !.pending = FALSE]

IsGroup(v) == Cardinality(v.members) > 1

GroupChanged(v) == IF IsGroup(v) THEN [v EXCEPT !.pending = TRUE] ELSE Alone(v)

\* flush_pending_identify, of a deadline that is over.  Mutant: it takes a room
\* to be reported.
ReportableInRoom(v) == IsGroup(v) /\ v.state = "InRoom"
Reportable(v) == IsGroup(v) /\ v.state # "Disconnected"

Flush(v) ==
  LET done == [v EXCEPT !.pending = FALSE]
  IN  IF ~v.pending THEN v
      ELSE IF Reportable(v) THEN Send(done, Identify(v.members)) ELSE done

\* from_rtapi: a party of one is none.
GroupKind ==
  IF group = None \/ (shape = "party" /\ Cardinality(Members(group)) < 2)
  THEN None ELSE shape

\* What the user has not left by hand.  Mutant: that is not looked at.
WantsAny(v, g) == TRUE
Wants(v, g) == g \notin v.suppressed

\* group_suggestions, as reconcile_group_room filters it.
Target(v) ==
  IF v.auto /\ v.cluster # None /\ GroupKind # None /\ Wants(v, v.cluster)
  THEN [kind |-> GroupKind, id |-> v.cluster] ELSE None
-----------------------------------------------------------------------------
(* The events *)

\* Slots are cleared, and their rooms not left.
Strike(v, ss) ==
  [v EXCEPT !.slot = [s \in Slot |-> IF s \in ss THEN None ELSE @[s]],
            !.forgotten = @ \cup ({v.slot[s] : s \in ss} \ {None})]

\* Confirmed rooms are joined anew, or, without a key, forgotten.
Rejoin(v) ==
  LET fresh == [v EXCEPT !.state = "Connected", !.joined = {}]
  IN  IF v.joined = {} THEN fresh
      ELSE IF v.key = None
           THEN Strike(fresh, {"map"} \cap Slot)
      ELSE [Validating(fresh) EXCEPT
              !.out = @ \o SetToSeq({Join(r, v.key) : r \in v.joined})]

Joined(v, r) ==
  [v EXCEPT !.joined = @ \cup {r}, !.state = "InRoom",
            !.late = IF \E s \in Slot : v.slot[s] = r THEN @ ELSE @ \cup {r}]

\* For the history: a later request for the room is under way, or was granted.
AskedAgain(v, r) ==
  r \in srv \/ \E k \in Key : Join(r, k) \in ToSet(toServer \o v.out)

Rejected(v, r) ==
  LET rest == v.joined \ {r}
  IN  [v EXCEPT !.joined = rest,
                !.slot = [s \in Slot |-> IF @[s] = r THEN None ELSE @[s]],
                !.state = IF rest = {} THEN "Connected" ELSE @,
                !.late = IF AskedAgain(v, r) THEN @ \cup {r} ELSE @]

\* apply_api_key_validation_result: an answer does not say which key it is of.
Verdict(a) == IF a = None THEN "Invalid" ELSE a
Judged(v, a) ==
  IF v.statusFor = v.key THEN [v EXCEPT !.status = Verdict(a)] ELSE v

Handle(v, e) ==
  CASE e.kind = "Connected"        -> Rejoin(v)
    [] e.kind = "Disconnected"     -> [v EXCEPT !.state = "Disconnected"]
    [] e.kind = "RoomJoined"       -> Joined(v, e.room)
    [] e.kind = "JoinRejected"     -> Rejected(v, e.room)
    [] e.kind = "AccountValidated" -> Judged(v, e.account)
    [] e.kind = "GroupIdentified"  -> [v EXCEPT !.cluster = e.cluster]

\* update(): the events, the tracked rooms if MumbleLink can be read, a report
\* if one is due, the group's room.
After[i \in 0..Len(answers)] ==
  IF i = 0 THEN m ELSE Handle(After[i - 1], answers[i])
Handled == After[Len(answers)]

Track(v, s) == IF s \in Tracked THEN Follow(v, s, at[s]) ELSE v
Tracking(v, seen) ==
  IF seen THEN Track(Track(Track(v, "map"), "wvw"), "pvp") ELSE v

Update(seen, due) ==
  \E handled \in {Handled} :
    \E tracked \in {Tracking(handled, seen)} :
      \E flushed \in {IF due THEN Flush(tracked) ELSE tracked} :
        \E after \in {Follow(flushed, "group", Target(flushed))} :
          /\ m' = [after EXCEPT !.out = <<>>]
          /\ toServer' = toServer \o after.out
          /\ answers' = <<>>
          /\ UNCHANGED <<player, up, session, moves, drops>>
-----------------------------------------------------------------------------
(* Player and user.  A method runs to its end; what it sends is sent. *)

Move == moves < MaxMoves /\ moves' = moves + 1

Call(v) ==
  /\ m' = [v EXCEPT !.out = <<>>] /\ toServer' = toServer \o v.out
  /\ UNCHANGED <<player, answers, up, session, drops>>

\* The player is somewhere else, or the setting says that it does not count.
Travel(s, r) ==
  /\ Move /\ at[s] # r /\ at' = [at EXCEPT ![s] = r]
  /\ UNCHANGED <<group, shape, m, toServer, answers, up, session, drops>>

Regroup(g, kind) ==
  /\ Move /\ <<g, kind>> # <<group, shape>> /\ group' = g /\ shape' = kind
  /\ UNCHANGED <<at, m, toServer, answers, up, session, drops>>

\* RTAPI reports who came and went one by one, and changes of those who stay.
MemberJoined(a) ==
  /\ a \in Members(group) \ m.members /\ UNCHANGED moves
  /\ Call(GroupChanged([m EXCEPT !.members = @ \cup {a}]))
MemberLeft(a) ==
  /\ a \in m.members \ Members(group) /\ UNCHANGED moves
  /\ Call(GroupChanged([m EXCEPT !.members = @ \ {a}]))
MemberUpdated ==
  /\ m.members \cap Members(group) # {} /\ Move
  /\ Call(GroupChanged(m))

\* leave_room_manual: a group's room is not joined again.
LeaveManual(r) ==
  /\ r \in m.joined /\ Move
  /\ LET mine == {s \in Slot : m.slot[s] = r}
     IN  Call(LeaveRoom([m EXCEPT
           !.slot = [s \in Slot |-> IF s \in mine THEN None ELSE @[s]],
           !.suppressed = IF "group" \in mine THEN @ \cup {r.id} ELSE @], r))

\* The settings are saved.  Mutant: nobody is asked about a new key.
RevalidateLocally(v) == IF v.key = None THEN v ELSE Validating(v)
Revalidate(v) ==
  IF v.key = None THEN [v EXCEPT !.status = "Unknown", !.statusFor = None]
  ELSE Send(Validating(v), Validate(v.key))

\* revalidate_saved_api_key: outside of rooms the slots are cleared, so that the
\* next update tries them with the new key.
ChangeKey(k) ==
  /\ k # m.key /\ Move
  /\ LET saved == [m EXCEPT !.key = k]
     IN  Call(Revalidate(IF m.state = "InRoom" THEN saved ELSE Strike(saved, Slot)))

SwitchAuto == Move /\ Call([m EXCEPT !.auto = ~@])
-----------------------------------------------------------------------------
(* The link, as the network task has it *)

Connect ==
  /\ ~up /\ up' = TRUE /\ srv' = {} /\ bound' = None
  /\ answers' = Append(answers, Notice("Connected"))
  /\ UNCHANGED <<player, m, toServer, moves, drops>>

\* What had not been sent, or had been received, survives.
Drop ==
  /\ up /\ drops < MaxDrops /\ drops' = drops + 1
  /\ up' = FALSE /\ srv' = {} /\ bound' = None
  /\ \E i \in 0..Len(answers) :
       answers' = Append(SubSeq(answers, 1, i), Notice("Disconnected"))
  /\ \E i \in 1..(Len(toServer) + 1) : toServer' = SubSeq(toServer, i, Len(toServer))
  /\ UNCHANGED <<player, m, moves>>

\* Without a connection, a command goes nowhere.
LoseCommand ==
  /\ ~up /\ toServer # <<>> /\ toServer' = Tail(toServer)
  /\ UNCHANGED <<player, m, answers, up, session, moves, drops>>
-----------------------------------------------------------------------------
(* The session.  A joined or validated account is bound, unless it has all the
   connections that it may have. *)

Taking(kind) ==
  /\ up /\ toServer # <<>> /\ Head(toServer).kind = kind
  /\ toServer' = Tail(toServer)
  /\ UNCHANGED <<player, m, up>>
Serving(kind) == Taking(kind) /\ UNCHANGED <<moves, drops>>

Reply(as) == answers' = answers \o as

ServeJoin ==
  /\ Serving("JoinRoom")
  /\ LET r == Head(toServer).room
         owner == Owner[Head(toServer).key]
     IN  IF owner = None
         THEN /\ Reply(<<Validated(None), About("JoinRejected", r)>>)
              /\ UNCHANGED session
         ELSE /\ Reply(<<Validated(owner), About("RoomJoined", r)>>)
              /\ srv' = srv \cup {r} /\ bound' = owner

\* The key is good, and the account has all the connections it may have, or else
\* the team is not the player's.
RefuseJoin ==
  /\ Taking("JoinRoom") /\ Move
  /\ LET r == Head(toServer).room
         owner == Owner[Head(toServer).key]
     IN  /\ owner # None
         /\ Reply(<<Validated(owner), About("JoinRejected", r)>>)
         /\ bound' \in ({bound} \ {owner})
                    \cup (IF r.kind \in {"wvw", "pvp"} THEN {owner} ELSE {})
  /\ UNCHANGED <<srv, drops>>

ServeLeave ==
  /\ Serving("LeaveRoom")
  /\ srv' = srv \ {Head(toServer).room} /\ UNCHANGED <<answers, bound>>

ServeValidate ==
  /\ Serving("ValidateApiKey")
  /\ bound' = Owner[Head(toServer).key]
  /\ Reply(<<Validated(bound')>>) /\ UNCHANGED srv

\* The account has all the connections it may have: the answer is a bad key's, and
\* an Error that is only logged.
RefuseValidate ==
  /\ Taking("ValidateApiKey") /\ Owner[Head(toServer).key] \notin {None, bound}
  /\ drops < MaxDrops /\ drops' = drops + 1
  /\ Reply(<<Validated(None)>>) /\ UNCHANGED <<session, moves>>

\* Dropped unless the sender is known and reports itself.  A report names a group
\* by any of its members (SquadRegistry has the rule and its limits).
ServeIdentify ==
  /\ Serving("IdentifyGroup")
  /\ LET report == Head(toServer).members
         known  == {g \in Group : Others[g] \cap report # {}}
     IN  IF bound \notin report \/ known = {} THEN UNCHANGED answers
         ELSE \E g \in known : Reply(<<Identified(g)>>)
  /\ UNCHANGED session

Serve == ServeJoin \/ ServeLeave \/ ServeValidate \/ ServeIdentify

Next ==
  \/ \E seen, due \in BOOLEAN : Update(seen, due)
  \/ \E s \in Tracked : \E r \in RoomsOf(s) \cup {None} : Travel(s, r)
  \/ \E g \in Group \cup {None}, kind \in Shape : Regroup(g, kind)
  \/ \E a \in Account : MemberJoined(a) \/ MemberLeft(a)
  \/ MemberUpdated
  \/ \E r \in Room : LeaveManual(r)
  \/ \E k \in Key \cup {None} : ChangeKey(k)
  \/ SwitchAuto
  \/ Connect \/ Drop \/ LoseCommand
  \/ Serve \/ RefuseJoin \/ RefuseValidate

\* The game calls update() on every frame, and the debounce ends; RTAPI reports;
\* the session serves.
Fairness ==
  /\ WF_vars(Update(TRUE, TRUE))
  /\ WF_vars(Serve)

Spec == Init /\ [][Next]_vars
FairSpec == Spec /\ Fairness
-----------------------------------------------------------------------------
Manager ==
  [state : {"Connecting", "Connected", "InRoom", "Disconnected"},
   joined : SUBSET Room, slot : [Slot -> Room \cup {None}], suppressed : SUBSET Group,
   members : SUBSET Account, pending : BOOLEAN, cluster : Group \cup {None}, auto : BOOLEAN,
   key : Key \cup {None}, status : {"Unknown", "Validating", "Invalid"} \cup Account,
   statusFor : Key \cup {None}, out : Seq(Command),
   forgotten : SUBSET Room, late : SUBSET Room]

\* A report is only due of a group that is one (handle_group_member_event).
ManagerOK(v) ==
  /\ v \in Manager /\ IsFiniteSet(v.joined)
  /\ \A s \in Slot : v.slot[s] \in RoomsOf(s) \cup {None}
  /\ v.pending => IsGroup(v)

TypeOK ==
  /\ at \in [Tracked -> Room \cup {None}]
  /\ \A s \in Tracked : at[s] \in RoomsOf(s) \cup {None}
  /\ group \in Group \cup {None} /\ shape \in Shape
  /\ ManagerOK(m) /\ m.out = <<>>
  /\ toServer \in Seq(Command) /\ answers \in Seq(Answer)
  /\ up \in BOOLEAN /\ srv \subseteq Room /\ bound \in Account \cup {None}
  /\ moves \in 0..MaxMoves /\ drops \in 0..MaxDrops

UnderWay(c) == \E i \in DOMAIN toServer : toServer[i] = c

\* Who changes map, team or group leaves the room of the last one: the server has
\* the player in no room that the client does not follow or is not leaving, in
\* whatever order confirmations, refusals, reconnects and edits of the key come
\* (update, reconcile_group_room, leave_room).  Two kinds of room are the
\* exception: those that an edit of the key struck from a slot before they were
\* confirmed, or while the link was down, and those that an answer came too late
\* for, which confirmed a room that had been left, or refused one that had been asked
\* for again or granted before.
OnlyOwnRooms ==
  \A r \in srv : \/ \E s \in Slot : m.slot[s] = r
                 \/ UnderWay(Leave(r))
                 \/ r \in m.forgotten \cup m.late

\* The room of a group that the user has left by hand is not joined again, through
\* new answers of the server, conversions of the group and reconnects
\* (leave_room_manual, reconcile_group_room).  The exceptions are the same, since
\* what was confirmed before a reconnect is joined anew, in a slot or not.
LeftByHand ==
  \A r \in srv \cap RoomsOf("group") :
    r.id \in m.suppressed => UnderWay(Leave(r)) \/ r \in m.forgotten \cup m.late

\* Nothing is under way, nothing has been lost, and no validation was refused for
\* the account's connections.
VerdictIsIn ==
  up /\ drops = 0 /\ toServer = <<>> /\ answers = <<>>

\* When all has been answered, what the client shows of its key is what the server
\* found for that key and not for one that the user had before: answers do not say
\* which key they are of, and only their order tells (revalidate_saved_api_key,
\* apply_api_key_validation_result).
VerdictIsOfKey ==
  VerdictIsIn /\ m.key # None =>
    m.status \in {"Unknown", "Validating", Verdict(Owner[m.key])}

\* Player and user leave it at that, the link holds, and nothing is refused.
Undisturbed == moves = MaxMoves /\ drops = MaxDrops

\* A group that RTAPI has reported in full, of a client that is connected and whose
\* account the server knows, ends up in its room, whatever the client had been
\* doing (handle_group_member_event, flush_pending_identify, reconcile_group_room).
Waiting(g) ==
  /\ group = g /\ m.members = Members(g) /\ m.pending
  /\ up /\ m.state \in {"Connected", "InRoom"} /\ Notice("Disconnected") \notin ToSet(answers)
  /\ m.key # None /\ bound = Me /\ Owner[m.key] = Me
  /\ m.auto /\ g \notin m.suppressed /\ m.slot["group"] = None

GroupIsReached ==
  (Undisturbed /\ \E g \in Group : Waiting(g))
    ~> \E r \in srv \cap RoomsOf("group") : r.id = group
-----------------------------------------------------------------------------
\* The parts of the inductive invariant.  While update() runs, v is the manager so far, as the
\* answers to come and q the commands up to and with its own.

Stays(r, q) == \A i \in DOMAIN q : q[i] # Leave(r)

\* The server has the player in the room, or will have when it has been told q.
Going(r, there, q) ==
  \/ r \in there /\ Stays(r, q)
  \/ \E i \in DOMAIN q :
       /\ q[i].kind = "JoinRoom" /\ q[i].room = r
       /\ \A j \in DOMAIN q : j > i => q[j] # Leave(r)

Kept(v, r) == r \in v.forgotten \cup v.late \/ \E s \in Slot : v.slot[s] = r

RoomsKept(v, there, q) ==
  \A r \in Room : r \in v.joined \/ Going(r, there, q) => Kept(v, r)

Respected(v) == v.slot["group"] # None => v.slot["group"].id \notin v.suppressed

\* What brings a verdict, or is one, and of which key.
Judges(e) == e.kind \in {"AccountValidated", "JoinRoom", "ValidateApiKey"}
JudgesKey(e, k) ==
  \/ e.kind = "AccountValidated" /\ e.account = Owner[k]
  \/ e.kind \in {"JoinRoom", "ValidateApiKey"} /\ e.key = k

Silent(q) == \A i \in DOMAIN q : ~Judges(q[i])
LastIsOf(q, k) ==
  \E i \in DOMAIN q :
    JudgesKey(q[i], k) /\ \A j \in DOMAIN q : j > i => ~Judges(q[j])

\* The last verdict under way, if there is any, is of the key.
VerdictComes(v, as, q) ==
  v.key # None =>
    /\ v.statusFor # v.key => v.status = "Unknown"
    /\ \/ LastIsOf(q, v.key)
       \/ Silent(q) /\ LastIsOf(as, v.key)
       \/ /\ Silent(q) /\ Silent(as)
          /\ v.status \in {"Unknown", "Validating", Verdict(Owner[v.key])}

\* Before the first connection nothing is answered.
Unheard(v, as) == as = <<>> /\ v.status \in {"Unknown", "Validating"}

Good(v, as, q) ==
  /\ ManagerOK(v)
  /\ RoomsKept(v, srv, q)
  /\ Respected(v)
  /\ drops = 0 => VerdictComes(v, as, q) /\ (~up => Unheard(v, as))

\* What the client follows, what the server has, and what is under way between
\* them fit each other, at whatever point of update(), of a reconnect or of the
\* session's work (manager.rs update, process_network_events, leave_room).
IInv == TypeOK /\ (~up => srv = {}) /\ Good(m, answers, toServer)
=============================================================================
