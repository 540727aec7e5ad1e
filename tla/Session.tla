------------------------------ MODULE Session ------------------------------
(***************************************************************************)
(* The life of a connection: the receive loop of handle_socket             *)
(* (server/src/session.rs), its last_seen and kick (rooms.rs), and         *)
(* the sweeper that looks at the one and pulls the other (sweeper.rs).     *)
(*                                                                         *)
(* Time is in ticks.  What a task does between two awaits takes none, so   *)
(* SeTick waits until every task waits.  A client may fall silent          *)
(* without closing its socket.                                             *)
(*                                                                         *)
(* Init, Next, Spec, vars, TypeOK, Tick and Inv have the prefix Se, so     *)
(* that a module can extend this one together with RateLimit.              *)
(***************************************************************************)
EXTENDS Integers

CONSTANTS
  Conn,
  Nobody,
  IdleTimeout, SweepInterval,  \* limits.rs
  RequestTime                  \* how long a handler may await the GW2 API

ASSUME SessionAssumption ==
  /\ Nobody \notin Conn
  /\ IdleTimeout \in Nat /\ SweepInterval \in Nat \ {0}
  /\ RequestTime \in Nat /\ RequestTime <= IdleTimeout

VARIABLES
  place,     \* where the session task of a connection is
  wire,      \* the frame that has arrived and was not read
  alive,     \* the client still sends
  lastSeen,  \* ticks since Peer::last_seen
  busy,      \* ticks that the handler has been awaiting
  permit,    \* Peer::kick, a Notify
  walk,      \* the handles that sweep_once still has to look at
  idle,      \* the one it found idle and is about to notify
  due,       \* ticks to the sweeper's next walk
  silent,    \* history: ticks since a frame of the connection was read
  spared     \* history: ticks since it was silent for more than IdleTimeout

connVars    == <<place, wire, alive, lastSeen, busy, permit>>
sweeperVars == <<walk, idle, due>>
Sevars == <<connVars, sweeperVars, silent, spared>>

\* What a frame is to the loop: one whose handler runs through, one that has to
\* ask the GW2 API, one that is not handled (it does not parse, is too long, or
\* its bucket is empty), and one that ends the loop: the close frame, or the
\* refusal that is one too many.
Frame == {"quick", "asks", "refused", "last"}

Registered == {c \in Conn : place[c] \in {"loop", "handler", "kicked", "left"}}

\* Ages are not told apart beyond these.
Limit == IdleTimeout + SweepInterval + 1
Never == RequestTime + 1
Older(t, limit) == IF t < limit THEN t + 1 ELSE t

SeInit ==
  /\ place = [c \in Conn |-> "none"] /\ wire = [c \in Conn |-> Nobody]
  /\ alive = [c \in Conn |-> TRUE]
  /\ lastSeen = [c \in Conn |-> 0] /\ busy = [c \in Conn |-> 0]
  /\ permit = [c \in Conn |-> FALSE]
  /\ walk = {} /\ idle = Nobody /\ due = 0
  /\ silent = [c \in Conn |-> 0] /\ spared = [c \in Conn |-> Never]
-----------------------------------------------------------------------------
(* The client *)

\* The connection is upgraded, the peer registered with the time of now.
Connect(c) ==
  /\ place[c] = "none"
  /\ place' = [place EXCEPT ![c] = "loop"]
  /\ lastSeen' = [lastSeen EXCEPT ![c] = 0] /\ silent' = [silent EXCEPT ![c] = 0]
  /\ UNCHANGED <<wire, alive, busy, permit, sweeperVars, spared>>

Send(c, f) ==
  /\ c \in Registered /\ alive[c] /\ wire[c] = Nobody
  /\ wire' = [wire EXCEPT ![c] = f]
  /\ UNCHANGED <<place, alive, lastSeen, busy, permit, sweeperVars, silent, spared>>

\* The client hangs, or its network is gone, and nothing tells the server.
FallSilent(c) ==
  /\ c \in Registered /\ alive[c]
  /\ alive' = [alive EXCEPT ![c] = FALSE]
  /\ UNCHANGED <<place, wire, lastSeen, busy, permit, sweeperVars, silent, spared>>
-----------------------------------------------------------------------------
(* handle_socket *)

\* The select is biased: the kick comes first.  Kicked is sent, a pause.
Kick(c) ==
  /\ place[c] = "loop" /\ permit[c]
  /\ permit' = [permit EXCEPT ![c] = FALSE]
  /\ place' = [place EXCEPT ![c] = "kicked"]
  /\ UNCHANGED <<wire, alive, lastSeen, busy, sweeperVars, silent, spared>>

\* Mutant: the loop goes on after the message.
KickGoesOn(c) ==
  /\ place[c] = "kicked"
  /\ place' = [place EXCEPT ![c] = "loop"]
  /\ UNCHANGED <<wire, alive, lastSeen, busy, permit, sweeperVars, silent, spared>>

KickEnds(c) ==
  /\ place[c] = "kicked"
  /\ place' = [place EXCEPT ![c] = "left"]
  /\ UNCHANGED <<wire, alive, lastSeen, busy, permit, sweeperVars, silent, spared>>

\* Any frame is a sign of life, before it is looked at.  Mutant: one that is
\* handled is.
HandledIsSeen(c, f) ==
  lastSeen' = IF f \in {"quick", "asks"} THEN [lastSeen EXCEPT ![c] = 0]
                                         ELSE lastSeen
Seen(c, f) == lastSeen' = [lastSeen EXCEPT ![c] = 0]

Read(c) ==
  /\ place[c] = "loop" /\ ~permit[c] /\ wire[c] # Nobody
  /\ Seen(c, wire[c])
  /\ silent' = [silent EXCEPT ![c] = 0]
  /\ wire' = [wire EXCEPT ![c] = Nobody]
  /\ place' = [place EXCEPT ![c] = CASE wire[c] \in {"quick", "refused"} -> "loop"
                                     [] wire[c] = "asks" -> "handler"
                                     [] wire[c] = "last" -> "left"]
  /\ UNCHANGED <<alive, busy, permit, sweeperVars, spared>>

\* The handler's request is answered or times out.
Return(c) ==
  /\ place[c] = "handler"
  /\ place' = [place EXCEPT ![c] = "loop"]
  /\ busy' = [busy EXCEPT ![c] = 0]
  /\ UNCHANGED <<wire, alive, lastSeen, permit, sweeperVars, silent, spared>>

\* The writer is aborted and the peer unregistered.
Unregister(c) ==
  /\ place[c] = "left"
  /\ place' = [place EXCEPT ![c] = "gone"]
  /\ wire' = [wire EXCEPT ![c] = Nobody]
  /\ lastSeen' = [lastSeen EXCEPT ![c] = 0] /\ silent' = [silent EXCEPT ![c] = 0]
  /\ spared' = [spared EXCEPT ![c] = Never]
  /\ UNCHANGED <<alive, busy, permit, sweeperVars>>
-----------------------------------------------------------------------------
(* sweeper_loop *)

\* peer_liveness_handles copies the handles of the peers registered now.
StartWalk ==
  /\ due = 0
  /\ walk' = Registered /\ due' = SweepInterval
  /\ UNCHANGED <<connVars, idle, silent, spared>>

\* Mutant: the first tick of idleness more is overlooked.
TooLongLate(c) == lastSeen[c] > IdleTimeout + 1
TooLong(c) == lastSeen[c] > IdleTimeout

\* last_seen is read under its lock ...
Look(c) ==
  /\ idle = Nobody /\ c \in walk
  /\ walk' = walk \ {c}
  /\ idle' = IF TooLong(c) THEN c ELSE Nobody
  /\ UNCHANGED <<connVars, due, silent, spared>>

\* ... and the permit left without it, for a session that waits or will wait.
Notify ==
  /\ idle # Nobody
  /\ permit' = [permit EXCEPT ![idle] = TRUE]
  /\ idle' = Nobody
  /\ UNCHANGED <<place, wire, alive, lastSeen, busy, walk, due, silent, spared>>
-----------------------------------------------------------------------------
\* The task can do nothing before time passes.
Waits(c) ==
  \/ place[c] \in {"none", "gone"}
  \/ place[c] = "loop" /\ ~permit[c] /\ wire[c] = Nobody
  \/ place[c] = "handler" /\ busy[c] < RequestTime

SeTick ==
  /\ due > 0 /\ walk = {} /\ idle = Nobody
  /\ \A c \in Conn : Waits(c)
  /\ due' = due - 1
  /\ lastSeen' = [c \in Conn |-> IF c \in Registered THEN Older(lastSeen[c], Limit) ELSE 0]
  /\ silent' = [c \in Conn |-> IF c \in Registered THEN Older(silent[c], Limit) ELSE 0]
  /\ spared' = [c \in Conn |-> IF c \notin Registered THEN Never
                             ELSE IF silent'[c] > IdleTimeout THEN 0
                             ELSE Older(spared[c], Never)]
  /\ busy' = [c \in Conn |-> IF place[c] = "handler" THEN busy[c] + 1 ELSE busy[c]]
  /\ UNCHANGED <<place, wire, alive, permit, walk, idle>>

Task(c) == Kick(c) \/ KickEnds(c) \/ Read(c) \/ Return(c) \/ Unregister(c)
Sweeper == StartWalk \/ Notify \/ \E c \in Conn : Look(c)

SeNext ==
  \/ SeTick \/ Sweeper
  \/ \E c \in Conn :
       Task(c) \/ Connect(c) \/ FallSilent(c) \/ \E f \in Frame : Send(c, f)

\* The runtime schedules every task that can run, and time passes whatever the
\* clients send: they cannot send infinitely much before the clock's next tick.
SeSpec ==
  /\ SeInit /\ [][SeNext]_Sevars
  /\ SF_Sevars(SeTick) /\ WF_Sevars(Sweeper) /\ \A c \in Conn : WF_Sevars(Task(c))
-----------------------------------------------------------------------------
SeTypeOK ==
  /\ place \in [Conn -> {"none", "loop", "handler", "kicked", "left", "gone"}]
  /\ wire \in [Conn -> Frame \cup {Nobody}] /\ alive \in [Conn -> BOOLEAN]
  /\ lastSeen \in [Conn -> 0..Limit] /\ busy \in [Conn -> 0..RequestTime]
  /\ permit \in [Conn -> BOOLEAN]
  /\ walk \subseteq Conn /\ idle \in Conn \cup {Nobody} /\ due \in 0..SweepInterval
  /\ silent \in [Conn -> 0..Limit] /\ spared \in [Conn -> 0..Never]

\* No connection stays that has been silent for longer than the idle timeout and
\* a sweep: neither a walk that takes its handles before, nor a handler that is
\* awaiting when the kick comes, lets it miss its turn (sweeper.rs, handle_socket).
DroppedInTime ==
  \A c \in Registered : silent[c] <= IdleTimeout + SweepInterval

\* Who is kicked was silent for longer than the timeout, at the latest one
\* handler's await ago: no permit is left behind for a connection that has come
\* back to life, whatever the server thought of its frames.
KickIsEarned ==
  \A c \in Conn : place[c] = "kicked" => spared[c] <= RequestTime

\* A connection whose client has fallen silent is unregistered in the end.
SilentIsGone ==
  \A c \in Conn : (c \in Registered /\ ~alive[c]) ~> (place[c] = "gone")
-----------------------------------------------------------------------------
(* The inductive invariant *)

\* The clocks of a connection.
Clocks(c) ==
  /\ lastSeen[c] = silent[c]
  /\ silent[c] > IdleTimeout => spared[c] = 0
  /\ place[c] = "handler" => silent[c] <= busy[c]
  /\ place[c] # "handler" => busy[c] = 0

\* A silence that the sweeper has not seen yet began no earlier than its last
\* walk allows.
Swept(c) ==
  /\ silent[c] <= IdleTimeout + SweepInterval
  /\ (place[c] = "loop" /\ ~permit[c] /\ c \notin walk /\ c # idle) =>
       silent[c] <= IdleTimeout + (SweepInterval - due)

\* A permit, or one about to be left, is for a silence no older than the await
\* that it waits for.
Earned(c) ==
  /\ c = idle => spared[c] = 0
  /\ permit[c] /\ place[c] = "handler" => spared[c] <= busy[c]
  /\ permit[c] \/ place[c] = "kicked" => spared[c] <= RequestTime

\* A connection that has yet to come is known to nobody.
Unknown(c) == c \notin walk /\ c # idle /\ ~permit[c] /\ busy[c] = 0

EachConn(c) ==
  /\ c \in Registered => Clocks(c) /\ Swept(c) /\ Earned(c)
  /\ place[c] = "none" => Unknown(c)

Walking == walk # {} \/ idle # Nobody => due = SweepInterval

\* How long each connection has been silent, given where the sweeper is and what the
\* session is doing, and how old the silence is that a kick goes back to (sweep_once,
\* handle_socket).
SeInv == SeTypeOK /\ Walking /\ \A c \in Conn : EachConn(c)
=============================================================================
