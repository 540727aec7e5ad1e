------------------------- MODULE ClientRoomsProofs -------------------------
(***************************************************************************)
(* HiddenRoomIsTransient and StateAgrees, for any number of rooms, moves   *)
(* and link losses and for queues of any length.  The invariant looks at   *)
(* what the client is going to know: the messages that are under way to    *)
(* the manager are read in their order, and what counts is the last one    *)
(* that says anything about the room, or about the link.                   *)
(***************************************************************************)
EXTENDS ClientRooms, FiniteSetTheorems, SequenceTheorems, TLAPS

\* What holds once the messages q have been read: those in `up` make it true, those
\* in `down` false, the others leave it as it is, which is b before the first.
After(q, up, down, b) ==
  \/ \E i \in DOMAIN q : q[i] \in up /\ \A j \in DOMAIN q : j > i => q[j] \notin down
  \/ b /\ \A j \in DOMAIN q : q[j] \notin down

Confirms(r) == {Msg("RoomJoined", r)}
Resets(r)   == {Msg("JoinRejected", r), Msg("Connected", None), Msg("Welcome", None)}
Comes == {Msg("Connected", None)}
Goes  == {Msg("Disconnected", None)}

\* ... of a message queue, the one it is read into, and the one that is worked off.
Line(d, e, i, up, down, b) == After(d, up, down, After(e, up, down, After(i, up, down, b)))

\* The client shows r when it has read what is under way.
Known(r) == Line(direct, evs, inbox, Confirms(r), Resets(r), r \in joined)

\* It takes its link for up.
Online == state \in {"Connected", "InRoom"}
Live   == After(evs, Comes, Goes, After(inbox, Comes, Goes, Online))

Accounted(r) == Known(r) \/ Leaving(r) \/ r \in doubtful

Shown     == \A r \in srv : Accounted(r)
Unlinked  == ~Linked => srv = {} /\ toServer = <<>>
Collected == ~updating => inbox = <<>>
Told      == link = "up" => Live
Agrees    == (state = "InRoom" => joined # {})
             /\ (joined # {} => state \in {"InRoom", "Disconnected"})

IInv ==
  /\ TypeOK /\ IsFiniteSet(joined)
  /\ Shown /\ Unlinked /\ Collected /\ Told /\ Agrees
-----------------------------------------------------------------------------
(* Reading messages *)

LEMMA AfterNothing ==
  ASSUME NEW up, NEW down, NEW b \in BOOLEAN
  PROVE  After(<<>>, up, down, b) <=> b
BY DEF After

LEMMA AfterAppend ==
  ASSUME NEW S, NEW q \in Seq(S), NEW m \in S, NEW up, NEW down, up \cap down = {},
         NEW b \in BOOLEAN
  PROVE  After(Append(q, m), up, down, b)
           <=> (m \in up \/ (m \notin down /\ After(q, up, down, b)))
<1> DEFINE p == Append(q, m)
<1>1. /\ DOMAIN p = 1..(Len(q) + 1) /\ DOMAIN q = 1..Len(q) /\ Len(q) \in Nat
      /\ p[Len(q) + 1] = m /\ \A i \in 1..Len(q) : p[i] = q[i]
  OBVIOUS
<1>2. ASSUME m \in up PROVE After(p, up, down, b)
  <2>1. p[Len(q) + 1] \in up /\ \A j \in DOMAIN p : ~(j > Len(q) + 1)
    BY <1>1, <1>2
  <2>2. QED
    BY <1>1, <2>1 DEF After
<1>3. ASSUME m \notin down, After(q, up, down, b) PROVE After(p, up, down, b)
  BY <1>1, <1>3 DEF After
<1>4. ASSUME After(p, up, down, b), m \notin up
      PROVE  m \notin down /\ After(q, up, down, b)
  BY <1>1, <1>4 DEF After
<1>5. QED
  BY <1>2, <1>3, <1>4

LEMMA AfterHead ==
  ASSUME NEW S, NEW q \in Seq(S), q # <<>>, NEW up, NEW down, up \cap down = {},
         NEW b \in BOOLEAN
  PROVE  After(q, up, down, b)
           <=> After(Tail(q), up, down, Head(q) \in up \/ (Head(q) \notin down /\ b))
<1> DEFINE p == Tail(q)
           c == Head(q) \in up \/ (Head(q) \notin down /\ b)
<1>1. /\ DOMAIN q = 1..Len(q) /\ DOMAIN p = 1..(Len(q) - 1) /\ Len(q) \in Nat \ {0}
      /\ Head(q) = q[1] /\ \A i \in 1..(Len(q) - 1) : p[i] = q[i + 1]
  OBVIOUS
<1>2. ASSUME After(q, up, down, b) PROVE After(p, up, down, c)
  <2>1. CASE b /\ \A j \in DOMAIN q : q[j] \notin down
    BY <1>1, <2>1 DEF After
  <2>2. ASSUME NEW i \in DOMAIN q, q[i] \in up,
               \A j \in DOMAIN q : j > i => q[j] \notin down
        PROVE  After(p, up, down, c)
    <3>1. \A j \in DOMAIN p : j + 1 > i => p[j] \notin down
      BY <1>1, <2>2
    <3>2. CASE i = 1
      BY <1>1, <2>2, <3>1, <3>2 DEF After
    <3>3. CASE i > 1
      <4>1. i - 1 \in DOMAIN p /\ p[i - 1] \in up
        BY <1>1, <2>2, <3>3
      <4>2. QED
        BY <1>1, <3>1, <4>1 DEF After
    <3>4. QED
      BY <1>1, <3>2, <3>3
  <2>3. QED
    BY <1>2, <2>1, <2>2 DEF After
<1>3. ASSUME After(p, up, down, c) PROVE After(q, up, down, b)
  <2>1. \A j \in DOMAIN q : j > 1 => j - 1 \in DOMAIN p /\ q[j] = p[j - 1]
    BY <1>1
  <2>2. CASE c /\ \A j \in DOMAIN p : p[j] \notin down
    <3>1. \A j \in DOMAIN q : j > 1 => q[j] \notin down
      BY <2>1, <2>2
    <3>2. QED
      BY <1>1, <2>2, <3>1 DEF After
  <2>3. ASSUME NEW i \in DOMAIN p, p[i] \in up,
               \A j \in DOMAIN p : j > i => p[j] \notin down
        PROVE  After(q, up, down, b)
    <3>1. i + 1 \in DOMAIN q /\ q[i + 1] \in up
      BY <1>1, <2>3
    <3>2. ASSUME NEW j \in DOMAIN q, j > i + 1 PROVE q[j] \notin down
      <4>1. j > 1 /\ j - 1 > i
        BY <1>1, <3>2
      <4>2. QED
        BY <2>1, <2>3, <4>1
    <3>3. QED
      BY <3>1, <3>2 DEF After
  <2>4. QED
    BY <1>3, <2>2, <2>3 DEF After
<1>4. QED
  BY <1>2, <1>3

LEMMA AfterMore ==
  ASSUME NEW q, NEW up, NEW down, NEW b \in BOOLEAN, NEW c \in BOOLEAN,
         b => c, After(q, up, down, b)
  PROVE  After(q, up, down, c)
BY DEF After

\* Without a word for it in q, it has held before.
LEMMA AfterSaid ==
  ASSUME NEW q, NEW up, NEW down, NEW b \in BOOLEAN, After(q, up, down, b)
  PROVE  b \/ \E i \in DOMAIN q : q[i] \in up
BY DEF After

LEMMA LineSend ==
  ASSUME NEW S, NEW d \in Seq(S), NEW e \in Seq(S), NEW i \in Seq(S), NEW m \in S,
         NEW up, NEW down, up \cap down = {}, NEW b \in BOOLEAN,
         m \in up \/ (m \notin down /\ Line(d, e, i, up, down, b))
  PROVE  Line(Append(d, m), e, i, up, down, b)
<1> DEFINE c == After(e, up, down, After(i, up, down, b))
<1>1. c \in BOOLEAN
  BY DEF After
<1>2. m \in up \/ (m \notin down /\ After(d, up, down, c))
  BY DEF Line
<1>3. After(Append(d, m), up, down, c)
  <2> HIDE DEF c
  <2> QED
    BY <1>1, <1>2, AfterAppend
<1>4. QED
  BY <1>3 DEF Line

LEMMA LineReceive ==
  ASSUME NEW S, NEW d \in Seq(S), NEW e \in Seq(S), NEW i \in Seq(S), NEW m \in S,
         NEW up, NEW down, up \cap down = {}, NEW b \in BOOLEAN,
         d # <<>>, Head(d) \in up <=> m \in up, Head(d) \in down <=> m \in down,
         Line(d, e, i, up, down, b)
  PROVE  Line(Tail(d), Append(e, m), i, up, down, b)
<1> DEFINE c  == After(i, up, down, b)
           ec == After(e, up, down, c)
           ed == After(Append(e, m), up, down, c)
<1>1. c \in BOOLEAN /\ ec \in BOOLEAN /\ ed \in BOOLEAN
  BY DEF After
<1>2. ed <=> (m \in up \/ (m \notin down /\ ec))
  BY <1>1, AfterAppend
<1>3. After(d, up, down, ec) <=> After(Tail(d), up, down, Head(d) \in up \/ (Head(d) \notin down /\ ec))
  BY <1>1, AfterHead
<1>4. After(Tail(d), up, down, ed)
  BY <1>1, <1>2, <1>3, AfterMore DEF Line
<1>5. QED
  BY <1>4 DEF Line

LEMMA LineCollect ==
  ASSUME NEW d, NEW e, NEW up, NEW down, NEW b \in BOOLEAN,
         Line(d, e, <<>>, up, down, b)
  PROVE  Line(d, <<>>, e, up, down, b)
<1>1. After(<<>>, up, down, b) <=> b
  BY AfterNothing
<1>2. After(e, up, down, b) \in BOOLEAN
  BY DEF After
<1>3. After(<<>>, up, down, After(e, up, down, b)) <=> After(e, up, down, b)
  BY <1>2, AfterNothing
<1>4. QED
  BY <1>1, <1>3 DEF Line, After

LEMMA LineMore ==
  ASSUME NEW d, NEW e, NEW i, NEW j, NEW up, NEW down, NEW b \in BOOLEAN, NEW c \in BOOLEAN,
         After(i, up, down, b) => After(j, up, down, c),
         Line(d, e, i, up, down, b)
  PROVE  Line(d, e, j, up, down, c)
<1> DEFINE ib == After(i, up, down, b)
           jc == After(j, up, down, c)
           eb == After(e, up, down, ib)
           ec == After(e, up, down, jc)
<1>1. ib \in BOOLEAN /\ jc \in BOOLEAN /\ eb \in BOOLEAN /\ ec \in BOOLEAN
  BY DEF After
<1>2. eb => ec
  BY <1>1, AfterMore
<1>3. After(d, up, down, ec)
  BY <1>1, <1>2, AfterMore DEF Line
<1>4. QED
  BY <1>3 DEF Line

LEMMA LineHandle ==
  ASSUME NEW S, NEW d, NEW e, NEW i \in Seq(S), i # <<>>,
         NEW up, NEW down, up \cap down = {}, NEW b \in BOOLEAN, NEW c \in BOOLEAN,
         Head(i) \in up \/ (Head(i) \notin down /\ b) => c,
         Line(d, e, i, up, down, b)
  PROVE  Line(d, e, Tail(i), up, down, c)
<1> DEFINE h == Head(i) \in up \/ (Head(i) \notin down /\ b)
<1>1. After(i, up, down, b) <=> After(Tail(i), up, down, h)
  BY AfterHead
<1>2. h \in BOOLEAN
  OBVIOUS
<1>3. After(Tail(i), up, down, h) => After(Tail(i), up, down, c)
  BY <1>2, AfterMore
<1>4. QED
  BY <1>1, <1>3, LineMore

LEMMA LineSaid ==
  ASSUME NEW d, NEW e, NEW i, NEW up, NEW down, NEW b \in BOOLEAN,
         Line(d, e, i, up, down, b)
  PROVE  b \/ \E q \in {d, e, i} : \E k \in DOMAIN q : q[k] \in up
<1> DEFINE ib == After(i, up, down, b)
           eb == After(e, up, down, ib)
<1>1. ib \in BOOLEAN /\ eb \in BOOLEAN
  BY DEF After
<1>2. eb \/ \E k \in DOMAIN d : d[k] \in up
  BY <1>1, AfterSaid DEF Line
<1>3. eb => ib \/ \E k \in DOMAIN e : e[k] \in up
  BY <1>1, AfterSaid
<1>4. ib => b \/ \E k \in DOMAIN i : i[k] \in up
  BY AfterSaid
<1>5. QED
  BY <1>2, <1>3, <1>4

LEMMA LiveMore ==
  ASSUME NEW e, NEW i, NEW j, NEW up, NEW down, NEW b \in BOOLEAN, NEW c \in BOOLEAN,
         After(i, up, down, b) => After(j, up, down, c),
         After(e, up, down, After(i, up, down, b))
  PROVE  After(e, up, down, After(j, up, down, c))
<1>1. After(i, up, down, b) \in BOOLEAN /\ After(j, up, down, c) \in BOOLEAN
  BY DEF After
<1>2. QED
  BY <1>1, AfterMore
-----------------------------------------------------------------------------
(* Sets and queues *)

LEMMA SetToSeqType ==
  ASSUME NEW S, IsFiniteSet(S)
  PROVE  SetToSeq(S) \in Seq(S)
<1> DEFINE n == Cardinality(S)
<1>1. n \in Nat /\ ExistsBijection(1..n, S)
  BY FS_CardinalityType
<1>2. \E f \in [1..n -> S] : IsInjective(f)
  BY <1>1 DEF ExistsBijection, Bijection, Injection
<1>3. SetToSeq(S) \in [1..n -> S]
  BY <1>2 DEF SetToSeq
<1>4. QED
  BY <1>1, <1>3, SeqDef

LEMMA RejoinType == joined \subseteq Room /\ IsFiniteSet(joined) => Rejoin \in Seq(Request)
<1> SUFFICES ASSUME joined \subseteq Room, IsFiniteSet(joined) PROVE Rejoin \in Seq(Request)
  OBVIOUS
<1> DEFINE T == {Msg("JoinRoom", r) : r \in joined}
           f == [r \in joined |-> Msg("JoinRoom", r)]
<1>1. f \in Surjection(joined, T)
  BY DEF Surjection
<1>2. IsFiniteSet(T)
  BY <1>1, FS_Surjection
<1>3. T \subseteq Request
  BY DEF Msg, Request
<1>4. SetToSeq(T) \in Seq(T)
  BY <1>2, SetToSeqType
<1>5. SetToSeq(T) \in Seq(Request)
  <2> DEFINE q == SetToSeq(T)
  <2> HIDE DEF q, T
  <2>1. q \in Seq(T)
    BY <1>4 DEF q
  <2>2. QED
    BY <1>3, <2>1, SeqMonotonic DEF q
<1>6. QED
  BY <1>5 DEF Rejoin

\* What is in a queue stays there when something is added to it, or when
\* something else is taken out of it.
LEMMA InMore ==
  ASSUME NEW S, NEW q \in Seq(S), NEW p \in Seq(S), NEW m, In(m, q)
  PROVE  In(m, q \o p)
<1>1. PICK i \in DOMAIN q : q[i] = m
  BY DEF In
<1>2. i \in 1..Len(q) /\ Len(q) \in Nat /\ Len(p) \in Nat /\ DOMAIN (q \o p) = 1..(Len(q) + Len(p))
  OBVIOUS
<1>3. i \in DOMAIN (q \o p) /\ (q \o p)[i] = m
  BY <1>1, <1>2
<1>4. QED
  BY <1>3 DEF In

LEMMA InLast ==
  ASSUME NEW S, NEW q \in Seq(S), NEW p \in Seq(S), NEW m \in S
  PROVE  In(m, Append(q, m)) /\ In(m, q \o <<m>>)
<1>1. /\ Len(q) + 1 \in DOMAIN Append(q, m) /\ Append(q, m)[Len(q) + 1] = m
      /\ Len(q) + 1 \in DOMAIN (q \o <<m>>) /\ (q \o <<m>>)[Len(q) + 1] = m
  OBVIOUS
<1>2. QED
  BY <1>1 DEF In

LEMMA InAppend ==
  ASSUME NEW S, NEW q \in Seq(S), NEW n \in S, NEW m, In(m, q)
  PROVE  In(m, Append(q, n))
BY DEF In

LEMMA InTail ==
  ASSUME NEW S, NEW q \in Seq(S), q # <<>>, NEW m, In(m, q)
  PROVE  m = Head(q) \/ In(m, Tail(q))
<1>1. PICK i \in DOMAIN q : q[i] = m
  BY DEF In
<1>2. CASE i = 1
  BY <1>1, <1>2
<1>3. CASE i # 1
  <2>1. i - 1 \in DOMAIN Tail(q) /\ Tail(q)[i - 1] = m
    BY <1>1, <1>3
  <2>2. QED
    BY <2>1 DEF In
<1>4. QED
  BY <1>2, <1>3
-----------------------------------------------------------------------------
(* The invariant *)

\* What may be in a queue on the way to the manager.
Word == Reply \cup Event

LEMMA Words ==
  /\ \A r : Confirms(r) \cap Resets(r) = {}
  /\ Comes \cap Goes = {}
  /\ TypeOK => /\ direct \in Seq(Word) /\ evs \in Seq(Word) /\ inbox \in Seq(Word)
               /\ evs \in Seq(Event) /\ inbox \in Seq(Event)
               /\ cmds \in Seq(Request) /\ toServer \in Seq(Request)
<1>1. (\A r : Confirms(r) \cap Resets(r) = {}) /\ Comes \cap Goes = {}
  BY DEF Confirms, Resets, Comes, Goes, Msg
<1>2. Reply \subseteq Word /\ Event \subseteq Word
  BY DEF Word
<1>3. TypeOK => direct \in Seq(Word) /\ evs \in Seq(Word) /\ inbox \in Seq(Word)
  <2> SUFFICES ASSUME TypeOK
               PROVE  direct \in Seq(Word) /\ evs \in Seq(Word) /\ inbox \in Seq(Word)
    OBVIOUS
  <2>1. direct \in Seq(Reply) /\ evs \in Seq(Event) /\ inbox \in Seq(Event)
    BY DEF TypeOK
  <2>2. QED
    BY <1>2, <2>1, SeqMonotonic
<1>4. QED
  BY <1>1, <1>3 DEF TypeOK

LEMMA InitIInv == Init => IInv
<1> SUFFICES ASSUME Init PROVE IInv
  OBVIOUS
<1>1. TypeOK
  <2>1. /\ inbox \in Seq(Event) /\ evs \in Seq(Event) /\ direct \in Seq(Reply)
        /\ cmds \in Seq(Request) /\ toServer \in Seq(Request)
    BY DEF Init
  <2>2. moves \in 0..MaxMoves /\ drops \in 0..MaxDrops
    BY BoundAssumption DEF Init
  <2>3. joined \subseteq Room /\ srv \subseteq Room /\ doubtful \subseteq Room /\ given \subseteq Room
    BY DEF Init
  <2>4. map \in MapRoom \cup {None} /\ current \in MapRoom \cup {None} /\ updating \in BOOLEAN
    BY DEF Init
  <2>5. /\ state \in {"Connecting", "Connected", "InRoom", "Disconnected"}
        /\ link \in {"connecting", "opening", "up", "down", "lost"}
    BY DEF Init
  <2>6. QED
    BY <2>1, <2>2, <2>3, <2>4, <2>5 DEF TypeOK
<1>2. IsFiniteSet(joined)
  BY FS_EmptySet DEF Init
<1>3. Shown /\ Unlinked /\ Collected /\ Told /\ Agrees
  BY DEF Init, Shown, Unlinked, Collected, Told, Agrees
<1>4. QED
  BY <1>1, <1>2, <1>3 DEF IInv

LEMMA Handled ==
  ASSUME TypeOK, inbox # <<>>
  PROVE  /\ Head(inbox) \in Event /\ Tail(inbox) \in Seq(Event) /\ Tail(inbox) \in Seq(Word)
         /\ Head(inbox).kind \in {"RoomJoined", "JoinRejected"} =>
              Head(inbox).room \in Room /\ Head(inbox) = Msg(Head(inbox).kind, Head(inbox).room)
         /\ Head(inbox).kind = "Connected" => Head(inbox) = Msg("Connected", None)
         /\ Head(inbox).kind = "Disconnected" => Head(inbox) = Msg("Disconnected", None)
<1>1. Head(inbox) \in Event /\ Tail(inbox) \in Seq(Event) /\ Tail(inbox) \in Seq(Word)
  BY Words DEF TypeOK
<1>2. QED
  BY <1>1 DEF Event, Msg

LEMMA TypeStep == IInv /\ [Next]_vars => TypeOK' /\ IsFiniteSet(joined)'
<1> SUFFICES ASSUME IInv, [Next]_vars PROVE TypeOK' /\ IsFiniteSet(joined)'
  OBVIOUS
<1> USE NoneAssumption, BoundAssumption DEF IInv, Room
<1>1. \A k \in {"JoinRoom", "LeaveRoom"}, r \in Room : <<Msg(k, r)>> \in Seq(Request)
  BY DEF Msg, Request
<1>2. \A r : IsFiniteSet(joined \ {r}) /\ IsFiniteSet(joined \cup {r})
  BY FS_AddElement, FS_RemoveElement
<1>3. ASSUME NEW x \in MapRoom \cup {None}, ChangeMap(x) PROVE TypeOK' /\ IsFiniteSet(joined)'
  BY <1>3 DEF TypeOK, ChangeMap, Move, manager, update, network, wire, server
<1>4. ASSUME NEW r \in Room, JoinManual(r) PROVE TypeOK' /\ IsFiniteSet(joined)'
  <2>1. Msg("JoinRoom", r) \in Request
    BY DEF Msg, Request
  <2>2. QED
    BY <1>4, <2>1 DEF TypeOK, JoinManual, Recorded, Move, update, network, wire, server
<1>5. ASSUME NEW r \in Room, LeaveManual(r) PROVE TypeOK' /\ IsFiniteSet(joined)'
  <2>1. cmds' \in Seq(Request)
    BY <1>1, <1>5 DEF TypeOK, LeaveManual, LeaveMsg
  <2>2. current' \in MapRoom \cup {None} /\ moves' \in 0..MaxMoves
    BY <1>5 DEF TypeOK, LeaveManual, Move
  <2>3. /\ joined' \subseteq Room /\ given' \subseteq Room /\ IsFiniteSet(joined')
        /\ state' \in {"Connecting", "Connected", "InRoom", "Disconnected"}
    BY <1>2, <1>5 DEF TypeOK, LeaveManual, LeaveLocal, StateWithout
  <2>4. QED
    BY <1>5, <2>1, <2>2, <2>3 DEF TypeOK, LeaveManual, update, network, wire, server
<1>6. ASSUME UpdateBegin PROVE TypeOK' /\ IsFiniteSet(joined)'
  BY <1>6 DEF TypeOK, UpdateBegin, player, manager, network, wire, server
<1>7. ASSUME OnConnected PROVE TypeOK' /\ IsFiniteSet(joined)'
  <2>1. Rejoin \in Seq(Request) /\ IsFiniteSet({})
    BY RejoinType, FS_EmptySet DEF TypeOK
  <2>2. QED
    BY <1>7, <2>1, Handled DEF TypeOK, OnConnected, Handling, player, network, wire, server
<1>8. ASSUME OnDisconnected PROVE TypeOK' /\ IsFiniteSet(joined)'
  BY <1>8, Handled DEF TypeOK, OnDisconnected, Handling, player, network, wire, server
<1>9. ASSUME OnRoomJoined PROVE TypeOK' /\ IsFiniteSet(joined)'
  BY <1>2, <1>9, Handled DEF TypeOK, OnRoomJoined, Handling, player, network, wire, server
<1>10. ASSUME OnJoinRejected PROVE TypeOK' /\ IsFiniteSet(joined)'
  BY <1>2, <1>10, Handled
  DEF TypeOK, OnJoinRejected, StateRejected, Handling, player, network, wire, server
<1>11. ASSUME FollowMap PROVE TypeOK' /\ IsFiniteSet(joined)'
  <2>1. CASE UNCHANGED <<manager, cmds>>
    BY <1>11, <2>1 DEF TypeOK, FollowMap, manager, player, network, wire, server
  <2>2. CASE ~UNCHANGED <<manager, cmds>>
    <3> DEFINE l == IF current = None THEN <<>> ELSE LeaveMsg(current)
               j == IF map = None THEN <<>> ELSE <<Msg("JoinRoom", map)>>
    <3>1. l \in Seq(Request) /\ j \in Seq(Request)
      BY <1>1 DEF TypeOK, LeaveMsg
    <3>2. cmds' = cmds \o l \o j
      BY <1>11, <2>2 DEF FollowMap
    <3>3. cmds' \in Seq(Request)
      <4> HIDE DEF l, j
      <4> QED
        BY <3>1, <3>2 DEF TypeOK
    <3>4. QED
      BY <1>2, <1>11, <2>2, <3>3
      DEF TypeOK, FollowMap, LeaveLocal, StateWithout, player, network, wire, server
  <2>3. QED
    BY <2>1, <2>2
<1>12. ASSUME SendCommand PROVE TypeOK' /\ IsFiniteSet(joined)'
  BY <1>12 DEF TypeOK, SendCommand, player, manager, update, network, server
<1>13. ASSUME Receive PROVE TypeOK' /\ IsFiniteSet(joined)'
  <2>1. Msg("Connected", None) \in Event /\ Head(direct) \in Reply
        /\ (Head(direct).kind # "Welcome" => Head(direct) \in Event)
    BY <1>13 DEF TypeOK, Receive, Msg, Reply, Event
  <2>2. direct' \in Seq(Reply) /\ direct # <<>> /\ evs \in Seq(Event)
    BY <1>13 DEF TypeOK, Receive
  <2>3. evs' = Append(evs, Msg("Connected", None))
        \/ (Head(direct).kind # "Welcome" /\ evs' = Append(evs, Head(direct)))
    BY <1>13 DEF Receive
  <2>4. evs' \in Seq(Event)
    BY <2>1, <2>2, <2>3
  <2>5. QED
    BY <1>13, <2>2, <2>4 DEF TypeOK, Receive, player, manager, update, server
<1>14. ASSUME Reconnect PROVE TypeOK' /\ IsFiniteSet(joined)'
  <2>1. Msg("Disconnected", None) \in Event
    BY DEF Msg, Event
  <2>2. QED
    BY <1>14, <2>1 DEF TypeOK, Reconnect, player, manager, update, wire, server
<1>15. ASSUME ConnectOk PROVE TypeOK' /\ IsFiniteSet(joined)'
  <2>1. Msg("Welcome", None) \in Reply
    BY DEF Reply
  <2>2. QED
    BY <1>15, <2>1 DEF TypeOK, ConnectOk, player, manager, update, server
<1>16. ASSUME ConnectFail PROVE TypeOK' /\ IsFiniteSet(joined)'
  BY <1>16 DEF TypeOK, ConnectFail, player, manager, update, wire, server
<1>17. ASSUME Drop PROVE TypeOK' /\ IsFiniteSet(joined)'
  BY <1>17 DEF TypeOK, Drop, LoseLink, player, manager, update
<1>18. ASSUME DropAtWelcome PROVE TypeOK' /\ IsFiniteSet(joined)'
  <2>1. Msg("Connected", None) \in Event
    BY DEF Msg, Event
  <2>2. QED
    BY <1>18, <2>1 DEF TypeOK, DropAtWelcome, LoseLink, player, manager, update
<1>19. ASSUME NEW r \in Room, ServeJoin(r) \/ RefuseJoin(r) \/ ServeLeave(r)
       PROVE  TypeOK' /\ IsFiniteSet(joined)'
  <2>1. Msg("RoomJoined", r) \in Reply /\ Msg("JoinRejected", r) \in Reply
    BY DEF Msg, Reply
  <2>2. toServer' \in Seq(Request)
    <3>1. toServer # <<>> /\ toServer' = Tail(toServer) /\ toServer \in Seq(Request)
      BY <1>19 DEF TypeOK, ServeJoin, RefuseJoin, ServeLeave, Serving
    <3>2. QED
      BY <3>1
  <2>5. direct' \in Seq(Reply)
    <3>0. direct \in Seq(Reply)
      BY DEF TypeOK
    <3>1. \/ direct' = direct \/ direct' = Append(direct, Msg("RoomJoined", r))
          \/ direct' = Append(direct, Msg("JoinRejected", r))
      BY <1>19 DEF ServeJoin, RefuseJoin, ServeLeave
    <3>2. QED
      BY <2>1, <3>0, <3>1
  <2>3. srv' \subseteq Room /\ doubtful' \subseteq Room
    BY <1>19 DEF TypeOK, ServeJoin, RefuseJoin, ServeLeave
  <2>4. QED
    BY <1>19, <2>2, <2>5, <2>3 DEF TypeOK, ServeJoin, RefuseJoin, ServeLeave,
                             player, manager, update, network
<1>20. CASE UNCHANGED vars
  BY <1>20 DEF TypeOK, vars, player, manager, update, network, wire, server
<1>21. QED
  BY <1>3, <1>4, <1>5, <1>6, <1>7, <1>8, <1>9, <1>10, <1>11, <1>12, <1>13, <1>14, <1>15,
     <1>16, <1>17, <1>18, <1>19, <1>20 DEF Next, Update

LEMMA UnlinkedStep == IInv /\ [Next]_vars => Unlinked' /\ Collected'
<1> SUFFICES ASSUME IInv, [Next]_vars PROVE Unlinked' /\ Collected'
  OBVIOUS
<1>1. TypeOK /\ Unlinked /\ Collected
  BY DEF IInv
<1> USE DEF Unlinked, Collected, Linked, player, manager, update, network, wire, server
<1>2. CASE (\E x \in MapRoom \cup {None} : ChangeMap(x)) \/ (\E r \in Room : JoinManual(r) \/ LeaveManual(r))
  BY <1>1, <1>2 DEF ChangeMap, JoinManual, LeaveManual
<1>3. CASE Update
  BY <1>1, <1>3 DEF Update, UpdateBegin, OnConnected, OnDisconnected, OnRoomJoined,
                    OnJoinRejected, FollowMap
<1>4. CASE SendCommand \/ Receive \/ Reconnect \/ ConnectOk \/ ConnectFail
  BY <1>1, <1>4 DEF SendCommand, Receive, Reconnect, ConnectOk, ConnectFail
<1>5. CASE Drop \/ DropAtWelcome
  BY <1>1, <1>5 DEF Drop, DropAtWelcome, LoseLink
<1>6. CASE \E r \in Room : ServeJoin(r) \/ RefuseJoin(r) \/ ServeLeave(r)
  BY <1>1, <1>6 DEF ServeJoin, RefuseJoin, ServeLeave, Serving
<1>7. CASE UNCHANGED vars
  BY <1>1, <1>7 DEF vars
<1>8. QED
  BY <1>2, <1>3, <1>4, <1>5, <1>6, <1>7 DEF Next

LEMMA AgreesStep == IInv /\ [Next]_vars => Agrees'
<1> SUFFICES ASSUME IInv, [Next]_vars PROVE Agrees'
  OBVIOUS
<1>1. TypeOK /\ Agrees
  BY DEF IInv
<1> USE DEF Agrees, player, manager, update, network, wire, server
<1>2. CASE (\E x \in MapRoom \cup {None} : ChangeMap(x)) \/ (\E r \in Room : JoinManual(r))
  BY <1>1, <1>2 DEF ChangeMap, JoinManual
<1>3. ASSUME NEW r \in Room, LeaveManual(r) PROVE Agrees'
  BY <1>1, <1>3 DEF LeaveManual, LeaveLocal, StateWithout
<1>4. CASE UpdateBegin \/ OnConnected \/ OnDisconnected \/ OnRoomJoined
  BY <1>1, <1>4 DEF UpdateBegin, OnConnected, OnDisconnected, OnRoomJoined
<1>5. CASE OnJoinRejected
  BY <1>1, <1>5 DEF OnJoinRejected, StateRejected
<1>6. CASE FollowMap
  BY <1>1, <1>6 DEF FollowMap, LeaveLocal, StateWithout
<1>7. CASE SendCommand \/ Receive \/ Reconnect \/ ConnectOk \/ ConnectFail \/ Drop \/ DropAtWelcome
  BY <1>1, <1>7 DEF SendCommand, Receive, Reconnect, ConnectOk, ConnectFail, Drop, DropAtWelcome
<1>8. CASE \E r \in Room : ServeJoin(r) \/ RefuseJoin(r) \/ ServeLeave(r)
  BY <1>1, <1>8 DEF ServeJoin, RefuseJoin, ServeLeave
<1>9. CASE UNCHANGED vars
  BY <1>1, <1>9 DEF vars
<1>10. QED
  BY <1>2, <1>3, <1>4, <1>5, <1>6, <1>7, <1>8, <1>9 DEF Next, Update

LEMMA LiveHandled ==
  ASSUME TypeOK, inbox # <<>>, Live, inbox' = Tail(inbox), evs' = evs,
         Head(inbox) \in Comes \/ (Head(inbox) \notin Goes /\ Online) => Online'
  PROVE  Live'
<1> DEFINE h == Head(inbox) \in Comes \/ (Head(inbox) \notin Goes /\ Online)
<1>1. Online \in BOOLEAN /\ Online' \in BOOLEAN /\ h \in BOOLEAN
  BY DEF Online
<1>2. After(inbox, Comes, Goes, Online) <=> After(Tail(inbox), Comes, Goes, h)
  BY <1>1, Words, AfterHead
<1>3. After(Tail(inbox), Comes, Goes, h) => After(Tail(inbox), Comes, Goes, Online')
  BY <1>1, AfterMore
<1>4. After(evs, Comes, Goes, After(Tail(inbox), Comes, Goes, Online'))
  BY <1>1, <1>2, <1>3, LiveMore DEF Live
<1>5. QED
  BY <1>4 DEF Live

LEMMA LiveKept ==
  ASSUME Live, inbox' = inbox, evs' = evs, Online => Online'
  PROVE  Live'
<1>1. Online \in BOOLEAN /\ Online' \in BOOLEAN
  BY DEF Online
<1>2. After(inbox, Comes, Goes, Online) => After(inbox, Comes, Goes, Online')
  BY <1>1, AfterMore
<1>3. After(evs, Comes, Goes, After(inbox, Comes, Goes, Online'))
  BY <1>1, <1>2, LiveMore DEF Live
<1>4. QED
  BY <1>3 DEF Live

LEMMA ToldStep == IInv /\ [Next]_vars => Told'
<1> SUFFICES ASSUME IInv, [Next]_vars, link' = "up" PROVE Live'
  BY DEF Told
<1>1. TypeOK /\ Collected /\ (link = "up" => Live)
  BY DEF IInv, Told
<1> USE DEF player, manager, update, network, wire, server
<1>2. CASE (\E x \in MapRoom \cup {None} : ChangeMap(x)) \/ (\E r \in Room : JoinManual(r))
  BY <1>1, <1>2, LiveKept DEF ChangeMap, JoinManual, Online
<1>3. ASSUME NEW r \in Room, LeaveManual(r) PROVE Live'
  BY <1>1, <1>3, LiveKept DEF LeaveManual, LeaveLocal, StateWithout, Online
<1>4. CASE UpdateBegin
  <2> DEFINE b == After(evs, Comes, Goes, Online)
  <2>1. link = "up" /\ inbox = <<>> /\ inbox' = evs /\ evs' = <<>> /\ state' = state
    BY <1>1, <1>4 DEF UpdateBegin, Collected
  <2>2. b \in BOOLEAN /\ Online \in BOOLEAN
    BY DEF After, Online
  <2>3. b
    BY <1>1, <2>1, <2>2, AfterNothing DEF Live, After
  <2>4. After(<<>>, Comes, Goes, b)
    BY <2>2, <2>3, AfterNothing
  <2>5. QED
    BY <2>1, <2>4 DEF Live, Online
<1>5. CASE OnConnected
  BY <1>1, <1>5, LiveHandled DEF OnConnected, Handling, Online
<1>6. CASE OnDisconnected
  <2>1. Head(inbox) \in Goes /\ Head(inbox) \notin Comes
    BY <1>1, <1>6, Handled, Words DEF OnDisconnected, Handling, Goes
  <2>2. QED
    BY <1>1, <1>6, <2>1, LiveHandled DEF OnDisconnected, Handling
<1>7. CASE OnRoomJoined
  BY <1>1, <1>7, LiveHandled DEF OnRoomJoined, Handling, Online
<1>8. CASE OnJoinRejected
  <2>1. Head(inbox) \notin Comes
    BY <1>8 DEF OnJoinRejected, Handling, Comes, Msg
  <2>2. Online => Online'
    BY <1>8 DEF OnJoinRejected, StateRejected, Online
  <2>3. inbox # <<>> /\ inbox' = Tail(inbox) /\ evs' = evs /\ link' = link
    BY <1>8 DEF OnJoinRejected, Handling
  <2>4. QED
    BY <1>1, <2>1, <2>2, <2>3, LiveHandled
<1>9. CASE FollowMap
  BY <1>1, <1>9, LiveKept DEF FollowMap, LeaveLocal, StateWithout, Online
<1>10. CASE Receive
  <2> DEFINE c == After(inbox, Comes, Goes, Online)
  <2>1. c \in BOOLEAN /\ state' = state /\ inbox' = inbox
    BY <1>10 DEF After, Receive
  <2>2. CASE Head(direct).kind = "Welcome"
    <3> DEFINE m == Msg("Connected", None)
    <3>1. m \in Word /\ m \in Comes /\ evs' = Append(evs, m) /\ evs \in Seq(Word)
      BY <1>1, <1>10, <2>2, Words DEF Receive, Word, Event, Comes
    <3>2. After(Append(evs, m), Comes, Goes, c)
      <4> HIDE DEF c, m
      <4> QED
        BY <2>1, <3>1, Words, AfterAppend
    <3>3. QED
      BY <2>1, <3>1, <3>2 DEF Live, Online
  <2>3. CASE Head(direct).kind # "Welcome"
    <3> DEFINE m == Head(direct)
    <3>1. m \in Reply /\ evs' = Append(evs, m) /\ link = "up" /\ evs \in Seq(Word)
      BY <1>1, <1>10, <2>3, Words DEF Receive, TypeOK
    <3>2. m \in Word /\ m \notin Comes /\ m \notin Goes
      BY <2>3, <3>1 DEF Word, Reply, Comes, Goes, Msg
    <3>3. After(evs, Comes, Goes, c)
      BY <1>1, <3>1 DEF Live
    <3>4. After(Append(evs, m), Comes, Goes, c)
      <4> HIDE DEF c, m
      <4> QED
        BY <2>1, <3>1, <3>2, <3>3, Words, AfterAppend
    <3>5. QED
      BY <2>1, <3>1, <3>4 DEF Live, Online
  <2>4. QED
    BY <2>2, <2>3
<1>11. CASE SendCommand \/ Reconnect \/ ConnectOk \/ ConnectFail
  BY <1>1, <1>11, LiveKept DEF SendCommand, Reconnect, ConnectOk, ConnectFail, Online
<1>12. CASE Drop \/ DropAtWelcome
  BY <1>12 DEF Drop, DropAtWelcome
<1>13. CASE \E r \in Room : ServeJoin(r) \/ RefuseJoin(r) \/ ServeLeave(r)
  BY <1>1, <1>13, LiveKept DEF ServeJoin, RefuseJoin, ServeLeave, Online
<1>14. CASE UNCHANGED vars
  BY <1>1, <1>14, LiveKept DEF vars, Online
<1>15. QED
  BY <1>2, <1>3, <1>4, <1>5, <1>6, <1>7, <1>8, <1>9, <1>10, <1>11, <1>12, <1>13, <1>14
  DEF Next, Update
-----------------------------------------------------------------------------
(* No room of the server is unaccounted for *)

\* Nothing on the way to the manager has changed, and no room is given up.
LEMMA KnownKept ==
  ASSUME NEW r, Known(r), direct' = direct, evs' = evs, inbox' = inbox, joined' = joined
  PROVE  Known(r)'
BY DEF Known

\* The manager has handled a message, and shows the room if that says so.
LEMMA KnownHandled ==
  ASSUME NEW r, TypeOK, inbox # <<>>, Known(r),
         direct' = direct, evs' = evs, inbox' = Tail(inbox),
         Head(inbox) \in Confirms(r) \/ (Head(inbox) \notin Resets(r) /\ r \in joined)
           => r \in joined'
  PROVE  Known(r)'
<1> DEFINE b == r \in joined
           c == r \in joined'
<1>1. b \in BOOLEAN /\ c \in BOOLEAN
  OBVIOUS
<1>2. inbox \in Seq(Word) /\ Confirms(r) \cap Resets(r) = {}
  BY Words
<1>3. Line(direct, evs, inbox, Confirms(r), Resets(r), b)
  BY DEF Known
<1>4. Line(direct, evs, Tail(inbox), Confirms(r), Resets(r), c)
  <2>1. Head(inbox) \in Confirms(r) \/ (Head(inbox) \notin Resets(r) /\ b) => c
    OBVIOUS
  <2> HIDE DEF b, c
  <2> QED
    BY <1>1, <1>2, <1>3, <2>1, LineHandle
<1>5. QED
  BY <1>4 DEF Known

\* The session has sent a message, which is no refusal of the room.
LEMMA KnownSent ==
  ASSUME NEW r, TypeOK, NEW m \in Reply, direct' = Append(direct, m),
         evs' = evs, inbox' = inbox, joined' = joined,
         m \in Confirms(r) \/ (m \notin Resets(r) /\ Known(r))
  PROVE  Known(r)'
<1> DEFINE b == r \in joined
<1>1. /\ direct \in Seq(Word) /\ evs \in Seq(Word) /\ inbox \in Seq(Word) /\ m \in Word
      /\ Confirms(r) \cap Resets(r) = {} /\ b \in BOOLEAN
  BY Words DEF Word
<1>2. m \in Confirms(r) \/ (m \notin Resets(r) /\ Line(direct, evs, inbox, Confirms(r), Resets(r), b))
  BY DEF Known
<1>3. Line(Append(direct, m), evs, inbox, Confirms(r), Resets(r), b)
  <2> HIDE DEF b
  <2> QED
    BY <1>1, <1>2, LineSend
<1>4. QED
  BY <1>3 DEF Known

\* A command more leaves no room behind.
LEMMA LeavingMore ==
  ASSUME NEW r, TypeOK, NEW p \in Seq(Request), cmds' = cmds \o p, toServer' = toServer,
         Leaving(r)
  PROVE  Leaving(r)'
<1> DEFINE m == Msg("LeaveRoom", r)
<1>1. CASE In(m, cmds)
  <2>1. In(m, cmds \o p)
    BY <1>1, Words, InMore
  <2>2. QED
    BY <2>1 DEF Leaving
<1>2. CASE In(m, toServer)
  BY <1>2 DEF Leaving
<1>3. QED
  BY <1>1, <1>2 DEF Leaving

LEMMA LeavingSaid ==
  ASSUME NEW r \in Room, TypeOK, NEW p \in Seq(Request),
         cmds' = cmds \o <<Msg("LeaveRoom", r)>> \o p
  PROVE  Leaving(r)'
<1> DEFINE m == Msg("LeaveRoom", r)
<1>1. m \in Request /\ cmds \in Seq(Request) /\ <<m>> \in Seq(Request)
  BY Words DEF Msg, Request
<1>2. In(m, cmds \o <<m>>) /\ cmds \o <<m>> \in Seq(Request)
  <2> HIDE DEF m
  <2> QED
    BY <1>1, InLast
<1>3. In(m, cmds \o <<m>> \o p)
  BY <1>2, InMore
<1>4. QED
  BY <1>3 DEF Leaving

LEMMA ShownStep == IInv /\ [Next]_vars => Shown'
<1> SUFFICES ASSUME IInv, [Next]_vars, NEW r \in srv' PROVE Accounted(r)'
  BY DEF Shown
<1>1. /\ TypeOK /\ Collected /\ (r \in srv => Known(r) \/ Leaving(r) \/ r \in doubtful)
      /\ (~Linked => srv = {} /\ toServer = <<>>)
  BY DEF IInv, Shown, Accounted, Unlinked
<1>2. /\ direct \in Seq(Word) /\ evs \in Seq(Word) /\ inbox \in Seq(Word)
      /\ cmds \in Seq(Request) /\ toServer \in Seq(Request)
      /\ Confirms(r) \cap Resets(r) = {} /\ <<>> \in Seq(Request)
  BY <1>1, Words
<1>3. (Known(r) \/ Leaving(r) \/ r \in doubtful)' => Accounted(r)'
  BY DEF Accounted
<1> USE DEF player, manager, update, network, wire, server
<1>4. ASSUME NEW x \in MapRoom \cup {None}, ChangeMap(x) PROVE Accounted(r)'
  BY <1>1, <1>3, <1>4, KnownKept DEF ChangeMap, Leaving
<1>5. ASSUME NEW q \in Room, JoinManual(q) PROVE Accounted(r)'
  <2>1. /\ <<Msg("JoinRoom", q)>> \in Seq(Request) /\ srv' = srv /\ doubtful' = doubtful
        /\ cmds' = cmds \o <<Msg("JoinRoom", q)>> /\ toServer' = toServer
    BY <1>2, <1>5 DEF JoinManual, Msg, Request
  <2>2. Leaving(r) => Leaving(r)'
    BY <1>1, <2>1, LeavingMore
  <2>3. Known(r) => Known(r)'
    BY <1>5, KnownKept DEF JoinManual
  <2>4. QED
    BY <1>1, <1>3, <2>1, <2>2, <2>3
<1>6. ASSUME NEW q \in Room, LeaveManual(q) PROVE Accounted(r)'
  <2>1. /\ <<Msg("LeaveRoom", q)>> \in Seq(Request) /\ srv' = srv /\ doubtful' = doubtful
        /\ cmds' = cmds \o <<Msg("LeaveRoom", q)>> /\ toServer' = toServer
        /\ direct' = direct /\ evs' = evs /\ inbox' = inbox /\ joined' = joined \ {q}
    BY <1>6 DEF LeaveManual, LeaveLocal, LeaveMsg, Msg, Request
  <2>2. CASE r = q
    <3>1. cmds' = cmds \o <<Msg("LeaveRoom", r)>> \o <<>>
      BY <1>2, <2>1, <2>2
    <3>2. QED
      BY <1>1, <1>2, <1>3, <2>2, <3>1, LeavingSaid
  <2>3. CASE r # q
    <3>1. Leaving(r) => Leaving(r)'
      BY <1>1, <2>1, LeavingMore
    <3>2. (r \in joined') = (r \in joined)
      BY <2>1, <2>3
    <3>3. Known(r) => Known(r)'
      BY <2>1, <3>2 DEF Known
    <3>4. QED
      BY <1>1, <1>3, <2>1, <3>1, <3>3
  <2>4. QED
    BY <2>2, <2>3
<1>7. CASE UpdateBegin
  <2>1. /\ inbox = <<>> /\ inbox' = evs /\ evs' = <<>> /\ direct' = direct /\ joined' = joined
        /\ srv' = srv /\ doubtful' = doubtful /\ cmds' = cmds /\ toServer' = toServer
    BY <1>1, <1>7 DEF UpdateBegin, Collected
  <2>2. Known(r) => Known(r)'
    <3> SUFFICES ASSUME Known(r) PROVE Known(r)'
      OBVIOUS
    <3> DEFINE b == r \in joined
    <3>1. Line(direct, evs, <<>>, Confirms(r), Resets(r), b) /\ b \in BOOLEAN
      BY <2>1 DEF Known
    <3>2. Line(direct, <<>>, evs, Confirms(r), Resets(r), b)
      <4> HIDE DEF b
      <4> QED
        BY <3>1, LineCollect
    <3>3. QED
      BY <2>1, <3>2 DEF Known
  <2>3. QED
    BY <1>1, <1>3, <2>1, <2>2 DEF Leaving
<1>8. CASE updating /\ (OnConnected \/ OnDisconnected \/ OnRoomJoined \/ OnJoinRejected)
  <2>1. /\ inbox # <<>> /\ inbox' = Tail(inbox) /\ direct' = direct /\ evs' = evs
        /\ srv' = srv /\ doubtful' = doubtful /\ toServer' = toServer
    BY <1>8 DEF OnConnected, OnDisconnected, OnRoomJoined, OnJoinRejected, Handling
  <2>2. \E p \in Seq(Request) : cmds' = cmds \o p
    <3>1. CASE OnConnected
      <4>1. Rejoin \in Seq(Request)
        BY <1>1, RejoinType DEF IInv, TypeOK
      <4>2. QED
        BY <3>1, <4>1 DEF OnConnected
    <3>2. CASE OnDisconnected \/ OnRoomJoined \/ OnJoinRejected
      <4>1. cmds' = cmds \o <<>>
        BY <1>2, <3>2 DEF OnDisconnected, OnRoomJoined, OnJoinRejected
      <4>2. QED
        BY <1>2, <4>1
    <3>3. QED
      BY <1>8, <3>1, <3>2
  <2>3. Leaving(r) => Leaving(r)'
    BY <1>1, <2>1, <2>2, LeavingMore
  <2>4. Head(inbox) \in Confirms(r) \/ (Head(inbox) \notin Resets(r) /\ r \in joined) => r \in joined'
    <3>1. CASE OnConnected
      BY <1>1, <2>1, <3>1, Handled DEF OnConnected, Handling, Confirms, Resets, Msg
    <3>2. CASE OnDisconnected
      BY <1>1, <2>1, <3>2, Handled DEF OnDisconnected, Handling, Confirms, Msg
    <3>3. CASE OnRoomJoined
      BY <3>3 DEF OnRoomJoined, Confirms, Msg
    <3>4. CASE OnJoinRejected
      BY <1>1, <2>1, <3>4, Handled DEF OnJoinRejected, Handling, Confirms, Resets, Msg
    <3>5. QED
      BY <1>8, <3>1, <3>2, <3>3, <3>4
  <2>5. Known(r) => Known(r)'
    BY <1>1, <2>1, <2>4, KnownHandled
  <2>6. QED
    BY <1>1, <1>3, <2>1, <2>3, <2>5
<1>9. CASE FollowMap
  <2>1. /\ srv' = srv /\ doubtful' = doubtful /\ toServer' = toServer
        /\ direct' = direct /\ evs' = evs /\ inbox' = inbox
    BY <1>9 DEF FollowMap
  <2>2. CASE UNCHANGED <<manager, cmds>>
    BY <1>1, <1>3, <2>1, <2>2, KnownKept DEF Leaving
  <2>3. CASE ~UNCHANGED <<manager, cmds>>
    <3> DEFINE l == IF current = None THEN <<>> ELSE LeaveMsg(current)
               j == IF map = None THEN <<>> ELSE <<Msg("JoinRoom", map)>>
    <3>1. cmds' = cmds \o l \o j /\ (IF current = None THEN joined' = joined ELSE joined' = joined \ {current})
      BY <1>9, <2>3 DEF FollowMap, LeaveLocal
    <3>2. l \in Seq(Request) /\ j \in Seq(Request)
      <4>1. map \in Room \cup {None} /\ current \in Room \cup {None}
        BY <1>1 DEF TypeOK, Room
      <4>2. \A k \in {"JoinRoom", "LeaveRoom"}, q \in Room : <<Msg(k, q)>> \in Seq(Request)
        BY DEF Msg, Request
      <4>3. QED
        BY <1>2, <4>1, <4>2 DEF LeaveMsg
    <3>3. CASE current # None /\ r = current
      <4>1. cmds' = cmds \o <<Msg("LeaveRoom", r)>> \o j /\ r \in Room
        BY <1>1, <3>1, <3>3 DEF LeaveMsg, TypeOK, Room
      <4>2. QED
        <5> HIDE DEF j
        <5> QED
          BY <1>1, <1>3, <3>2, <4>1, LeavingSaid
    <3>4. CASE current = None \/ r # current
      <4>1. cmds' = cmds \o (l \o j) /\ l \o j \in Seq(Request)
        <5> HIDE DEF l, j
        <5> QED
          BY <1>2, <3>1, <3>2
      <4>2. Leaving(r) => Leaving(r)'
        <5> HIDE DEF l, j
        <5> QED
          BY <1>1, <2>1, <4>1, LeavingMore
      <4>3. (r \in joined') = (r \in joined)
        BY <3>1, <3>4
      <4>4. Known(r) => Known(r)'
        BY <2>1, <4>3 DEF Known
      <4>5. QED
        BY <1>1, <1>3, <2>1, <4>2, <4>4
    <3>5. QED
      BY <3>3, <3>4
  <2>4. QED
    BY <2>2, <2>3
<1>10. CASE SendCommand
  <2> DEFINE m == Msg("LeaveRoom", r)
  <2>1. /\ srv' = srv /\ doubtful' = doubtful /\ direct' = direct /\ evs' = evs /\ inbox' = inbox
        /\ joined' = joined /\ cmds # <<>> /\ cmds' = Tail(cmds)
    BY <1>10 DEF SendCommand
  <2>2. Linked
    BY <1>1, <2>1
  <2>3. toServer' = Append(toServer, Head(cmds)) /\ Head(cmds) \in Request
    BY <1>2, <1>10, <2>1, <2>2 DEF SendCommand
  <2>4. In(m, cmds) => In(m, cmds') \/ In(m, toServer')
    <3> SUFFICES ASSUME In(m, cmds) PROVE In(m, cmds') \/ In(m, toServer')
      OBVIOUS
    <3>1. m = Head(cmds) \/ In(m, Tail(cmds))
      <4> HIDE DEF m
      <4> QED
        BY <1>2, <2>1, InTail
    <3>2. In(Head(cmds), Append(toServer, Head(cmds)))
      BY <1>2, <2>3, InLast
    <3>3. QED
      BY <2>1, <2>3, <3>1, <3>2
  <2>5. In(m, toServer) => In(m, toServer')
    <3> HIDE DEF m
    <3> QED
      BY <1>2, <2>3, InAppend
  <2>6. Leaving(r) => Leaving(r)'
    BY <2>4, <2>5 DEF Leaving
  <2>7. QED
    BY <1>1, <1>3, <2>1, <2>6, KnownKept
<1>11. CASE Receive
  <2>1. /\ srv' = srv /\ doubtful' = doubtful /\ inbox' = inbox /\ joined' = joined
        /\ cmds' = cmds /\ toServer' = toServer /\ direct # <<>> /\ direct' = Tail(direct)
    BY <1>11 DEF Receive
  <2>2. PICK m \in Word : evs' = Append(evs, m)
                          /\ (Head(direct) \in Confirms(r) <=> m \in Confirms(r))
                          /\ (Head(direct) \in Resets(r) <=> m \in Resets(r))
    <3>1. Head(direct) \in Reply /\ Msg("Connected", None) \in Word
      BY <1>1, <2>1 DEF TypeOK, Word, Event
    <3>2. CASE Head(direct).kind = "Welcome"
      <4>1. Head(direct) = Msg("Welcome", None)
        BY <3>1, <3>2 DEF Reply, Msg
      <4>2. evs' = Append(evs, Msg("Connected", None))
        BY <1>11, <3>2 DEF Receive
      <4>3. /\ Msg("Welcome", None) \in Resets(r) /\ Msg("Connected", None) \in Resets(r)
            /\ Msg("Welcome", None) \notin Confirms(r) /\ Msg("Connected", None) \notin Confirms(r)
        BY DEF Resets, Confirms, Msg
      <4>4. QED
        BY <3>1, <4>1, <4>2, <4>3
    <3>3. CASE Head(direct).kind # "Welcome"
      BY <1>11, <3>1, <3>3 DEF Receive, Word
    <3>4. QED
      BY <3>2, <3>3
  <2>3. Known(r) => Known(r)'
    <3> SUFFICES ASSUME Known(r) PROVE Known(r)'
      OBVIOUS
    <3> DEFINE b == r \in joined
    <3>1. Line(direct, evs, inbox, Confirms(r), Resets(r), b) /\ b \in BOOLEAN
      BY DEF Known
    <3>2. Line(Tail(direct), Append(evs, m), inbox, Confirms(r), Resets(r), b)
      <4> HIDE DEF b
      <4> QED
        BY <1>2, <2>1, <2>2, <3>1, LineReceive
    <3>3. QED
      BY <2>1, <2>2, <3>2 DEF Known
  <2>4. QED
    BY <1>1, <1>3, <2>1, <2>3 DEF Leaving
<1>12. CASE Reconnect \/ ConnectOk \/ ConnectFail \/ Drop \/ DropAtWelcome
  <2>1. srv' = {}
    BY <1>1, <1>12 DEF Reconnect, ConnectOk, ConnectFail, Drop, DropAtWelcome, LoseLink, Linked
  <2>2. QED
    BY <2>1
<1>13. ASSUME NEW q \in Room, ServeJoin(q) \/ RefuseJoin(q) \/ ServeLeave(q)
       PROVE  Accounted(r)'
  <2>1. /\ evs' = evs /\ inbox' = inbox /\ joined' = joined /\ cmds' = cmds
        /\ toServer # <<>> /\ toServer' = Tail(toServer)
    BY <1>13 DEF ServeJoin, RefuseJoin, ServeLeave, Serving
  <2>2. Leaving(r) => Leaving(r)' \/ Head(toServer) = Msg("LeaveRoom", r)
    <3> DEFINE m == Msg("LeaveRoom", r)
    <3>1. In(m, toServer) => m = Head(toServer) \/ In(m, Tail(toServer))
      <4> HIDE DEF m
      <4> QED
        BY <1>2, <2>1, InTail
    <3>2. QED
      BY <2>1, <3>1 DEF Leaving
  <2>3. CASE ServeJoin(q)
    <3>1. Head(toServer) # Msg("LeaveRoom", r) /\ direct' = Append(direct, Msg("RoomJoined", q))
          /\ srv' = srv \cup {q} /\ doubtful' = doubtful \ {q}
          /\ Msg("RoomJoined", q) \in Reply /\ Msg("RoomJoined", q) \notin Resets(r)
      BY <2>3 DEF ServeJoin, Serving, Msg, Reply, Resets
    <3>2. r = q => Known(r)'
      BY <1>1, <2>1, <3>1, KnownSent DEF Confirms
    <3>3. Known(r) => Known(r)'
      BY <1>1, <2>1, <3>1, KnownSent
    <3>4. QED
      BY <1>1, <1>3, <2>2, <3>1, <3>2, <3>3
  <2>4. CASE RefuseJoin(q)
    <3>1. Head(toServer) # Msg("LeaveRoom", r) /\ direct' = Append(direct, Msg("JoinRejected", q))
          /\ srv' = srv /\ Msg("JoinRejected", q) \in Reply
          /\ doubtful' = (IF q \in srv THEN doubtful \cup {q} ELSE doubtful)
          /\ (r # q => Msg("JoinRejected", q) \notin Resets(r))
      BY <2>4 DEF RefuseJoin, Serving, Msg, Reply, Resets
    <3>2. r # q /\ Known(r) => Known(r)'
      BY <1>1, <2>1, <3>1, KnownSent
    <3>3. QED
      BY <1>1, <1>3, <2>2, <3>1, <3>2
  <2>5. CASE ServeLeave(q)
    <3>1. Head(toServer) = Msg("LeaveRoom", q) /\ direct' = direct
          /\ srv' = srv \ {q} /\ doubtful' = doubtful \ {q}
      BY <2>5 DEF ServeLeave, Serving
    <3>2. r # q /\ r \in srv /\ Head(toServer) # Msg("LeaveRoom", r)
      BY <3>1 DEF Msg
    <3>3. Known(r) => Known(r)'
      BY <2>1, <3>1, KnownKept
    <3>4. QED
      BY <1>1, <1>3, <2>2, <3>1, <3>2, <3>3
  <2>6. QED
    BY <1>13, <2>3, <2>4, <2>5
<1>14. CASE UNCHANGED vars
  BY <1>1, <1>3, <1>14, KnownKept DEF vars, Leaving
<1>15. QED
  BY <1>4, <1>5, <1>6, <1>7, <1>8, <1>9, <1>10, <1>11, <1>12, <1>13, <1>14 DEF Next, Update
-----------------------------------------------------------------------------
LEMMA StepIInv == IInv /\ [Next]_vars => IInv'
BY TypeStep, UnlinkedStep, AgreesStep, ToldStep, ShownStep DEF IInv

\* The inductive invariant holds in every behaviour.
THEOREM Invariance == Spec => []IInv
<1>1. Init => IInv
  BY InitIInv
<1>2. IInv /\ [Next]_vars => IInv'
  BY StepIInv
<1>3. QED
  BY <1>1, <1>2, PTL DEF Spec

\* Type correctness: state, rooms and queues keep their types.
THEOREM TypeCorrect == Spec => []TypeOK
<1>1. IInv => TypeOK
  BY DEF IInv
<1>2. QED
  BY <1>1, Invariance, PTL

\* A room the server has the player in is shown by the client, being confirmed,
\* being left, or one of which a second join was refused (leave_room and the
\* handlers of RoomJoined and Connected).
THEOREM HiddenRoomsAreTransient == Spec => []HiddenRoomIsTransient
<1>1. IInv => HiddenRoomIsTransient
  <2> SUFFICES ASSUME IInv, NEW r \in srv
               PROVE  r \in joined \/ Coming(r) \/ Leaving(r) \/ r \in doubtful
    BY DEF HiddenRoomIsTransient
  <2>1. CASE Known(r)
    <3> DEFINE b == r \in joined
    <3>1. Line(direct, evs, inbox, Confirms(r), Resets(r), b) /\ b \in BOOLEAN
      BY <2>1 DEF Known
    <3>2. b \/ \E q \in {direct, evs, inbox} : \E k \in DOMAIN q : q[k] \in Confirms(r)
      <4> HIDE DEF b
      <4> QED
        BY <3>1, LineSaid
    <3>3. QED
      BY <3>2 DEF Coming, In, Confirms
  <2>2. QED
    BY <2>1 DEF IInv, Shown, Accounted
<1>2. QED
  BY <1>1, Invariance, PTL

\* The state that opens the microphone agrees with the confirmed rooms, and with
\* the link once everything on the way has been read (the five handlers that set it).
THEOREM StatesAgree == Spec => []StateAgrees
<1>1. IInv => StateAgrees
  <2> SUFFICES ASSUME IInv PROVE StateAgrees
    OBVIOUS
  <2>1. AtRest => Online
    <3> SUFFICES ASSUME AtRest PROVE Online
      OBVIOUS
    <3>1. Live /\ evs = <<>> /\ inbox = <<>>
      BY DEF IInv, Told, AtRest
    <3> DEFINE c == After(<<>>, Comes, Goes, Online)
    <3>2. Online \in BOOLEAN /\ c \in BOOLEAN
      BY DEF Online, After
    <3>3. After(<<>>, Comes, Goes, c)
      BY <3>1 DEF Live
    <3>4. c
      <4> HIDE DEF c
      <4> QED
        BY <3>2, <3>3, AfterNothing
    <3>5. QED
      BY <3>2, <3>4, AfterNothing
  <2>2. QED
    BY <2>1 DEF IInv, Agrees, StateAgrees, Online
<1>2. QED
  BY <1>1, Invariance, PTL
=============================================================================
