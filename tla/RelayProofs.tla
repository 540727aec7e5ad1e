---------------------------- MODULE RelayProofs ----------------------------
(***************************************************************************)
(* Proofs about Relay for any number of peers and rooms and any channels.  *)
(* What the client will know of a peer is decided by the last event about  *)
(* it that is under way, if there is one; if there is none, by the client's*)
(* list and the rosters under way.                                         *)
(***************************************************************************)
EXTENDS Relay, SequenceTheorems, TLAPS

\* Event e is about p in r.
About(e, r, p) == e.type # "Media" /\ e.room = r /\ e.peer = p
Has(q, r, p) == \E i \in DOMAIN q : About(q[i], r, p)

\* The last event about p in r, if there is one, says whether p is in r.
LastSays(q, r, p, member) ==
  \A i \in DOMAIN q :
    About(q[i], r, p) /\ (\A j \in DOMAIN q : j > i => ~About(q[j], r, p)) =>
      (q[i].type = "PeerJoined" <=> member)

Goodbye(r) == [type |-> "LeaveRoom", room |-> r]
Leaving(r) == \E i \in DOMAIN inbox : inbox[i] = Goodbye(r)

IsRoster(a, r) == a.type = "RoomJoined" /\ a.room = r
Awaited(r) == \E i \in DOMAIN direct : IsRoster(direct[i], r)
Promised(r, p) ==
  \E i \in DOMAIN direct : IsRoster(direct[i], r) /\ p \in direct[i].peers

IsIn(p, r) == p \in Members(r)

\* Of a stay that began with no event under way, and of who came or went.
Current(r, p) ==
  r \in mine /\ (p \in news[r] \/ r \in clean) => LastSays(events, r, p, IsIn(p, r))

\* Nothing about p in r is under way, or was lost.
Known(r, p) ==
  r \in mine /\ ~Leaving(r) /\ ~Has(events, r, p) /\ <<r, p>> \notin lost

Right(r, p) ==
  Known(r, p) /\ p \in news[r] /\ ~Awaited(r) => (p \in told[r] <=> IsIn(p, r))

Listed(r, p) ==
  Known(r, p) /\ r \in clean /\ IsIn(p, r) => p \in told[r] \/ Promised(r, p)

Each(r, p) == Current(r, p) /\ Right(r, p) /\ Listed(r, p)

IInv == TypeOK /\ \A r \in Room, p \in Peer : Each(r, p)
-----------------------------------------------------------------------------
(* Queues of events *)

Event == Membership \cup Media

LEMMA LastAppendAbout ==
  ASSUME NEW q \in Seq(Event), NEW e \in Event, NEW r, NEW p, NEW member \in BOOLEAN,
         About(e, r, p), e.type = "PeerJoined" <=> member
  PROVE  LastSays(Append(q, e), r, p, member) /\ Has(Append(q, e), r, p)
<1> DEFINE s == Append(q, e)
<1>1. /\ DOMAIN s = 1..(Len(q) + 1) /\ Len(q) \in Nat /\ s[Len(q) + 1] = e
  OBVIOUS
<1>2. \A i \in DOMAIN s : i = Len(q) + 1 \/ Len(q) + 1 > i
  BY <1>1
<1>3. Len(q) + 1 \in DOMAIN s
  BY <1>1
<1> HIDE DEF s
<1>4. LastSays(s, r, p, member) /\ Has(s, r, p)
  BY <1>1, <1>2, <1>3 DEF LastSays, Has
<1>5. QED
  BY <1>4 DEF s

LEMMA LastAppendOther ==
  ASSUME NEW q \in Seq(Event), NEW e \in Event, NEW r, NEW p, NEW member \in BOOLEAN,
         ~About(e, r, p), LastSays(q, r, p, member)
  PROVE  LastSays(Append(q, e), r, p, member)
<1> DEFINE s == Append(q, e)
<1>1. /\ DOMAIN s = 1..(Len(q) + 1) /\ DOMAIN q = 1..Len(q) /\ Len(q) \in Nat
      /\ s[Len(q) + 1] = e /\ \A i \in 1..Len(q) : s[i] = q[i]
  OBVIOUS
<1> HIDE DEF s
<1>2. ASSUME NEW i \in DOMAIN s, About(s[i], r, p),
             \A j \in DOMAIN s : j > i => ~About(s[j], r, p)
      PROVE  s[i].type = "PeerJoined" <=> member
  <2>1. i \in DOMAIN q /\ s[i] = q[i]
    BY <1>1, <1>2
  <2>2. \A j \in DOMAIN q : j > i => ~About(q[j], r, p)
    BY <1>1, <1>2
  <2>3. QED
    BY <1>2, <2>1, <2>2 DEF LastSays
<1>3. LastSays(s, r, p, member)
  BY <1>2 DEF LastSays
<1>4. QED
  BY <1>3 DEF s

LEMMA LastTail ==
  ASSUME NEW q \in Seq(Event), q # <<>>, NEW r, NEW p, NEW member \in BOOLEAN,
         LastSays(q, r, p, member)
  PROVE  /\ LastSays(Tail(q), r, p, member)
         /\ About(Head(q), r, p) /\ ~Has(Tail(q), r, p) =>
              (Head(q).type = "PeerJoined" <=> member)
<1> DEFINE s == Tail(q)
<1>1. /\ DOMAIN q = 1..Len(q) /\ DOMAIN s = 1..(Len(q) - 1) /\ Len(q) \in Nat \ {0}
      /\ Head(q) = q[1] /\ \A i \in 1..(Len(q) - 1) : s[i] = q[i + 1]
  OBVIOUS
<1> HIDE DEF s
<1>2. \A j \in DOMAIN q : j > 1 => j - 1 \in DOMAIN s /\ q[j] = s[j - 1]
  BY <1>1
<1>3. ASSUME NEW i \in DOMAIN s, About(s[i], r, p),
             \A j \in DOMAIN s : j > i => ~About(s[j], r, p)
      PROVE  s[i].type = "PeerJoined" <=> member
  <2>1. i + 1 \in DOMAIN q /\ q[i + 1] = s[i]
    BY <1>1
  <2>2. ASSUME NEW j \in DOMAIN q, j > i + 1 PROVE ~About(q[j], r, p)
    <3>1. j > 1 /\ j - 1 > i
      BY <1>1, <2>2
    <3>2. QED
      BY <1>2, <1>3, <3>1
  <2>3. QED
    BY <1>3, <2>1, <2>2 DEF LastSays
<1>4. ASSUME About(Head(q), r, p), ~Has(s, r, p)
      PROVE  Head(q).type = "PeerJoined" <=> member
  <2>1. 1 \in DOMAIN q /\ \A j \in DOMAIN q : j > 1 => ~About(q[j], r, p)
    BY <1>1, <1>2, <1>4 DEF Has
  <2>2. QED
    BY <1>1, <1>4, <2>1 DEF LastSays
<1>5. LastSays(s, r, p, member)
  BY <1>3 DEF LastSays
<1>6. QED
  BY <1>4, <1>5 DEF s

LEMMA HasAppend ==
  ASSUME NEW q \in Seq(Event), NEW e \in Event, NEW r, NEW p, Has(q, r, p)
  PROVE  Has(Append(q, e), r, p)
BY DEF Has

LEMMA HasTail ==
  ASSUME NEW q \in Seq(Event), q # <<>>, NEW r, NEW p, Has(q, r, p)
  PROVE  About(Head(q), r, p) \/ Has(Tail(q), r, p)
<1>1. PICK i \in DOMAIN q : About(q[i], r, p)
  BY DEF Has
<1>2. CASE i = 1
  BY <1>1, <1>2
<1>3. CASE i # 1
  <2>1. i - 1 \in DOMAIN Tail(q) /\ Tail(q)[i - 1] = q[i]
    BY <1>1, <1>3
  <2>2. QED
    BY <1>1, <2>1 DEF Has
<1>4. QED
  BY <1>2, <1>3
-----------------------------------------------------------------------------
(* Types *)

LEMMA EventTypes ==
  /\ \A e \in Event : e.type \in {"PeerJoined", "PeerLeft", "Media"}
  /\ \A e \in Event : e.type # "Media" => e \in Membership /\ e.room \in Room /\ e.peer \in Peer
  /\ \A r \in Room, p \in Peer : [type |-> "PeerJoined", room |-> r, peer |-> p] \in Event
  /\ \A r \in Room, p \in Peer : [type |-> "PeerLeft", room |-> r, peer |-> p] \in Event
  /\ [type |-> "Media"] \in Event
BY DEF Event, Membership, Media

LEMMA MessageTypes ==
  /\ \A q \in Request : q.type = "Ping" \/ (q.type \in {"JoinRoom", "LeaveRoom"} /\ q.room \in Room)
  /\ \A r \in Room, ps \in SUBSET Peer :
       [type |-> "RoomJoined", room |-> r, peers |-> ps] \in Answer
  /\ \A r \in Room : [type |-> "JoinRejected", room |-> r] \in Answer
  /\ Other \in Answer /\ Other.type = "Other"
  /\ \A a \in Answer : a.type = "RoomJoined" => a.room \in Room /\ a.peers \in SUBSET Peer
  /\ \A a \in Answer : a.type \in {"RoomJoined", "JoinRejected", "Other"}
BY DEF Request, Answer, Other

LEMMA TailType ==
  ASSUME NEW S, NEW q \in Seq(S), q # <<>>
  PROVE  /\ Head(q) \in S /\ Tail(q) \in Seq(S)
         /\ Len(Tail(q)) = Len(q) - 1 /\ Len(q) \in Nat \ {0}
OBVIOUS

LEMMA AppendType ==
  ASSUME NEW S, NEW q \in Seq(S), NEW e \in S
  PROVE  Append(q, e) \in Seq(S) /\ Len(Append(q, e)) = Len(q) + 1 /\ Len(q) \in Nat
OBVIOUS

LEMMA BroadcastTypes ==
  ASSUME TypeOK, NEW e \in Event, Broadcast(e)
  PROVE  events' \in Seq(Event) /\ Len(events') <= EventCap /\ lost' \subseteq Room \X Peer
<1>1. events \in Seq(Event) /\ Len(events) <= EventCap /\ lost \subseteq Room \X Peer
      /\ EventCap \in Nat \ {0}
  BY RelayAssumption DEF TypeOK, Event
<1>2. CASE Len(events) < EventCap
  BY <1>1, <1>2, AppendType DEF Broadcast
<1>3. CASE ~(Len(events) < EventCap)
  <2>1. events # <<>> /\ Len(events) = EventCap
    BY <1>1, <1>3
  <2>2. Tail(events) \in Seq(Event) /\ Head(events) \in Event
        /\ Len(Tail(events)) = EventCap - 1
    BY <1>1, <2>1, TailType
  <2>3. /\ events' = Append(Tail(events), e)
        /\ lost' = lost \cup (Subject(Head(events)) \cap (mine \X Peer))
    BY <1>3 DEF Broadcast
  <2>4. mine \X Peer \subseteq Room \X Peer
    BY DEF TypeOK
  <2>5. events' \in Seq(Event) /\ Len(events') = EventCap
    BY <1>1, <2>2, <2>3, AppendType
  <2>6. QED
    BY <1>1, <2>3, <2>4, <2>5
<1>4. QED
  BY <1>2, <1>3

LEMMA SendTypes ==
  ASSUME TypeOK, NEW a \in Answer, TrySend(a)
  PROVE  direct' \in Seq(Answer) /\ Len(direct') <= DirectCap
<1>1. direct \in Seq(Answer) /\ Len(direct) <= DirectCap /\ DirectCap \in Nat \ {0}
  BY RelayAssumption DEF TypeOK
<1>2. CASE Fits
  BY <1>1, <1>2, AppendType DEF TrySend, Fits
<1>3. CASE ~Fits
  BY <1>1, <1>3 DEF TrySend
<1>4. QED
  BY <1>2, <1>3

LEMMA ReceivedTypes ==
  ASSUME TypeOK, NEW type, Received(type)
  PROVE  /\ Head(inbox) \in Request /\ Head(inbox).type = type
         /\ inbox' \in Seq(Request) /\ Len(inbox') <= Pending
<1>1. inbox \in Seq(Request) /\ Len(inbox) <= Pending /\ Pending \in Nat /\ inbox # <<>>
  BY RelayAssumption DEF TypeOK, Received
<1>2. QED
  BY <1>1, TailType DEF Received

LEMMA TypeStep ==
  ASSUME TypeOK, [Next]_vars
  PROVE  TypeOK'
<1> USE DEF channels, histories, client
<1>0. events \in Seq(Event) /\ Event = Membership \cup Media
  BY DEF TypeOK, Event
<1>1. ASSUME NEW p \in Peer, NEW r \in Room, PeerJoins(p, r) PROVE TypeOK'
  <2>1. theirs' \in [Peer -> SUBSET Room] /\ news' \in [Room -> SUBSET Peer]
    BY <1>1 DEF TypeOK, PeerJoins
  <2>2. events' \in Seq(Event) /\ Len(events') <= EventCap /\ lost' \subseteq Room \X Peer
    BY <1>0, <1>1, EventTypes, BroadcastTypes DEF TypeOK, PeerJoins
  <2>3. QED
    BY <1>0, <1>1, <2>1, <2>2 DEF TypeOK, PeerJoins
<1>2. ASSUME NEW p \in Peer, NEW r \in Room, PeerLeaves(p, r) PROVE TypeOK'
  <2>1. theirs' \in [Peer -> SUBSET Room] /\ news' \in [Room -> SUBSET Peer]
    BY <1>2 DEF TypeOK, PeerLeaves
  <2>2. events' \in Seq(Event) /\ Len(events') <= EventCap /\ lost' \subseteq Room \X Peer
    BY <1>0, <1>2, EventTypes, BroadcastTypes DEF TypeOK, PeerLeaves
  <2>3. QED
    BY <1>0, <1>2, <2>1, <2>2 DEF TypeOK, PeerLeaves
<1>3. ASSUME NEW p \in Peer, PeerMoves(p) \/ \E r \in Room : PeerSpeaks(p, r) PROVE TypeOK'
  <2>1. Broadcast([type |-> "Media"])
        /\ UNCHANGED <<open, mine, theirs, inbox, checked, direct, client, news, clean>>
    BY <1>3 DEF PeerMoves, PeerSpeaks
  <2>2. events' \in Seq(Event) /\ Len(events') <= EventCap /\ lost' \subseteq Room \X Peer
    BY <2>1, EventTypes, BroadcastTypes
  <2>3. QED
    BY <1>0, <2>1, <2>2 DEF TypeOK
<1>4. ASSUME NEW req \in Request, Ask(req) PROVE TypeOK'
  <2>1. inbox' \in Seq(Request) /\ Len(inbox') <= Pending
    BY <1>4, RelayAssumption, AppendType DEF TypeOK, Ask
  <2>2. joined' \subseteq Room /\ told' \in [Room -> SUBSET Peer]
    BY <1>4 DEF TypeOK, Ask, Forgets
  <2>3. QED
    BY <1>4, <2>1, <2>2 DEF TypeOK, Ask
<1>5. ASSUME JoinRoom PROVE TypeOK'
  <2> DEFINE r == Head(inbox).room
             a == [type |-> "RoomJoined", room |-> r, peers |-> Members(r)]
  <2>1. r \in Room /\ inbox' \in Seq(Request) /\ Len(inbox') <= Pending
    BY <1>5, ReceivedTypes, MessageTypes DEF JoinRoom
  <2>2. a \in Answer /\ TrySend(a)
    <3>1. Members(r) \in SUBSET Peer
      BY DEF Members
    <3>2. QED
      BY <1>5, <2>1, <3>1, MessageTypes DEF JoinRoom
  <2> HIDE DEF a
  <2>3. direct' \in Seq(Answer) /\ Len(direct') <= DirectCap
    BY <2>2, SendTypes
  <2>4. mine' = mine \cup {r} /\ checked' = FALSE
        /\ UNCHANGED <<open, theirs, events, joined, told>>
    BY <1>5 DEF JoinRoom
  <2>5. lost' \subseteq Room \X Peer
    BY <1>5, <2>1 DEF JoinRoom, TypeOK
  <2>6. news' \in [Room -> SUBSET Peer] /\ clean' \subseteq Room
    BY <1>5, <2>1 DEF JoinRoom, TypeOK
  <2> HIDE DEF r
  <2>7. QED
    BY <2>1, <2>3, <2>4, <2>5, <2>6 DEF TypeOK
<1>6. ASSUME LeaveRoom PROVE TypeOK'
  <2>1. inbox' \in Seq(Request) /\ Len(inbox') <= Pending
    BY <1>6, ReceivedTypes DEF LeaveRoom
  <2>2. news' \in [Room -> SUBSET Peer] /\ lost' \subseteq Room \X Peer
        /\ clean' \subseteq Room /\ mine' \subseteq Room
    BY <1>6 DEF TypeOK, LeaveRoom
  <2>3. QED
    BY <1>6, <2>1, <2>2 DEF TypeOK, LeaveRoom
<1>7. ASSUME Ping PROVE TypeOK'
  <2>1. inbox' \in Seq(Request) /\ Len(inbox') <= Pending
    BY <1>7, ReceivedTypes DEF Ping
  <2>2. direct' \in Seq(Answer) /\ Len(direct') <= DirectCap
    BY <1>7, SendTypes, MessageTypes DEF Ping
  <2>3. QED
    BY <1>7, <2>1, <2>2 DEF TypeOK, Ping
<1>8. ASSUME WriteEvent PROVE TypeOK'
  <2>1. Head(events) \in Event /\ events' \in Seq(Event) /\ Len(events') <= EventCap
    BY <1>0, <1>8, RelayAssumption, TailType DEF WriteEvent, TypeOK
  <2>2. told' \in [Room -> SUBSET Peer] /\ lost' \subseteq Room \X Peer
    BY <1>8, <2>1, EventTypes DEF WriteEvent, TypeOK
  <2>3. QED
    BY <1>0, <1>8, <2>1, <2>2 DEF TypeOK, WriteEvent
<1>9. ASSUME WriteDirect PROVE TypeOK'
  <2>1. Head(direct) \in Answer /\ direct' \in Seq(Answer) /\ Len(direct') <= DirectCap
    BY <1>9, RelayAssumption, TailType DEF WriteDirect, TypeOK
  <2>2. /\ joined' \subseteq Room /\ told' \in [Room -> SUBSET Peer]
        /\ news' \in [Room -> SUBSET Peer] /\ lost' \subseteq Room \X Peer
    <3> DEFINE a == Head(direct)
    <3>1. /\ joined \subseteq Room /\ told \in [Room -> SUBSET Peer]
          /\ news \in [Room -> SUBSET Peer] /\ lost \subseteq Room \X Peer
      BY DEF TypeOK
    <3>2. CASE a.type = "RoomJoined"
      <4>1. a.room \in Room /\ a.peers \in SUBSET Peer
        BY <2>1, <3>2, MessageTypes
      <4>2. TakeRoster(a.room, a.peers)
        BY <1>9, <3>2 DEF WriteDirect
      <4> HIDE DEF a
      <4>3. QED
        BY <3>1, <4>1, <4>2 DEF TakeRoster
    <3>3. CASE a.type = "JoinRejected"
      <4>1. TakeRefusal(a.room)
        BY <1>9, <3>3 DEF WriteDirect
      <4>2. Shown \subseteq Room \X Peer /\ Nobody \in [Room -> SUBSET Peer]
        BY DEF TypeOK, Shown, Nobody
      <4> HIDE DEF a
      <4>3. QED
        BY <3>1, <4>1, <4>2 DEF TakeRefusal
    <3>4. CASE a.type \notin {"RoomJoined", "JoinRejected"}
      BY <1>9, <3>1, <3>4 DEF WriteDirect
    <3>5. QED
      BY <3>2, <3>3, <3>4
  <2>3. QED
    BY <1>9, <2>1, <2>2 DEF TypeOK, WriteDirect
<1>10. ASSUME Close PROVE TypeOK'
  <2>1. /\ inbox' \in Seq(Request) /\ Len(inbox') <= Pending
        /\ direct' \in Seq(Answer) /\ Len(direct') <= DirectCap
        /\ events' \in Seq(Event) /\ Len(events') <= EventCap
    BY <1>10, RelayAssumption DEF Close
  <2>2. /\ joined' \subseteq Room /\ told' \in [Room -> SUBSET Peer] /\ mine' \subseteq Room
        /\ news' \in [Room -> SUBSET Peer] /\ lost' \subseteq Room \X Peer /\ clean' \subseteq Room
    BY <1>10 DEF Close, Nobody
  <2>3. QED
    BY <1>0, <1>10, <2>1, <2>2 DEF TypeOK, Close
<1>11. ASSUME UNCHANGED vars PROVE TypeOK'
  BY <1>11 DEF TypeOK, vars
<1>12. ASSUME Validate PROVE TypeOK'
  <2>1. direct' \in Seq(Answer) /\ Len(direct') <= DirectCap
    BY <1>12, SendTypes, MessageTypes DEF Validate
  <2>2. QED
    BY <1>12, <2>1 DEF TypeOK, Validate
<1>13. ASSUME RefuseJoin PROVE TypeOK'
  <2>1. /\ Head(inbox) \in Request /\ Head(inbox).type = "JoinRoom"
        /\ inbox' \in Seq(Request) /\ Len(inbox') <= Pending
    BY <1>13, ReceivedTypes DEF RefuseJoin
  <2>2. [type |-> "JoinRejected", room |-> Head(inbox).room] \in Answer
    BY <2>1, MessageTypes
  <2>3. direct' \in Seq(Answer) /\ Len(direct') <= DirectCap
    BY <1>13, <2>2, SendTypes DEF RefuseJoin
  <2>4. QED
    BY <1>13, <2>1, <2>3 DEF TypeOK, RefuseJoin
<1>14. QED
  BY <1>1, <1>2, <1>3, <1>4, <1>5, <1>6, <1>7, <1>8, <1>9, <1>10, <1>11, <1>12, <1>13 DEF Next
-----------------------------------------------------------------------------
(* What a step does to a member and a room it is not about, and to the queues *)

LEMMA Quiet ==
  ASSUME NEW r \in Room, NEW p \in Peer, Each(r, p),
         r \in mine' => r \in mine,
         Known(r, p)' => Known(r, p),
         LastSays(events, r, p, IsIn(p, r)) => LastSays(events, r, p, IsIn(p, r))',
         IsIn(p, r)' <=> IsIn(p, r),
         p \in news[r]' => p \in news[r],
         r \in clean' => r \in clean,
         p \in told[r]' <=> p \in told[r],
         Awaited(r) => Awaited(r)',
         Promised(r, p) => Promised(r, p)'
  PROVE  Each(r, p)'
BY DEF Each, Current, Right, Listed

LEMMA Unheard ==
  ASSUME NEW r \in Room, NEW p \in Peer, Current(r, p)', ~Known(r, p)'
  PROVE  Each(r, p)'
BY DEF Each, Right, Listed

LEMMA Absent ==
  ASSUME NEW r \in Room, NEW p \in Peer, r \notin mine'
  PROVE  Each(r, p)'
BY DEF Each, Current, Right, Listed, Known

LEMMA BroadcastKeeps ==
  ASSUME TypeOK, NEW e \in Event, Broadcast(e),
         NEW r \in Room, NEW p \in Peer, NEW member \in BOOLEAN
  PROVE  /\ ~About(e, r, p) /\ LastSays(events, r, p, member)
              => LastSays(events', r, p, member)
         /\ About(e, r, p) /\ (e.type = "PeerJoined" <=> member)
              => LastSays(events', r, p, member) /\ Has(events', r, p)
         /\ Has(events, r, p) /\ r \in mine => Has(events', r, p) \/ <<r, p>> \in lost'
         /\ lost \subseteq lost'
<1>1. events \in Seq(Event) /\ Len(events) <= EventCap /\ EventCap \in Nat \ {0}
  BY RelayAssumption DEF TypeOK, Event
<1>2. CASE Len(events) < EventCap
  <2>1. events' = Append(events, e) /\ lost' = lost
    BY <1>2 DEF Broadcast
  <2>2. QED
    BY <1>1, <2>1, LastAppendAbout, LastAppendOther, HasAppend
<1>3. CASE ~(Len(events) < EventCap)
  <2>1. events # <<>>
    BY <1>1, <1>3
  <2>2. /\ events' = Append(Tail(events), e)
        /\ lost' = lost \cup (Subject(Head(events)) \cap (mine \X Peer))
    BY <1>3 DEF Broadcast
  <2>3. Tail(events) \in Seq(Event)
    BY <1>1, <2>1, TailType
  <2>4. LastSays(events, r, p, member) => LastSays(Tail(events), r, p, member)
    BY <1>1, <2>1, LastTail
  <2>5. ~About(e, r, p) /\ LastSays(events, r, p, member) => LastSays(events', r, p, member)
    BY <2>2, <2>3, <2>4, LastAppendOther
  <2>6. About(e, r, p) /\ (e.type = "PeerJoined" <=> member)
          => LastSays(events', r, p, member) /\ Has(events', r, p)
    BY <2>2, <2>3, LastAppendAbout
  <2>7. Has(events, r, p) /\ r \in mine => Has(events', r, p) \/ <<r, p>> \in lost'
    <3>1. Has(events, r, p) => About(Head(events), r, p) \/ Has(Tail(events), r, p)
      BY <1>1, <2>1, HasTail
    <3>2. About(Head(events), r, p) /\ r \in mine => <<r, p>> \in lost'
      BY <2>2 DEF About, Subject
    <3>3. Has(Tail(events), r, p) => Has(events', r, p)
      BY <2>2, <2>3, HasAppend
    <3>4. QED
      BY <3>1, <3>2, <3>3
  <2>8. QED
    BY <2>2, <2>5, <2>6, <2>7
<1>4. QED
  BY <1>2, <1>3

\* A broadcast, about this member and room or not.
LEMMA BroadcastStep ==
  ASSUME TypeOK, NEW e \in Event, Broadcast(e),
         NEW r \in Room, NEW p \in Peer, Each(r, p),
         UNCHANGED <<mine, inbox, direct, told, clean>>,
         IF About(e, r, p) THEN e.type = "PeerJoined" <=> IsIn(p, r)'
         ELSE (IsIn(p, r)' <=> IsIn(p, r)) /\ (p \in news[r]' <=> p \in news[r])
  PROVE  Each(r, p)'
<1>1. IsIn(p, r) \in BOOLEAN /\ IsIn(p, r)' \in BOOLEAN
  BY DEF IsIn
<1> DEFINE in == IsIn(p, r)
           then == IsIn(p, r)'
<1>2. (Leaving(r)' <=> Leaving(r)) /\ (Awaited(r)' <=> Awaited(r)) /\ (Promised(r, p)' <=> Promised(r, p))
  BY DEF Leaving, Awaited, Promised
<1> HIDE DEF in, then
<1>3. CASE About(e, r, p)
  <2>1. LastSays(events', r, p, then) /\ Has(events', r, p)
    <3>1. e.type = "PeerJoined" <=> then
      BY <1>3 DEF then
    <3>2. then \in BOOLEAN
      BY <1>1 DEF then
    <3>3. QED
      BY <1>3, <3>1, <3>2, BroadcastKeeps
  <2>2. LastSays(events, r, p, IsIn(p, r))'
    BY <2>1 DEF then, LastSays, About
  <2>3. Current(r, p)'
    BY <2>2 DEF Current
  <2>4. ~Known(r, p)'
    BY <2>1 DEF Known, Has, About
  <2>5. QED
    BY <2>3, <2>4, Unheard
<1>4. CASE ~About(e, r, p)
  <2>1. IsIn(p, r)' <=> IsIn(p, r)
    BY <1>4
  <2>2. LastSays(events, r, p, in) => LastSays(events', r, p, in)
    BY <1>1, <1>4, BroadcastKeeps DEF in
  <2>3. LastSays(events, r, p, IsIn(p, r)) => LastSays(events, r, p, IsIn(p, r))'
    BY <2>1, <2>2 DEF in, LastSays, About
  <2>4. /\ Has(events, r, p) /\ r \in mine => Has(events', r, p) \/ <<r, p>> \in lost'
        /\ lost \subseteq lost'
    BY <1>1, BroadcastKeeps
  <2>5. Known(r, p)' => Known(r, p)
    BY <1>2, <2>4 DEF Known, Has, About
  <2>6. QED
    BY <1>2, <1>4, <2>1, <2>3, <2>5, Quiet
<1>5. QED
  BY <1>3, <1>4

LEMMA RosterAppend ==
  ASSUME direct \in Seq(Answer), NEW a \in Answer, direct' = Append(direct, a),
         NEW r \in Room, NEW p \in Peer
  PROVE  /\ Awaited(r) => Awaited(r)'
         /\ Promised(r, p) => Promised(r, p)'
         /\ IsRoster(a, r) => Awaited(r)'
         /\ IsRoster(a, r) /\ p \in a.peers => Promised(r, p)'
<1>1. /\ DOMAIN direct' = 1..(Len(direct) + 1) /\ DOMAIN direct = 1..Len(direct)
      /\ Len(direct) \in Nat /\ direct'[Len(direct) + 1] = a
      /\ \A i \in 1..Len(direct) : direct'[i] = direct[i]
  OBVIOUS
<1>2. Len(direct) + 1 \in DOMAIN direct' /\ \A i \in DOMAIN direct : i \in DOMAIN direct'
  BY <1>1
<1>3. QED
  BY <1>1, <1>2 DEF Awaited, Promised, IsRoster

LEMMA RosterTail ==
  ASSUME direct \in Seq(Answer), direct # <<>>, direct' = Tail(direct),
         NEW r \in Room, NEW p \in Peer
  PROVE  /\ Awaited(r) => IsRoster(Head(direct), r) \/ Awaited(r)'
         /\ Promised(r, p) =>
              (IsRoster(Head(direct), r) /\ p \in Head(direct).peers) \/ Promised(r, p)'
<1>1. /\ DOMAIN direct = 1..Len(direct) /\ DOMAIN direct' = 1..(Len(direct) - 1)
      /\ Len(direct) \in Nat \ {0} /\ Head(direct) = direct[1]
      /\ \A i \in 1..(Len(direct) - 1) : direct'[i] = direct[i + 1]
  OBVIOUS
<1>2. \A i \in DOMAIN direct :
        i = 1 \/ (i - 1 \in DOMAIN direct' /\ direct'[i - 1] = direct[i])
  BY <1>1
<1>3. QED
  BY <1>1, <1>2 DEF Awaited, Promised, IsRoster

LEMMA SendStep ==
  ASSUME TypeOK, NEW a \in Answer, TrySend(a), NEW r \in Room, NEW p \in Peer
  PROVE  /\ Awaited(r) => Awaited(r)'
         /\ Promised(r, p) => Promised(r, p)'
         /\ Fits /\ IsRoster(a, r) => Awaited(r)' /\ (p \in a.peers => Promised(r, p)')
<1>1. direct \in Seq(Answer)
  BY DEF TypeOK
<1>2. CASE Fits
  BY <1>1, <1>2, RosterAppend DEF TrySend
<1>3. CASE ~Fits
  <2>1. direct' = direct
    BY <1>3 DEF TrySend
  <2>2. QED
    BY <1>3, <2>1 DEF Awaited, Promised
<1>4. QED
  BY <1>2, <1>3

LEMMA ReceivedStep ==
  ASSUME TypeOK, NEW type, Received(type), NEW r \in Room, Head(inbox) # Goodbye(r)
  PROVE  Leaving(r) => Leaving(r)'
<1>1. inbox \in Seq(Request) /\ inbox # <<>> /\ inbox' = Tail(inbox)
  BY DEF TypeOK, Received
<1>2. /\ DOMAIN inbox = 1..Len(inbox) /\ DOMAIN inbox' = 1..(Len(inbox) - 1)
      /\ Len(inbox) \in Nat \ {0} /\ Head(inbox) = inbox[1]
      /\ \A i \in 1..(Len(inbox) - 1) : inbox'[i] = inbox[i + 1]
  BY <1>1
<1>3. \A i \in DOMAIN inbox : i = 1 \/ (i - 1 \in DOMAIN inbox' /\ inbox'[i - 1] = inbox[i])
  BY <1>2
<1>4. QED
  BY <1>2, <1>3 DEF Leaving
-----------------------------------------------------------------------------
(* One member and one room through every step *)

LEMMA PeerStep ==
  ASSUME TypeOK, NEW r \in Room, NEW p \in Peer, Each(r, p),
         NEW p0 \in Peer, NEW r0 \in Room, PeerJoins(p0, r0) \/ PeerLeaves(p0, r0)
  PROVE  Each(r, p)'
<1>1. PICK type \in {"PeerJoined", "PeerLeft"} :
        /\ theirs' = [theirs EXCEPT ![p0] =
                        IF type = "PeerJoined" THEN @ \cup {r0} ELSE @ \ {r0}]
        /\ IF r0 \in mine
           THEN /\ Broadcast([type |-> type, room |-> r0, peer |-> p0])
                /\ news' = [news EXCEPT ![r0] = @ \cup {p0}]
           ELSE UNCHANGED <<events, lost, news>>
        /\ UNCHANGED <<mine, inbox, direct, told, clean>>
  <2>1. CASE PeerJoins(p0, r0)
    BY <2>1 DEF PeerJoins, client
  <2>2. CASE PeerLeaves(p0, r0)
    BY <2>2 DEF PeerLeaves, client
  <2>3. QED
    BY <2>1, <2>2
<1>2. theirs \in [Peer -> SUBSET Room] /\ news \in [Room -> SUBSET Peer]
  BY DEF TypeOK
<1>3. /\ r = r0 /\ p = p0 => (IsIn(p, r)' <=> type = "PeerJoined")
      /\ ~(r = r0 /\ p = p0) => (IsIn(p, r)' <=> IsIn(p, r))
  BY <1>1, <1>2 DEF IsIn, Members
<1>4. CASE r0 \in mine
  <2> DEFINE e == [type |-> type, room |-> r0, peer |-> p0]
  <2>1. e \in Event /\ e.type = type /\ (About(e, r, p) <=> r = r0 /\ p = p0)
    BY EventTypes DEF About
  <2>2. Broadcast(e)
    BY <1>1, <1>4
  <2>3. ~About(e, r, p) => (p \in news[r]' <=> p \in news[r])
    BY <1>1, <1>2, <1>4, <2>1
  <2> HIDE DEF e
  <2>4. UNCHANGED <<mine, inbox, direct, told, clean>>
    BY <1>1
  <2>5. IF About(e, r, p) THEN e.type = "PeerJoined" <=> IsIn(p, r)'
        ELSE (IsIn(p, r)' <=> IsIn(p, r)) /\ (p \in news[r]' <=> p \in news[r])
    BY <1>3, <2>1, <2>3
  <2>6. QED
    BY <2>1, <2>2, <2>4, <2>5, BroadcastStep
<1>5. CASE r0 \notin mine
  <2>1. CASE r = r0
    BY <1>1, <1>5, <2>1, Absent
  <2>2. CASE r # r0
    <3>1. UNCHANGED <<mine, inbox, direct, told, clean, events, lost, news>>
      BY <1>1, <1>5
    <3>2. IsIn(p, r)' <=> IsIn(p, r)
      BY <1>3, <2>2
    <3>3. LastSays(events, r, p, IsIn(p, r)) => LastSays(events, r, p, IsIn(p, r))'
      BY <3>1, <3>2 DEF LastSays, About
    <3>4. /\ Known(r, p)' <=> Known(r, p)
          /\ Awaited(r)' <=> Awaited(r)
          /\ Promised(r, p)' <=> Promised(r, p)
      BY <3>1 DEF Known, Leaving, Has, About, Awaited, Promised
    <3>5. QED
      BY <3>1, <3>2, <3>3, <3>4, Quiet
  <2>3. QED
    BY <2>1, <2>2
<1>6. QED
  BY <1>4, <1>5

LEMMA MediaStep ==
  ASSUME TypeOK, NEW r \in Room, NEW p \in Peer, Each(r, p),
         NEW p0 \in Peer, PeerMoves(p0) \/ \E r0 \in Room : PeerSpeaks(p0, r0)
  PROVE  Each(r, p)'
<1> DEFINE e == [type |-> "Media"]
<1>1. Broadcast(e) /\ UNCHANGED <<mine, theirs, inbox, direct, told, clean, news>>
  BY DEF PeerMoves, PeerSpeaks, client
<1>2. e \in Event /\ ~About(e, r, p)
  BY EventTypes DEF About
<1>3. IsIn(p, r)' <=> IsIn(p, r)
  BY <1>1 DEF IsIn, Members
<1> HIDE DEF e
<1>4. QED
  BY <1>1, <1>2, <1>3, BroadcastStep

LEMMA AskStep ==
  ASSUME TypeOK, NEW r \in Room, NEW p \in Peer, Each(r, p), NEW req \in Request, Ask(req)
  PROVE  Each(r, p)'
<1>1. /\ inbox \in Seq(Request) /\ inbox' = Append(inbox, req)
      /\ Forgets(IF req.type = "LeaveRoom" THEN {req.room} ELSE {})
      /\ UNCHANGED <<mine, theirs, direct, events, news, lost, clean>>
  BY DEF Ask, TypeOK, histories
<1>2. (IsIn(p, r)' <=> IsIn(p, r)) /\ (Awaited(r)' <=> Awaited(r))
      /\ (Promised(r, p)' <=> Promised(r, p)) /\ (Has(events, r, p)' <=> Has(events, r, p))
  BY <1>1 DEF IsIn, Members, Awaited, Promised, Has, About
<1>3. LastSays(events, r, p, IsIn(p, r))' <=> LastSays(events, r, p, IsIn(p, r))
  BY <1>1, <1>2 DEF LastSays, About
<1>4. CASE req.type = "LeaveRoom" /\ req.room = r
  <2>1. req = Goodbye(r)
    BY <1>4 DEF Request, Goodbye
  <2>2. Len(inbox) + 1 \in DOMAIN inbox' /\ inbox'[Len(inbox) + 1] = req
    BY <1>1
  <2>3. ~Known(r, p)'
    BY <2>1, <2>2 DEF Known, Leaving, Goodbye
  <2>4. Current(r, p)'
    BY <1>1, <1>3 DEF Current, Each
  <2>5. QED
    BY <2>3, <2>4, Unheard
<1>5. CASE ~(req.type = "LeaveRoom" /\ req.room = r)
  <2>1. told'[r] = told[r]
    BY <1>1, <1>5 DEF Forgets
  <2>2. Leaving(r) => Leaving(r)'
    BY <1>1 DEF Leaving, Goodbye
  <2>3. Known(r, p)' => Known(r, p)
    BY <1>1, <1>2, <2>2 DEF Known
  <2>4. QED
    BY <1>1, <1>2, <1>3, <2>1, <2>3, Quiet
<1>6. QED
  BY <1>4, <1>5

LEMMA JoinRoomStep ==
  ASSUME TypeOK, NEW r \in Room, NEW p \in Peer, Each(r, p), JoinRoom
  PROVE  Each(r, p)'
<1> DEFINE r0 == Head(inbox).room
           a == [type |-> "RoomJoined", room |-> r0, peers |-> Members(r0)]
<1>1. /\ Received("JoinRoom") /\ r0 \in Room
      /\ TrySend(a) /\ mine' = mine \cup {r0}
      /\ lost' = IF Fits THEN lost \ ({r0} \X Peer) ELSE lost \cup ({r0} \X Peer)
      /\ IF r0 \in mine THEN UNCHANGED <<news, clean>>
         ELSE /\ news' = [news EXCEPT ![r0] = {}]
              /\ clean' = IF UnderWay(r0) THEN clean \ {r0} ELSE clean \cup {r0}
      /\ UNCHANGED <<theirs, events, told>>
  BY ReceivedTypes, MessageTypes DEF JoinRoom, client
<1>2. a \in Answer /\ (IsRoster(a, r) <=> r = r0) /\ a.peers = Members(r0)
  <2>1. Members(r0) \in SUBSET Peer
    BY DEF Members
  <2>2. QED
    BY <1>1, <2>1, MessageTypes DEF IsRoster
<1>3. Head(inbox) # Goodbye(r)
  BY <1>1, ReceivedTypes DEF Goodbye
<1> HIDE DEF a
<1>4. /\ Awaited(r) => Awaited(r)'
      /\ Promised(r, p) => Promised(r, p)'
      /\ Fits /\ IsRoster(a, r) => Awaited(r)' /\ (p \in a.peers => Promised(r, p)')
  BY <1>1, <1>2, SendStep
<1>5. Leaving(r) => Leaving(r)'
  BY <1>1, <1>3, ReceivedStep
<1>6. (IsIn(p, r)' <=> IsIn(p, r)) /\ (Has(events, r, p)' <=> Has(events, r, p))
  BY <1>1 DEF IsIn, Members, Has, About
<1>7. LastSays(events, r, p, IsIn(p, r))' <=> LastSays(events, r, p, IsIn(p, r))
  BY <1>1, <1>6 DEF LastSays, About
<1>8. news \in [Room -> SUBSET Peer] /\ events \in Seq(Event)
  BY DEF TypeOK, Event
<1> HIDE DEF r0
<1>9. CASE r # r0
  <2>1. /\ r \in mine' => r \in mine
        /\ news'[r] = news[r] /\ (r \in clean' => r \in clean)
        /\ <<r, p>> \in lost => <<r, p>> \in lost'
    BY <1>1, <1>8, <1>9
  <2>2. Known(r, p)' => Known(r, p)
    BY <1>5, <1>6, <2>1 DEF Known
  <2>3. QED
    BY <1>1, <1>4, <1>6, <1>7, <2>1, <2>2, Quiet
<1>10. CASE r = r0
  <2>1. Current(r, p)'
    <3>1. CASE r \in mine
      BY <1>1, <1>7, <1>10, <3>1 DEF Each, Current
    <3>2. CASE r \notin mine
      <4>1. news'[r] = {} /\ (r \in clean' => ~UnderWay(r))
        BY <1>1, <1>8, <1>10, <3>2
      <4>2. ~UnderWay(r) => LastSays(events, r, p, IsIn(p, r))
        BY <1>8, EventTypes DEF UnderWay, LastSays, About
      <4>3. QED
        BY <1>7, <4>1, <4>2 DEF Current
    <3>3. QED
      BY <3>1, <3>2
  <2>2. CASE Fits
    <3>1. Awaited(r)' /\ (IsIn(p, r) => Promised(r, p)')
      BY <1>2, <1>4, <1>10, <2>2 DEF IsIn
    <3>2. QED
      BY <1>6, <2>1, <3>1 DEF Each, Right, Listed
  <2>3. CASE ~Fits
    <3>1. <<r, p>> \in lost'
      BY <1>1, <1>10, <2>3
    <3>2. QED
      BY <2>1, <3>1, Unheard DEF Known
  <2>4. QED
    BY <2>2, <2>3
<1>11. QED
  BY <1>9, <1>10

LEMMA LeaveRoomStep ==
  ASSUME TypeOK, NEW r \in Room, NEW p \in Peer, Each(r, p), LeaveRoom
  PROVE  Each(r, p)'
<1> DEFINE r0 == Head(inbox).room
<1>1. /\ Received("LeaveRoom") /\ mine' = mine \ {r0} /\ clean' = clean \ {r0}
      /\ news' = [news EXCEPT ![r0] = {}] /\ lost' = lost \ ({r0} \X Peer)
      /\ UNCHANGED <<theirs, direct, events, told>>
  BY DEF LeaveRoom, client
<1>2. CASE r = r0
  BY <1>1, <1>2, Absent
<1>3. CASE r # r0
  <2>1. Leaving(r) => Leaving(r)'
    <3>1. Head(inbox) # Goodbye(r)
      BY <1>3 DEF Goodbye
    <3>2. QED
      BY <1>1, <3>1, ReceivedStep
  <2>2. (IsIn(p, r)' <=> IsIn(p, r)) /\ (Awaited(r)' <=> Awaited(r))
        /\ (Promised(r, p)' <=> Promised(r, p)) /\ (Has(events, r, p)' <=> Has(events, r, p))
    BY <1>1 DEF IsIn, Members, Awaited, Promised, Has, About
  <2>3. LastSays(events, r, p, IsIn(p, r))' <=> LastSays(events, r, p, IsIn(p, r))
    BY <1>1, <2>2 DEF LastSays, About
  <2>4. /\ <<r, p>> \in lost => <<r, p>> \in lost'
        /\ news'[r] = news[r] /\ (r \in mine' => r \in mine) /\ (r \in clean' => r \in clean)
    BY <1>1, <1>3 DEF TypeOK
  <2>5. Known(r, p)' => Known(r, p)
    BY <1>1, <2>1, <2>2, <2>4 DEF Known
  <2>6. QED
    BY <1>1, <2>2, <2>3, <2>4, <2>5, Quiet
<1>4. QED
  BY <1>2, <1>3

\* An answer that is no roster, to a request that is no goodbye.
LEMMA AnswerStep ==
  ASSUME TypeOK, NEW r \in Room, NEW p \in Peer, Each(r, p),
         Validate \/ RefuseJoin \/ Ping
  PROVE  Each(r, p)'
<1>1. /\ \E a \in Answer : TrySend(a)
      /\ UNCHANGED <<mine, theirs, events, told, news, lost, clean>>
  <2>1. CASE Validate
    BY <2>1, MessageTypes DEF Validate, client, histories
  <2>2. CASE RefuseJoin
    BY <2>2, ReceivedTypes, MessageTypes DEF RefuseJoin, client, histories
  <2>3. CASE Ping
    BY <2>3, MessageTypes DEF Ping, client, histories
  <2>4. QED
    BY <2>1, <2>2, <2>3
<1>2. Leaving(r) => Leaving(r)'
  <2>1. CASE Validate
    BY <2>1 DEF Validate, Leaving
  <2>2. ASSUME NEW type \in {"JoinRoom", "Ping"}, Received(type) PROVE Leaving(r) => Leaving(r)'
    <3>1. Head(inbox) # Goodbye(r)
      BY <2>2, ReceivedTypes DEF Goodbye
    <3>2. QED
      BY <2>2, <3>1, ReceivedStep
  <2>3. QED
    BY <2>1, <2>2 DEF RefuseJoin, Ping
<1>3. (Awaited(r) => Awaited(r)') /\ (Promised(r, p) => Promised(r, p)')
  BY <1>1, SendStep
<1>4. (IsIn(p, r)' <=> IsIn(p, r)) /\ (Has(events, r, p)' <=> Has(events, r, p))
  BY <1>1 DEF IsIn, Members, Has, About
<1>5. LastSays(events, r, p, IsIn(p, r))' <=> LastSays(events, r, p, IsIn(p, r))
  BY <1>1, <1>4 DEF LastSays, About
<1>6. Known(r, p)' => Known(r, p)
  BY <1>1, <1>2, <1>4 DEF Known
<1>7. QED
  BY <1>1, <1>3, <1>4, <1>5, <1>6, Quiet

LEMMA WriteEventStep ==
  ASSUME TypeOK, NEW r \in Room, NEW p \in Peer, Each(r, p), WriteEvent
  PROVE  Each(r, p)'
<1> DEFINE e == Head(events)
<1>1. /\ events # <<>> /\ events' = Tail(events)
      /\ told' = CASE e.type = "PeerJoined" -> [told EXCEPT ![e.room] = @ \cup {e.peer}]
                   [] e.type = "PeerLeft"   -> [told EXCEPT ![e.room] = @ \ {e.peer}]
                   [] e.type = "Media"      -> told
      /\ lost' = lost \ Subject(e)
      /\ UNCHANGED <<mine, theirs, inbox, direct, news, clean>>
  BY DEF WriteEvent
<1>2. events \in Seq(Event) /\ told \in [Room -> SUBSET Peer]
  BY DEF TypeOK, Event
<1>3. /\ e \in Event /\ e.type \in {"PeerJoined", "PeerLeft", "Media"}
      /\ e.type # "Media" => e.room \in Room /\ e.peer \in Peer
  BY <1>1, <1>2, EventTypes, TailType
<1>4. /\ IsIn(p, r)' <=> IsIn(p, r)
      /\ Leaving(r)' <=> Leaving(r)
      /\ Awaited(r)' <=> Awaited(r)
      /\ Promised(r, p)' <=> Promised(r, p)
  BY <1>1 DEF IsIn, Members, Leaving, Awaited, Promised
<1> DEFINE in == IsIn(p, r)
<1>5. in \in BOOLEAN
  BY DEF IsIn
<1> HIDE DEF in
<1>6. LastSays(events, r, p, in) =>
        /\ LastSays(Tail(events), r, p, in)
        /\ About(Head(events), r, p) /\ ~Has(Tail(events), r, p) =>
             (Head(events).type = "PeerJoined" <=> in)
  BY <1>1, <1>2, <1>5, LastTail
<1>7. LastSays(events, r, p, IsIn(p, r)) => LastSays(events, r, p, IsIn(p, r))'
  BY <1>1, <1>4, <1>6 DEF in, LastSays, About
<1>8. Current(r, p)'
  BY <1>1, <1>7 DEF Each, Current
<1>9. Has(events, r, p)' <=> Has(Tail(events), r, p)
  BY <1>1 DEF Has, About
<1>10. CASE About(e, r, p)
  <2>1. CASE Has(Tail(events), r, p)
    BY <1>8, <1>9, <2>1, Unheard DEF Known
  <2>2. CASE ~Has(Tail(events), r, p)
    <3>1. e.type \in {"PeerJoined", "PeerLeft"} /\ e.room = r /\ e.peer = p
      BY <1>3, <1>10 DEF About
    <3>2. p \in told'[r] <=> e.type = "PeerJoined"
      <4> HIDE DEF e
      <4>1. CASE e.type = "PeerJoined"
        BY <1>1, <1>2, <3>1, <4>1
      <4>2. CASE e.type = "PeerLeft"
        BY <1>1, <1>2, <3>1, <4>2
      <4>3. QED
        BY <3>1, <4>1, <4>2
    <3>3. r \in mine /\ (p \in news[r] \/ r \in clean) => (p \in told'[r] <=> IsIn(p, r))
      BY <1>6, <1>10, <2>2, <3>2 DEF Each, Current, in
    <3>4. Right(r, p)' /\ Listed(r, p)'
      BY <1>1, <1>4, <3>3 DEF Right, Listed, Known
    <3>5. QED
      BY <1>8, <3>4 DEF Each
  <2>3. QED
    BY <2>1, <2>2
<1>11. CASE ~About(e, r, p)
  <2>1. Has(events, r, p) => Has(Tail(events), r, p)
    BY <1>1, <1>2, <1>11, HasTail
  <2>2. <<r, p>> \in lost => <<r, p>> \in lost'
    BY <1>1, <1>3, <1>11 DEF About, Subject
  <2>3. p \in told'[r] <=> p \in told[r]
    <3> HIDE DEF e
    <3>1. CASE e.type = "PeerJoined"
      BY <1>1, <1>2, <1>3, <1>11, <3>1 DEF About
    <3>2. CASE e.type = "PeerLeft"
      BY <1>1, <1>2, <1>3, <1>11, <3>2 DEF About
    <3>3. CASE e.type = "Media"
      BY <1>1, <3>3
    <3>4. QED
      BY <1>3, <3>1, <3>2, <3>3
  <2>4. Known(r, p)' => Known(r, p)
    BY <1>1, <1>4, <1>9, <2>1, <2>2 DEF Known
  <2>5. QED
    BY <1>1, <1>4, <1>7, <2>3, <2>4, Quiet
<1>12. QED
  BY <1>10, <1>11

LEMMA WriteDirectStep ==
  ASSUME TypeOK, NEW r \in Room, NEW p \in Peer, Each(r, p), WriteDirect
  PROVE  Each(r, p)'
<1> DEFINE m == Head(direct)
<1>1. /\ direct # <<>> /\ direct' = Tail(direct)
      /\ CASE m.type = "RoomJoined"   -> TakeRoster(m.room, m.peers)
           [] m.type = "JoinRejected" -> TakeRefusal(m.room)
           [] OTHER                   -> UNCHANGED <<client, news, lost>>
      /\ UNCHANGED <<mine, theirs, inbox, events, clean>>
  BY DEF WriteDirect
<1>2. direct \in Seq(Answer) /\ told \in [Room -> SUBSET Peer] /\ news \in [Room -> SUBSET Peer]
  BY DEF TypeOK
<1>3. m \in Answer /\ (m.type = "RoomJoined" => m.room \in Room)
  BY <1>1, <1>2, TailType, MessageTypes
<1>4. /\ Awaited(r) => IsRoster(m, r) \/ Awaited(r)'
      /\ Promised(r, p) => (IsRoster(m, r) /\ p \in m.peers) \/ Promised(r, p)'
  BY <1>1, <1>2, RosterTail
<1> HIDE DEF m
<1>5. (IsIn(p, r)' <=> IsIn(p, r)) /\ (Has(events, r, p)' <=> Has(events, r, p))
      /\ (Leaving(r)' <=> Leaving(r))
  BY <1>1 DEF IsIn, Members, Has, About, Leaving
<1>6. LastSays(events, r, p, IsIn(p, r))' <=> LastSays(events, r, p, IsIn(p, r))
  BY <1>1, <1>5 DEF LastSays, About
<1>7. CASE IsRoster(m, r)
  <2>1. TakeRoster(r, m.peers)
    BY <1>1, <1>7 DEF IsRoster
  <2>2. /\ news'[r] = {} /\ told'[r] = told[r] \cup m.peers
        /\ <<r, p>> \in lost => <<r, p>> \in lost' \/ p \in m.peers
    BY <1>2, <2>1 DEF TakeRoster
  <2>3. Current(r, p)' /\ Right(r, p)'
    BY <1>1, <1>6, <2>2 DEF Each, Current, Right
  <2>4. Listed(r, p)'
    <3>1. CASE p \in m.peers
      BY <2>2, <3>1 DEF Listed
    <3>2. CASE p \notin m.peers
      BY <1>1, <1>4, <1>5, <2>2, <3>2 DEF Each, Listed, Known
    <3>3. QED
      BY <3>1, <3>2
  <2>5. QED
    BY <2>3, <2>4 DEF Each
<1>8. CASE ~IsRoster(m, r) /\ told'[r] = told[r] /\ (<<r, p>> \in lost => <<r, p>> \in lost')
           /\ news'[r] = news[r]
  <2>1. Known(r, p)' => Known(r, p)
    BY <1>1, <1>5, <1>8 DEF Known
  <2>2. QED
    BY <1>1, <1>4, <1>5, <1>6, <1>8, <2>1, Quiet
<1>9. CASE m.type = "RoomJoined" /\ ~IsRoster(m, r)
  <2>1. m.room \in Room /\ m.room # r /\ TakeRoster(m.room, m.peers)
    BY <1>1, <1>3, <1>9 DEF IsRoster
  <2>2. told'[r] = told[r] /\ (<<r, p>> \in lost => <<r, p>> \in lost') /\ news'[r] = news[r]
    BY <1>2, <2>1 DEF TakeRoster
  <2>3. QED
    BY <1>8, <1>9, <2>2
<1>10. CASE m.type = "JoinRejected"
  <2>1. ~IsRoster(m, r) /\ TakeRefusal(m.room)
    BY <1>1, <1>10 DEF IsRoster
  <2>2. CASE r \in mine /\ p \in told[r] /\ <<r, p>> \in lost'
    <3>1. Current(r, p)'
      BY <1>1, <1>6, <2>1 DEF Each, Current, TakeRefusal
    <3>2. QED
      BY <2>2, <3>1, Unheard DEF Known
  <2>3. CASE r \notin mine
    BY <1>1, <2>3, Absent
  <2>4. CASE joined' # {}
    BY <1>8, <2>1, <2>4 DEF TakeRefusal
  <2>5. CASE joined' = {} /\ r \in mine
    <3>1. told'[r] = {} /\ lost' = lost \cup Shown /\ news' = news
      BY <2>1, <2>5 DEF TakeRefusal, Nobody
    <3>2. CASE p \in told[r]
      <4>1. <<r, p>> \in Shown
        BY <2>5, <3>2 DEF Shown
      <4>2. QED
        BY <2>2, <2>5, <3>1, <3>2, <4>1
    <3>3. CASE p \notin told[r]
      <4>1. (p \in told[r]' <=> p \in told[r]) /\ (<<r, p>> \in lost => <<r, p>> \in lost')
        BY <3>1, <3>3
      <4>2. Known(r, p)' => Known(r, p)
        BY <1>1, <1>5, <4>1 DEF Known
      <4>3. QED
        BY <1>1, <1>4, <1>5, <1>6, <2>1, <3>1, <4>1, <4>2, Quiet
    <3>4. QED
      BY <3>2, <3>3
  <2>6. QED
    BY <2>3, <2>4, <2>5
<1>11. CASE m.type \notin {"RoomJoined", "JoinRejected"}
  <2>1. ~IsRoster(m, r) /\ UNCHANGED <<told, news, lost>>
    BY <1>1, <1>11 DEF IsRoster, client
  <2>2. QED
    BY <1>8, <2>1
<1>12. QED
  BY <1>7, <1>9, <1>10, <1>11

LEMMA InitIInv == Init => IInv
<1> SUFFICES ASSUME Init PROVE IInv
  OBVIOUS
<1>1. /\ inbox \in Seq(Request) /\ Len(inbox) <= Pending
      /\ direct \in Seq(Answer) /\ Len(direct) <= DirectCap
      /\ events \in Seq(Membership \cup Media) /\ Len(events) <= EventCap
  BY RelayAssumption DEF Init
<1>2. TypeOK
  BY <1>1 DEF Init, TypeOK, Nobody
<1>3. ASSUME NEW r \in Room, NEW p \in Peer PROVE Each(r, p)
  BY DEF Init, Each, Current, Right, Listed, Known
<1>4. QED
  BY <1>2, <1>3 DEF IInv

LEMMA StepIInv == IInv /\ [Next]_vars => IInv'
<1> SUFFICES ASSUME IInv, [Next]_vars PROVE IInv'
  OBVIOUS
<1>1. TypeOK
  BY DEF IInv
<1>2. TypeOK'
  BY <1>1, TypeStep
<1>3. ASSUME NEW r \in Room, NEW p \in Peer PROVE Each(r, p)'
  <2>1. Each(r, p)
    BY DEF IInv
  <2>2. CASE \E p0 \in Peer, r0 \in Room : PeerJoins(p0, r0) \/ PeerLeaves(p0, r0)
    BY <1>1, <2>1, <2>2, PeerStep
  <2>3. CASE \E p0 \in Peer : PeerMoves(p0) \/ \E r0 \in Room : PeerSpeaks(p0, r0)
    BY <1>1, <2>1, <2>3, MediaStep
  <2>4. CASE \E req \in Request : Ask(req)
    BY <1>1, <2>1, <2>4, AskStep
  <2>5. CASE JoinRoom
    BY <1>1, <2>1, <2>5, JoinRoomStep
  <2>6. CASE LeaveRoom
    BY <1>1, <2>1, <2>6, LeaveRoomStep
  <2>7. CASE Validate \/ RefuseJoin \/ Ping
    BY <1>1, <2>1, <2>7, AnswerStep
  <2>8. CASE WriteEvent
    BY <1>1, <2>1, <2>8, WriteEventStep
  <2>9. CASE WriteDirect
    BY <1>1, <2>1, <2>9, WriteDirectStep
  <2>10. CASE Close
    <3>1. r \notin mine'
      BY <2>10 DEF Close
    <3>2. QED
      BY <3>1, Absent
  <2>11. CASE UNCHANGED vars
    BY <2>1, <2>11 DEF vars, channels, client, histories, Each, Current, Right, Listed, Known,
      Leaving, Awaited, Promised, Has, LastSays, About, IsIn, Members, IsRoster, Goodbye
  <2>12. QED
    BY <2>2, <2>3, <2>4, <2>5, <2>6, <2>7, <2>8, <2>9, <2>10, <2>11 DEF Next
<1>4. QED
  BY <1>2, <1>3 DEF IInv
-----------------------------------------------------------------------------
(* The theorems *)

\* Every state of the relay has the types of the server's and the client's
\* structures and the capacities of the channels (handle_socket, register_peer).
THEOREM TypeCorrect == Spec => []TypeOK
<1>1. Init => TypeOK
  BY InitIInv DEF IInv
<1>2. TypeOK /\ [Next]_vars => TypeOK'
  BY TypeStep
<1>3. QED
  BY <1>1, <1>2, PTL DEF Spec

\* What is under way to the client always ends with what is true of a peer that
\* came or went, unless it was dropped (Broadcast, the writer of handle_socket).
THEOREM Invariance == Spec => []IInv
<1>1. QED
  BY InitIInv, StepIInv, PTL DEF Spec

LEMMA NothingUnderWay ==
  ASSUME NEW r \in Room, NEW p \in Peer, Settled(r), <<r, p>> \notin lost
  PROVE  Known(r, p) /\ ~Awaited(r) /\ ~Promised(r, p)
BY DEF Settled, Known, Leaving, Has, Awaited, Promised

\* For any channels, peers and rooms: a client with nothing under way to it lists
\* a peer that came or went since the roster exactly when the peer is a member
\* (join_room, leave_room, out_task, PeerJoined and PeerLeft of manager.rs).
THEOREM ChangesSeen == Spec => []ChangesAreSeen
<1>1. IInv => ChangesAreSeen
  <2> SUFFICES ASSUME IInv, NEW r \in Room, Settled(r), NEW p \in news[r], <<r, p>> \notin lost
               PROVE  p \in told[r] <=> p \in Members(r)
    BY DEF ChangesAreSeen
  <2>1. p \in Peer
    BY DEF IInv, TypeOK
  <2>2. QED
    BY <2>1, NothingUnderWay DEF IInv, Each, Right, IsIn
<1>2. QED
  BY <1>1, Invariance, PTL

\* For any channels, peers and rooms: a client that joined with no old event of the
\* room under way misses no member of whom nothing was dropped (RoomJoined of
\* manager.rs adds to the list).
THEOREM MembersSeen == Spec => []MembersAreSeen
<1>1. IInv => MembersAreSeen
  <2> SUFFICES ASSUME IInv, NEW r \in Room, Settled(r), r \in clean,
                      NEW p \in Members(r), <<r, p>> \notin lost
               PROVE  p \in told[r]
    BY DEF MembersAreSeen
  <2>1. p \in Peer /\ IsIn(p, r)
    BY DEF Members, IsIn
  <2>2. QED
    BY <2>1, NothingUnderWay DEF IInv, Each, Listed
<1>2. QED
  BY <1>1, Invariance, PTL
=============================================================================
