-------------------------- MODULE AutoRoomsProofs --------------------------
(***************************************************************************)
(* Proofs about AutoRooms.  A queue is always looked at from its end: what *)
(* is Going, Silent and LastIsOf after another piece of it follows from    *)
(* the piece and from what was so before.  update() works through events   *)
(* with a recursive function; After is shown to exist, and the invariant   *)
(* to hold at each of its values, by way of a least counterexample.        *)
(***************************************************************************)
EXTENDS AutoRooms, FiniteSetTheorems, SequenceTheorems, WellFoundedInduction, TLAPS

-----------------------------------------------------------------------------
(* Queues *)

LEMMA Concatenation ==
  ASSUME NEW S, NEW q \in Seq(S), NEW p \in Seq(S)
  PROVE  /\ q \o p \in Seq(S) /\ Len(q) \in Nat
         /\ DOMAIN q = 1..Len(q) /\ DOMAIN p = 1..Len(p)
         /\ \A i \in DOMAIN q : i \in DOMAIN (q \o p) /\ (q \o p)[i] = q[i]
         /\ \A i \in DOMAIN p : Len(q) + i \in DOMAIN (q \o p) /\ (q \o p)[Len(q) + i] = p[i]
         /\ \A i \in DOMAIN (q \o p) : i \in Nat /\ (i \in DOMAIN q \/ i - Len(q) \in DOMAIN p)
OBVIOUS

LEMMA StaysAfter ==
  ASSUME NEW S, NEW q \in Seq(S), NEW p \in Seq(S), NEW r
  PROVE  Stays(r, q \o p) <=> Stays(r, q) /\ Stays(r, p)
<1> DEFINE t == q \o p
<1>1. /\ \A i \in DOMAIN q : i \in DOMAIN t /\ t[i] = q[i]
      /\ \A i \in DOMAIN p : Len(q) + i \in DOMAIN t /\ t[Len(q) + i] = p[i]
      /\ \A i \in DOMAIN t : i \in Nat /\ Len(q) \in Nat
      /\ \A i \in DOMAIN t : i \in DOMAIN q \/ i - Len(q) \in DOMAIN p
  BY Concatenation
<1> HIDE DEF t
<1>2. \A i \in DOMAIN t : i = Len(q) + (i - Len(q))
  BY <1>1
<1>3. ASSUME Stays(r, t) PROVE Stays(r, q) /\ Stays(r, p)
  BY <1>1, <1>3 DEF Stays
<1>4. ASSUME Stays(r, q), Stays(r, p) PROVE Stays(r, t)
  BY <1>1, <1>2, <1>4 DEF Stays
<1>5. QED
  BY <1>3, <1>4 DEF t

LEMMA SilentAfter ==
  ASSUME NEW S, NEW q \in Seq(S), NEW p \in Seq(S)
  PROVE  Silent(q \o p) <=> Silent(q) /\ Silent(p)
<1> DEFINE t == q \o p
<1>1. /\ \A i \in DOMAIN q : i \in DOMAIN t /\ t[i] = q[i]
      /\ \A i \in DOMAIN p : Len(q) + i \in DOMAIN t /\ t[Len(q) + i] = p[i]
      /\ \A i \in DOMAIN t : i \in Nat /\ Len(q) \in Nat
      /\ \A i \in DOMAIN t : i \in DOMAIN q \/ i - Len(q) \in DOMAIN p
  BY Concatenation
<1> HIDE DEF t
<1>2. \A i \in DOMAIN t : i = Len(q) + (i - Len(q))
  BY <1>1
<1>3. Silent(t) <=> Silent(q) /\ Silent(p)
  BY <1>1, <1>2 DEF Silent
<1>4. QED
  BY <1>3 DEF t

\* What comes last in the second piece, or in the first if the second has none.
LEMMA LastAfter ==
  ASSUME NEW S, NEW q \in Seq(S), NEW p \in Seq(S), NEW k
  PROVE  LastIsOf(q \o p, k) <=> LastIsOf(p, k) \/ (Silent(p) /\ LastIsOf(q, k))
<1> DEFINE t == q \o p
           n == Len(q)
<1>1. /\ \A i \in DOMAIN q : i \in DOMAIN t /\ t[i] = q[i] /\ i \in Nat /\ i <= n
      /\ \A i \in DOMAIN p : n + i \in DOMAIN t /\ t[n + i] = p[i] /\ i \in Nat /\ i >= 1
      /\ \A i \in DOMAIN t : i \in Nat
      /\ \A i \in DOMAIN t : i \in DOMAIN q \/ i - n \in DOMAIN p
      /\ n \in Nat
  BY Concatenation
<1> HIDE DEF t, n
<1>2. \A i \in DOMAIN t : i = n + (i - n)
  BY <1>1
<1>3. ASSUME LastIsOf(t, k)
      PROVE  LastIsOf(p, k) \/ (Silent(p) /\ LastIsOf(q, k))
  <2>1. PICK i \in DOMAIN t : JudgesKey(t[i], k) /\ \A j \in DOMAIN t : j > i => ~Judges(t[j])
    BY <1>3 DEF LastIsOf
  <2>2. CASE i \in DOMAIN q
    <3>1. \A j \in DOMAIN p : n + j > i
      BY <1>1, <2>2
    <3>2. Silent(p)
      BY <1>1, <2>1, <3>1 DEF Silent
    <3>3. LastIsOf(q, k)
      BY <1>1, <2>1, <2>2 DEF LastIsOf
    <3>4. QED
      BY <3>2, <3>3
  <2>3. CASE i - n \in DOMAIN p
    <3>1. JudgesKey(p[i - n], k)
      BY <1>1, <1>2, <2>1, <2>3
    <3>2. ASSUME NEW j \in DOMAIN p, j > i - n PROVE ~Judges(p[j])
      <4>1. n + j > i
        BY <1>1, <3>2
      <4>2. QED
        BY <1>1, <2>1, <4>1
    <3>3. LastIsOf(p, k)
      BY <2>3, <3>1, <3>2 DEF LastIsOf
    <3>4. QED
      BY <3>3
  <2>4. QED
    BY <1>1, <2>2, <2>3
<1>4. ASSUME LastIsOf(p, k)
      PROVE  LastIsOf(t, k)
  <2>1. PICK i \in DOMAIN p : JudgesKey(p[i], k) /\ \A j \in DOMAIN p : j > i => ~Judges(p[j])
    BY <1>4 DEF LastIsOf
  <2>2. ASSUME NEW j \in DOMAIN t, j > n + i PROVE ~Judges(t[j])
    <3>1. j - n \in DOMAIN p /\ j - n > i
      BY <1>1, <2>2
    <3>2. QED
      BY <1>1, <1>2, <2>1, <3>1
  <2>3. QED
    BY <1>1, <2>1, <2>2 DEF LastIsOf
<1>5. ASSUME Silent(p), LastIsOf(q, k)
      PROVE  LastIsOf(t, k)
  <2>1. PICK i \in DOMAIN q : JudgesKey(q[i], k) /\ \A j \in DOMAIN q : j > i => ~Judges(q[j])
    BY <1>5 DEF LastIsOf
  <2>2. ASSUME NEW j \in DOMAIN t, j > i PROVE ~Judges(t[j])
    BY <1>1, <1>2, <1>5, <2>1, <2>2 DEF Silent
  <2>3. QED
    BY <1>1, <2>1, <2>2 DEF LastIsOf
<1>6. QED
  BY <1>3, <1>4, <1>5 DEF t

LEMMA GoingAfter ==
  ASSUME NEW S, NEW q \in Seq(S), NEW p \in Seq(S), NEW r, NEW there
  PROVE  Going(r, there, q \o p) <=> Going(r, {}, p) \/ (Stays(r, p) /\ Going(r, there, q))
<1> DEFINE t == q \o p
           n == Len(q)
<1>1. /\ \A i \in DOMAIN q : i \in DOMAIN t /\ t[i] = q[i] /\ i \in Nat /\ i <= n
      /\ \A i \in DOMAIN p : n + i \in DOMAIN t /\ t[n + i] = p[i] /\ i \in Nat /\ i >= 1
      /\ \A i \in DOMAIN t : i \in Nat
      /\ \A i \in DOMAIN t : i \in DOMAIN q \/ i - n \in DOMAIN p
      /\ n \in Nat
  BY Concatenation
<1>s. Stays(r, t) <=> Stays(r, q) /\ Stays(r, p)
  BY StaysAfter
<1> HIDE DEF t, n
<1>2. \A i \in DOMAIN t : i = n + (i - n)
  BY <1>1
<1>3. ASSUME NEW i \in DOMAIN t, t[i].kind = "JoinRoom", t[i].room = r,
             \A j \in DOMAIN t : j > i => t[j] # Leave(r)
      PROVE  Going(r, {}, p) \/ (Stays(r, p) /\ Going(r, there, q))
  <2>2. CASE i \in DOMAIN q
    <3>1. \A j \in DOMAIN p : n + j > i
      BY <1>1, <2>2
    <3>2. Stays(r, p)
      BY <1>1, <1>3, <3>1 DEF Stays
    <3>3. Going(r, there, q)
      BY <1>1, <1>3, <2>2 DEF Going
    <3>4. QED
      BY <3>2, <3>3
  <2>3. CASE i - n \in DOMAIN p
    <3>1. p[i - n].kind = "JoinRoom" /\ p[i - n].room = r
      BY <1>1, <1>2, <1>3, <2>3
    <3>2. ASSUME NEW j \in DOMAIN p, j > i - n PROVE p[j] # Leave(r)
      <4>1. n + j > i
        BY <1>1, <3>2
      <4>2. QED
        BY <1>1, <1>3, <4>1
    <3>3. Going(r, {}, p)
      BY <2>3, <3>1, <3>2 DEF Going
    <3>4. QED
      BY <3>3
  <2>4. QED
    BY <1>1, <2>2, <2>3
<1>4. ASSUME Going(r, {}, p)
      PROVE  Going(r, there, t)
  <2>1. PICK i \in DOMAIN p : /\ p[i].kind = "JoinRoom" /\ p[i].room = r
                              /\ \A j \in DOMAIN p : j > i => p[j] # Leave(r)
    BY <1>4 DEF Going
  <2>2. ASSUME NEW j \in DOMAIN t, j > n + i PROVE t[j] # Leave(r)
    <3>1. j - n \in DOMAIN p /\ j - n > i
      BY <1>1, <2>2
    <3>2. QED
      BY <1>1, <1>2, <2>1, <3>1
  <2>3. QED
    BY <1>1, <2>1, <2>2 DEF Going
<1>5. ASSUME Stays(r, p), Going(r, there, q)
      PROVE  Going(r, there, t)
  <2>1. CASE r \in there /\ Stays(r, q)
    BY <1>s, <1>5, <2>1 DEF Going
  <2>2. ASSUME NEW i \in DOMAIN q, q[i].kind = "JoinRoom", q[i].room = r,
               \A j \in DOMAIN q : j > i => q[j] # Leave(r)
        PROVE  Going(r, there, t)
    <3>1. ASSUME NEW j \in DOMAIN t, j > i PROVE t[j] # Leave(r)
      <4>1. CASE j \in DOMAIN q
        BY <1>1, <2>2, <3>1, <4>1
      <4>2. CASE j - n \in DOMAIN p
        BY <1>1, <1>2, <1>5, <4>2 DEF Stays
      <4>3. QED
        BY <1>1, <4>1, <4>2
    <3>2. QED
      BY <1>1, <2>2, <3>1 DEF Going
  <2>3. QED
    BY <1>5, <2>1, <2>2 DEF Going
<1>6. ASSUME Going(r, there, t)
      PROVE  Going(r, {}, p) \/ (Stays(r, p) /\ Going(r, there, q))
  <2>1. CASE r \in there /\ Stays(r, t)
    BY <1>s, <2>1 DEF Going
  <2>2. QED
    BY <1>3, <1>6, <2>1 DEF Going
<1>7. QED
  BY <1>4, <1>5, <1>6 DEF t

LEMMA OneElement ==
  ASSUME NEW e
  PROVE  /\ \A r : Stays(r, <<e>>) <=> e # Leave(r)
         /\ \A r : Going(r, {}, <<e>>) <=> e.kind = "JoinRoom" /\ e.room = r
         /\ Silent(<<e>>) <=> ~Judges(e)
         /\ \A k : LastIsOf(<<e>>, k) <=> JudgesKey(e, k)
<1>1. DOMAIN <<e>> = {1} /\ <<e>>[1] = e
  OBVIOUS
<1>2. \A i, j \in DOMAIN <<e>> : ~(j > i)
  BY <1>1
<1>3. QED
  BY <1>1, <1>2 DEF Stays, Going, Silent, LastIsOf

LEMMA NoElement ==
  /\ \A S : <<>> \in Seq(S)
  /\ \A r : Stays(r, <<>>)
  /\ \A r, there : Going(r, there, <<>>) <=> r \in there
  /\ Silent(<<>>)
  /\ \A k : ~LastIsOf(<<>>, k)
BY DEF Stays, Going, Silent, LastIsOf

LEMMA FirstAndRest ==
  ASSUME NEW S, NEW q \in Seq(S), q # <<>>
  PROVE  /\ Head(q) \in S /\ Tail(q) \in Seq(S) /\ <<Head(q)>> \in Seq(S)
         /\ q = <<Head(q)>> \o Tail(q)
<1>1. Head(q) \in S /\ Tail(q) \in Seq(S)
  BY HeadTailProperties
<1>2. Len(q) \in Nat /\ Len(q) >= 1
  BY EmptySeq
<1>3. SubSeq(q, 1, Len(q)) = <<q[1]>> \o SubSeq(q, 2, Len(q))
  BY <1>2, SubSeqRecursiveFirst
<1>4. SubSeq(q, 1, Len(q)) = q /\ Tail(q) = SubSeq(q, 2, Len(q))
  BY SubSeqFull, TailIsSubSeq
<1>5. Head(q) = q[1]
  OBVIOUS
<1>6. QED
  BY <1>1, <1>3, <1>4, <1>5
-----------------------------------------------------------------------------
(* Rooms, commands and the manager *)

LEMMA RoomFacts ==
  /\ \A s \in Slot : RoomsOf(s) \subseteq Room
  /\ \A r \in RoomsOf("group") : r.id \in Group /\ r.kind \in Shape
  /\ \A s \in Tracked : \A r \in RoomsOf(s) : r.kind \notin Shape
  /\ "group" \in Slot
<1>1. \A s \in Slot : RoomsOf(s) \subseteq Room
  BY DEF Room
<1>2. \A r \in RoomsOf("group") : r.id \in Group /\ r.kind \in Shape
  BY DEF RoomsOf
<1>3. \A s \in Tracked : s # "group" /\ s \notin Shape
  BY AutoRoomsAssumption DEF Shape
<1>4. \A s \in Tracked : \A r \in RoomsOf(s) : r.kind = s
  BY <1>3 DEF RoomsOf
<1>5. QED
  BY <1>1, <1>2, <1>3, <1>4 DEF Slot

LEMMA CommandFacts ==
  /\ \A r \in Room : /\ Leave(r) \in Command /\ Leave(r).kind = "LeaveRoom"
                     /\ Leave(r).room = r
  /\ \A r \in Room, k \in Key : /\ Join(r, k) \in Command /\ Join(r, k).kind = "JoinRoom"
                                /\ Join(r, k).room = r /\ Join(r, k).key = k
  /\ \A k \in Key : /\ Validate(k) \in Command /\ Validate(k).kind = "ValidateApiKey"
                    /\ Validate(k).key = k
  /\ \A ms \in SUBSET Account : /\ Identify(ms) \in Command
                                /\ Identify(ms).kind = "IdentifyGroup"
                                /\ Identify(ms).members = ms
<1>1. \A r \in Room : /\ Leave(r) \in Command /\ Leave(r).kind = "LeaveRoom"
                       /\ Leave(r).room = r
  BY DEF Command, Leave
<1>2. \A r \in Room, k \in Key : /\ Join(r, k) \in Command /\ Join(r, k).kind = "JoinRoom"
                                  /\ Join(r, k).room = r /\ Join(r, k).key = k
  BY DEF Command, Join
<1>3. \A k \in Key : /\ Validate(k) \in Command /\ Validate(k).kind = "ValidateApiKey"
                      /\ Validate(k).key = k
  BY DEF Command, Validate
<1>4. \A ms \in SUBSET Account : /\ Identify(ms) \in Command
                                  /\ Identify(ms).kind = "IdentifyGroup"
                                  /\ Identify(ms).members = ms
  BY DEF Command, Identify
<1>5. QED
  BY <1>1, <1>2, <1>3, <1>4

LEMMA CommandCases ==
  ASSUME NEW c \in Command
  PROVE  /\ c.kind \in {"JoinRoom", "LeaveRoom", "ValidateApiKey", "IdentifyGroup"}
         /\ c.kind = "JoinRoom" => c.room \in Room /\ c.key \in Key /\ c = Join(c.room, c.key)
         /\ c.kind = "LeaveRoom" => c.room \in Room /\ c = Leave(c.room)
         /\ c.kind = "ValidateApiKey" => c.key \in Key
         /\ c.kind = "IdentifyGroup" => c.members \subseteq Account
BY DEF Command, Leave, Join, Validate, Identify

LEMMA AnswerCases ==
  ASSUME NEW e \in Answer
  PROVE  /\ e.kind \in {"RoomJoined", "JoinRejected", "AccountValidated", "GroupIdentified",
                        "Connected", "Disconnected"}
         /\ e.kind \in {"RoomJoined", "JoinRejected"} => e.room \in Room
         /\ e.kind = "AccountValidated" => e.account \in Account \cup {None}
         /\ e.kind = "GroupIdentified" => e.cluster \in Group
BY DEF Answer, About, Validated, Identified, Notice

LEMMA ManagerTypes ==
  ASSUME NEW v \in Manager
  PROVE  /\ v.joined \subseteq Room /\ v.slot \in [Slot -> Room \cup {None}]
         /\ v.suppressed \subseteq Group /\ v.members \subseteq Account
         /\ v.cluster \in Group \cup {None} /\ v.key \in Key \cup {None}
         /\ v.out \in Seq(Command) /\ v.forgotten \subseteq Room /\ v.late \subseteq Room
         /\ v.pending \in BOOLEAN
BY DEF Manager

\* What a change of the manager needs, when the commands p come with it.
LEMMA Changed ==
  ASSUME NEW v, NEW w, NEW as, NEW p \in Seq(Command), toServer \in Seq(Command),
         Good(v, as, toServer \o v.out),
         ManagerOK(w), w.out = v.out \o p,
         \A r \in Room :
           \/ r \in w.joined \/ Going(r, {}, p)
           \/ Stays(r, p) /\ Kept(v, r) /\ Going(r, srv, toServer \o v.out)
           => Kept(w, r),
         Respected(w),
         \/ w.key = v.key /\ w.status = v.status /\ w.statusFor = v.statusFor /\ Silent(p)
         \/ w.key # None /\ w.status = "Validating" /\ w.statusFor = w.key /\ LastIsOf(p, w.key)
         \/ w.key = None /\ w.status = "Unknown"
  PROVE  Good(w, as, toServer \o w.out)
<1> DEFINE q == toServer \o v.out
<1>1. v.out \in Seq(Command)
  BY ManagerTypes DEF Good, ManagerOK
<1>2. q \in Seq(Command)
  BY <1>1, Concatenation
<1>3. toServer \o (v.out \o p) = (toServer \o v.out) \o p
  <2>1. \A a, b, c \in Seq(Command) : (a \o b) \o c = a \o (b \o c)
    BY ConcatAssociative
  <2>2. QED
    BY <1>1, <2>1
<1> HIDE DEF q
<1>4. RoomsKept(w, srv, q \o p)
  <2> SUFFICES ASSUME NEW r \in Room, r \in w.joined \/ Going(r, srv, q \o p)
               PROVE  Kept(w, r)
    BY DEF RoomsKept
  <2>1. CASE r \in w.joined
    BY <2>1
  <2>2. CASE Going(r, srv, q \o p)
    <3>1. Going(r, {}, p) \/ (Stays(r, p) /\ Going(r, srv, q))
      BY <1>2, <2>2, GoingAfter
    <3>2. Going(r, srv, q) => Kept(v, r)
      BY DEF Good, RoomsKept, q
    <3>3. QED
      BY <3>1, <3>2 DEF q
  <2>3. QED
    BY <2>1, <2>2
<1>5. ASSUME drops = 0
      PROVE  VerdictComes(w, as, q \o p) /\ (~up => Unheard(w, as))
  <2>1. VerdictComes(v, as, q) /\ (~up => Unheard(v, as))
    BY <1>5 DEF Good, q
  <2>2. \A k : LastIsOf(q \o p, k) <=> LastIsOf(p, k) \/ (Silent(p) /\ LastIsOf(q, k))
    BY <1>2, LastAfter
  <2>3. Silent(q \o p) <=> Silent(q) /\ Silent(p)
    BY <1>2, SilentAfter
  <2>4. CASE w.key = v.key /\ w.status = v.status /\ w.statusFor = v.statusFor /\ Silent(p)
    BY <2>1, <2>2, <2>3, <2>4 DEF VerdictComes, Unheard
  <2>5. CASE w.key # None /\ w.status = "Validating" /\ w.statusFor = w.key /\ LastIsOf(p, w.key)
    BY <2>1, <2>2, <2>5 DEF VerdictComes, Unheard
  <2>6. CASE w.key = None /\ w.status = "Unknown"
    BY <2>1, <2>6 DEF VerdictComes, Unheard
  <2>7. QED
    BY <2>4, <2>5, <2>6
<1>6. toServer \o w.out = q \o p
  BY <1>3 DEF q
<1>7. QED
  BY <1>4, <1>5, <1>6 DEF Good
-----------------------------------------------------------------------------
(* The manager's methods *)

LEMMA LeaveRoomFields ==
  ASSUME NEW v \in Manager, NEW r \in Room
  PROVE  /\ LeaveRoom(v, r) \in Manager
         /\ LeaveRoom(v, r).joined = v.joined \ {r}
         /\ LeaveRoom(v, r).slot = v.slot /\ LeaveRoom(v, r).suppressed = v.suppressed
         /\ LeaveRoom(v, r).members = v.members /\ LeaveRoom(v, r).pending = v.pending
         /\ LeaveRoom(v, r).key = v.key /\ LeaveRoom(v, r).status = v.status
         /\ LeaveRoom(v, r).statusFor = v.statusFor
         /\ LeaveRoom(v, r).out = v.out \o <<Leave(r)>>
         /\ LeaveRoom(v, r).forgotten = v.forgotten \ {r}
         /\ LeaveRoom(v, r).late = v.late \ {r}
<1>1. v.out \o <<Leave(r)>> \in Seq(Command)
  <2>1. v.out \in Seq(Command) /\ Leave(r) \in Command
    BY ManagerTypes, CommandFacts
  <2>2. QED
    BY <2>1
<1>2. QED
  BY <1>1 DEF LeaveRoom, LeaveCommands, Manager

LEMMA SlotPut ==
  ASSUME NEW v \in Manager, NEW s \in Slot, NEW r \in Room \cup {None}
  PROVE  /\ Put(v, s, r) \in Manager
         /\ Put(v, s, r).slot = [v.slot EXCEPT ![s] = r]
         /\ Put(v, s, r).joined = v.joined
         /\ Put(v, s, r).suppressed = v.suppressed
         /\ Put(v, s, r).members = v.members
         /\ Put(v, s, r).pending = v.pending
         /\ Put(v, s, r).key = v.key
         /\ Put(v, s, r).status = v.status
         /\ Put(v, s, r).statusFor = v.statusFor
         /\ Put(v, s, r).out = v.out
         /\ Put(v, s, r).forgotten = v.forgotten
         /\ Put(v, s, r).late = v.late
BY DEF Manager, Put

LEMMA JoinRoomFields ==
  ASSUME NEW v \in Manager, NEW r \in Room, v.key # None
  PROVE  /\ JoinRoom(v, r) \in Manager
         /\ JoinRoom(v, r).joined = v.joined
         /\ JoinRoom(v, r).slot = v.slot /\ JoinRoom(v, r).suppressed = v.suppressed
         /\ JoinRoom(v, r).members = v.members /\ JoinRoom(v, r).pending = v.pending
         /\ JoinRoom(v, r).key = v.key /\ JoinRoom(v, r).status = "Validating"
         /\ JoinRoom(v, r).statusFor = v.key
         /\ JoinRoom(v, r).out = v.out \o <<Join(r, v.key)>>
         /\ JoinRoom(v, r).forgotten = v.forgotten
         /\ JoinRoom(v, r).late = v.late
<1>1. /\ v.out \in Seq(Command) /\ Join(r, v.key) \in Command
      /\ Append(v.out, Join(r, v.key)) = v.out \o <<Join(r, v.key)>>
      /\ Append(v.out, Join(r, v.key)) \in Seq(Command)
  <2>1. v.out \in Seq(Command) /\ Join(r, v.key) \in Command
    BY ManagerTypes, CommandFacts
  <2>2. QED
    BY <2>1
<1>2. QED
  BY <1>1 DEF JoinRoom, Send, Validating, Manager

LEMMA VacateStep ==
  ASSUME toServer \in Seq(Command), NEW as, NEW v, Good(v, as, toServer \o v.out),
         NEW s \in Slot
  PROVE  /\ Good(Vacate(v, s), as, toServer \o Vacate(v, s).out)
         /\ Vacate(v, s).slot[s] = None /\ Vacate(v, s).suppressed = v.suppressed
<1> USE DEF ManagerOK, IsGroup
<1>1. v \in Manager /\ v.slot \in [Slot -> Room \cup {None}]
  BY ManagerTypes DEF Good
<1>2. CASE v.slot[s] = None
  BY <1>2 DEF Vacate
<1>3. CASE v.slot[s] # None
  <2> DEFINE old == v.slot[s]
             p == <<Leave(old)>>
             u == LeaveRoom(v, old)
             w == Put(u, s, None)
  <2>1. old \in Room
    BY <1>1, <1>3
  <2>2. /\ w \in Manager
        /\ w.joined = v.joined \ {old}
        /\ w.slot = [v.slot EXCEPT ![s] = None] /\ w.suppressed = v.suppressed
        /\ w.members = v.members /\ w.pending = v.pending
        /\ w.key = v.key /\ w.status = v.status /\ w.statusFor = v.statusFor
        /\ w.out = v.out \o p
        /\ w.forgotten = v.forgotten \ {old} /\ w.late = v.late \ {old}
    <3>1. u \in Manager /\ u.slot = v.slot
      BY <1>1, <2>1, LeaveRoomFields
    <3> HIDE DEF u
    <3>2. /\ w \in Manager /\ w.slot = [u.slot EXCEPT ![s] = None] /\ w.joined = u.joined
          /\ w.suppressed = u.suppressed /\ w.members = u.members /\ w.pending = u.pending
          /\ w.key = u.key /\ w.status = u.status /\ w.statusFor = u.statusFor
          /\ w.out = u.out /\ w.forgotten = u.forgotten /\ w.late = u.late
      BY <3>1, SlotPut
    <3> HIDE DEF w
    <3>3. QED
      BY <1>1, <2>1, <3>1, <3>2, LeaveRoomFields DEF u
  <2>3. /\ p \in Seq(Command) /\ Silent(p)
        /\ \A r : ~Going(r, {}, p)
        /\ \A r : Stays(r, p) => r # old
    <3>1. Leave(old) \in Command /\ Leave(old).kind = "LeaveRoom"
      BY <2>1, CommandFacts
    <3>2. QED
      BY <3>1, OneElement DEF Judges
  <2>4. Vacate(v, s) = w
    BY <1>3 DEF Vacate
  <2> HIDE DEF p, w, u
  <2>5. ManagerOK(w)
    <3>1. IsFiniteSet(w.joined)
      <4>1. IsFiniteSet(v.joined)
        BY DEF Good
      <4>2. IsFiniteSet(v.joined \ {old})
        BY <4>1, FS_RemoveElement
      <4>3. QED
        BY <2>2, <4>2
    <3>2. QED
      BY <1>1, <2>2, <3>1 DEF Good
  <2>6. \A r \in Room :
          \/ r \in w.joined \/ Going(r, {}, p)
          \/ Stays(r, p) /\ Kept(v, r) /\ Going(r, srv, toServer \o v.out)
          => Kept(w, r)
    <3>1. \A r \in Room : r # old /\ Kept(v, r) => Kept(w, r)
      BY <1>1, <2>2 DEF Kept
    <3>2. \A r \in Room : r \in v.joined => Kept(v, r)
      BY DEF Good, RoomsKept
    <3>3. QED
      BY <2>2, <2>3, <3>1, <3>2
  <2>7. Respected(w)
    BY <1>1, <2>2, RoomFacts DEF Good, Respected
  <2>8. Good(w, as, toServer \o w.out)
    BY <2>2, <2>3, <2>5, <2>6, <2>7, Changed
  <2>9. QED
    BY <1>1, <2>2, <2>4, <2>8
<1>4. QED
  BY <1>2, <1>3

LEMMA OccupyStep ==
  ASSUME toServer \in Seq(Command), NEW as, NEW v, Good(v, as, toServer \o v.out),
         NEW s \in Slot, v.slot[s] = None, NEW r \in RoomsOf(s) \cup {None},
         s = "group" /\ r # None => r.id \notin v.suppressed
  PROVE  Good(Occupy(v, s, r), as, toServer \o Occupy(v, s, r).out)
<1> USE DEF ManagerOK, IsGroup
<1>1. v \in Manager /\ v.slot \in [Slot -> Room \cup {None}] /\ v.key \in Key \cup {None}
  BY ManagerTypes DEF Good
<1>2. CASE r = None
  BY <1>2 DEF Occupy
<1>3. CASE r # None
  <2> DEFINE u == JoinRoom(v, r)
             w == Put(u, s, r)
             p == IF v.key = None THEN <<>> ELSE <<Join(r, v.key)>>
  <2>1. r \in Room
    BY <1>3, RoomFacts
  <2>2. /\ u \in Manager /\ u.joined = v.joined /\ u.slot = v.slot
        /\ u.suppressed = v.suppressed /\ u.members = v.members /\ u.pending = v.pending
        /\ u.key = v.key /\ u.out = v.out \o p
        /\ u.forgotten = v.forgotten /\ u.late = v.late
        /\ v.key = None => u.status = v.status /\ u.statusFor = v.statusFor
        /\ v.key # None => u.status = "Validating" /\ u.statusFor = v.key
    <3>1. CASE v.key = None
      <4>1. v.out \in Seq(Command)
        BY <1>1, ManagerTypes
      <4>2. u = v
        BY <3>1 DEF JoinRoom
      <4>3. v.out \o p = v.out
        BY <3>1, <4>1, ConcatEmptySeq
      <4>4. QED
        BY <1>1, <3>1, <4>2, <4>3
    <3>2. CASE v.key # None
      BY <1>1, <2>1, <3>2, JoinRoomFields
    <3>3. QED
      BY <3>1, <3>2
  <2> HIDE DEF u
  <2>3. /\ w \in Manager /\ w.slot = [v.slot EXCEPT ![s] = r] /\ w.joined = v.joined
        /\ w.suppressed = v.suppressed /\ w.members = v.members /\ w.pending = v.pending
        /\ w.key = v.key /\ w.status = u.status /\ w.statusFor = u.statusFor
        /\ w.out = v.out \o p /\ w.forgotten = v.forgotten /\ w.late = v.late
    <3>1. /\ w \in Manager /\ w.slot = [u.slot EXCEPT ![s] = r] /\ w.joined = u.joined
          /\ w.suppressed = u.suppressed /\ w.members = u.members /\ w.pending = u.pending
          /\ w.key = u.key /\ w.status = u.status /\ w.statusFor = u.statusFor
          /\ w.out = u.out /\ w.forgotten = u.forgotten /\ w.late = u.late
      <4>1. u \in Manager /\ r \in Room \cup {None}
        BY <2>1, <2>2
      <4> HIDE DEF p, w
      <4>2. w = Put(u, s, r)
        BY DEF w
      <4>3. QED
        BY ONLY <4>1, <4>2, SlotPut, s \in Slot
    <3> HIDE DEF w
    <3>2. QED
      BY <2>2, <3>1
  <2>4. Occupy(v, s, r) = w
    BY <1>3 DEF Occupy, u
  <2> HIDE DEF w
  <2>5. /\ p \in Seq(Command) /\ \A t : Going(t, {}, p) => t = r
        /\ v.key = None => Silent(p)
        /\ v.key # None => LastIsOf(p, v.key)
    <3>1. CASE v.key = None
      BY <3>1, NoElement
    <3>2. CASE v.key # None
      <4>1. /\ Join(r, v.key) \in Command /\ Join(r, v.key).kind = "JoinRoom"
            /\ Join(r, v.key).room = r /\ Join(r, v.key).key = v.key
        BY <1>1, <2>1, <3>2, CommandFacts
      <4>2. JudgesKey(Join(r, v.key), v.key)
        BY <4>1 DEF JudgesKey
      <4>3. QED
        BY <3>2, <4>1, <4>2, OneElement
    <3>3. QED
      BY <3>1, <3>2
  <2> HIDE DEF p
  <2>6. ManagerOK(w)
    BY <1>1, <2>3 DEF Good
  <2>7. \A t \in Room :
          \/ t \in w.joined \/ Going(t, {}, p)
          \/ Stays(t, p) /\ Kept(v, t) /\ Going(t, srv, toServer \o v.out)
          => Kept(w, t)
    <3>1. \A t \in Room : Kept(v, t) => Kept(w, t)
      <4>1. \A t \in Room, z \in Slot : v.slot[z] = t => w.slot[z] = t
        BY <1>1, <2>3, NoneIsNoRoom
      <4>2. QED
        BY <2>3, <4>1 DEF Kept
    <3>2. Kept(w, r)
      BY <1>1, <2>1, <2>3 DEF Kept
    <3>3. \A t \in Room : t \in v.joined => Kept(v, t)
      BY DEF Good, RoomsKept
    <3>4. QED
      BY <2>3, <2>5, <3>1, <3>2, <3>3
  <2>8. Respected(w)
    BY <1>1, <2>3, RoomFacts DEF Good, Respected
  <2>9. Good(w, as, toServer \o w.out)
    BY <1>1, <2>2, <2>3, <2>5, <2>6, <2>7, <2>8, Changed
  <2>10. QED
    BY <2>4, <2>9
<1>4. QED
  BY <1>2, <1>3

LEMMA FollowStep ==
  ASSUME toServer \in Seq(Command), NEW as, NEW v, Good(v, as, toServer \o v.out),
         NEW s \in Slot, NEW r \in RoomsOf(s) \cup {None},
         s = "group" /\ r # None => r.id \notin v.suppressed
  PROVE  Good(Follow(v, s, r), as, toServer \o Follow(v, s, r).out)
<1>1. CASE v.slot[s] = r
  BY <1>1 DEF Follow
<1>2. CASE v.slot[s] # r
  <2>1. /\ Good(Vacate(v, s), as, toServer \o Vacate(v, s).out)
        /\ Vacate(v, s).slot[s] = None /\ Vacate(v, s).suppressed = v.suppressed
    BY VacateStep
  <2>2. Good(Occupy(Vacate(v, s), s, r), as, toServer \o Occupy(Vacate(v, s), s, r).out)
    BY <2>1, OccupyStep
  <2>3. QED
    BY <1>2, <2>2 DEF Follow
<1>3. QED
  BY <1>1, <1>2
-----------------------------------------------------------------------------
(* The events, and what sends nothing or no request for a room *)

\* A change that comes with no command.
LEMMA Quiet ==
  ASSUME NEW v, NEW w, NEW as, toServer \in Seq(Command),
         Good(v, as, toServer \o v.out),
         ManagerOK(w), w.out = v.out,
         \A r \in Room :
           r \in w.joined \/ (Kept(v, r) /\ Going(r, srv, toServer \o v.out)) => Kept(w, r),
         Respected(w),
         \/ w.key = v.key /\ w.status = v.status /\ w.statusFor = v.statusFor
         \/ w.key = None /\ w.status = "Unknown"
  PROVE  Good(w, as, toServer \o w.out)
<1> DEFINE p == <<>>
<1>1. p \in Seq(Command) /\ Silent(p) /\ \A r : ~Going(r, {}, p)
  BY NoElement
<1>2. w.out = v.out \o p
  <2>1. v.out \in Seq(Command)
    BY ManagerTypes DEF Good, ManagerOK
  <2>2. QED
    BY <2>1, ConcatEmptySeq
<1> HIDE DEF p
<1>3. QED
  BY <1>1, <1>2, Changed

LEMMA FlushStep ==
  ASSUME toServer \in Seq(Command), NEW as, NEW v, Good(v, as, toServer \o v.out)
  PROVE  /\ Good(Flush(v), as, toServer \o Flush(v).out)
         /\ Flush(v).suppressed = v.suppressed
<1> DEFINE u == [v EXCEPT !.pending = FALSE]
           c == Identify(v.members)
           w == Send(u, c)
<1>1. /\ v \in Manager /\ ManagerOK(v) /\ v.out \in Seq(Command) /\ v.members \subseteq Account
      /\ v.slot \in [Slot -> Room \cup {None}]
  BY ManagerTypes DEF Good, ManagerOK
<1>2. /\ u \in Manager /\ u.joined = v.joined /\ u.slot = v.slot
      /\ u.suppressed = v.suppressed /\ u.pending = FALSE
      /\ u.key = v.key /\ u.status = v.status /\ u.statusFor = v.statusFor
      /\ u.out = v.out /\ u.forgotten = v.forgotten /\ u.late = v.late
  BY <1>1 DEF Manager
<1>3. /\ c \in Command /\ c.kind = "IdentifyGroup"
      /\ v.out \o <<c>> \in Seq(Command) /\ Append(v.out, c) = v.out \o <<c>>
  <2>1. c \in Command /\ c.kind = "IdentifyGroup"
    BY <1>1, CommandFacts
  <2> HIDE DEF c, u, w
  <2>2. Append(v.out, c) = v.out \o <<c>>
    BY <1>1, <2>1, AppendIsConcat
  <2>3. <<c>> \in Seq(Command)
    BY <2>1
  <2>4. v.out \o <<c>> \in Seq(Command)
    BY <1>1, <2>3, Concatenation
  <2>5. QED
    BY <2>1, <2>2, <2>4
<1> HIDE DEF u, c
<1>4. /\ w \in Manager /\ w.joined = v.joined /\ w.slot = v.slot
      /\ w.suppressed = v.suppressed /\ w.pending = FALSE
      /\ w.key = v.key /\ w.status = v.status /\ w.statusFor = v.statusFor
      /\ w.out = v.out \o <<c>> /\ w.forgotten = v.forgotten /\ w.late = v.late
  BY <1>2, <1>3 DEF Send, Manager
<1> HIDE DEF w
<1>5. \A r \in Room : r \in v.joined => Kept(v, r)
  BY DEF Good, RoomsKept
<1>6. Good(u, as, toServer \o u.out)
  <2>1. ManagerOK(u) /\ Respected(u) /\ \A r : Kept(v, r) <=> Kept(u, r)
    BY <1>1, <1>2 DEF ManagerOK, IsGroup, Good, Respected, Kept
  <2>2. QED
    BY <1>2, <1>5, <2>1, Quiet
<1>7. Good(w, as, toServer \o w.out)
  <2>1. ManagerOK(w) /\ Respected(w) /\ \A r : Kept(v, r) <=> Kept(w, r)
    BY <1>1, <1>4 DEF ManagerOK, IsGroup, Good, Respected, Kept
  <2>2. <<c>> \in Seq(Command) /\ Silent(<<c>>) /\ \A r : ~Going(r, {}, <<c>>)
    BY <1>3, OneElement DEF Judges
  <2>3. QED
    BY <1>4, <1>5, <2>1, <2>2, Changed
<1>8. Flush(v) \in {v, u, w}
  BY DEF Flush, u, w, c
<1>9. QED
  BY <1>2, <1>4, <1>6, <1>7, <1>8

\* Only the members differ, and what the group's change did to the rest.
LEMMA GroupChangedStep ==
  ASSUME toServer \in Seq(Command), NEW as, NEW v, Good(v, as, toServer \o v.out),
         NEW ms \in SUBSET Account
  PROVE  LET w == GroupChanged([v EXCEPT !.members = ms])
         IN  Good(w, as, toServer \o w.out)
<1> DEFINE u == [v EXCEPT !.members = ms]
           w == GroupChanged(u)
<1>1. v \in Manager /\ ManagerOK(v)
  BY DEF Good, ManagerOK
<1>2. /\ u \in Manager /\ u.joined = v.joined /\ u.slot = v.slot
      /\ u.suppressed = v.suppressed /\ u.members = ms
      /\ u.key = v.key /\ u.status = v.status /\ u.statusFor = v.statusFor
      /\ u.out = v.out /\ u.forgotten = v.forgotten /\ u.late = v.late
  BY <1>1 DEF Manager
<1> HIDE DEF u
<1>3. /\ w \in Manager /\ w.joined = v.joined /\ w.slot = v.slot
      /\ w.suppressed = v.suppressed /\ w.members = ms
      /\ w.pending => Cardinality(ms) > 1
      /\ w.key = v.key /\ w.status = v.status /\ w.statusFor = v.statusFor
      /\ w.out = v.out /\ w.forgotten = v.forgotten /\ w.late = v.late
  <2>1. CASE Cardinality(ms) > 1
    BY <1>2, <2>1 DEF GroupChanged, IsGroup, Manager
  <2>2. CASE ~(Cardinality(ms) > 1)
    BY <1>2, <2>2 DEF GroupChanged, Alone, IsGroup, Manager
  <2>3. QED
    BY <2>1, <2>2
<1> HIDE DEF w
<1>4. ManagerOK(w) /\ Respected(w) /\ \A r : Kept(v, r) <=> Kept(w, r)
  BY <1>1, <1>3 DEF ManagerOK, IsGroup, Good, Respected, Kept
<1>5. \A r \in Room : r \in v.joined => Kept(v, r)
  BY DEF Good, RoomsKept
<1>6. Good(w, as, toServer \o w.out)
  BY <1>3, <1>4, <1>5, Quiet
<1>7. QED
  BY <1>6 DEF w, u

LEMMA StrikeFields ==
  ASSUME NEW v \in Manager, NEW ss \in SUBSET Slot
  PROVE  /\ Strike(v, ss) \in Manager
         /\ Strike(v, ss).joined = v.joined
         /\ \A s \in Slot : Strike(v, ss).slot[s] = IF s \in ss THEN None ELSE v.slot[s]
         /\ Strike(v, ss).suppressed = v.suppressed
         /\ Strike(v, ss).members = v.members /\ Strike(v, ss).pending = v.pending
         /\ Strike(v, ss).key = v.key /\ Strike(v, ss).status = v.status
         /\ Strike(v, ss).statusFor = v.statusFor /\ Strike(v, ss).out = v.out
         /\ Strike(v, ss).forgotten = v.forgotten \cup ({v.slot[s] : s \in ss} \ {None})
         /\ Strike(v, ss).late = v.late
<1> DEFINE sl == [s \in Slot |-> IF s \in ss THEN None ELSE v.slot[s]]
           fo == v.forgotten \cup ({v.slot[s] : s \in ss} \ {None})
<1>1. v.slot \in [Slot -> Room \cup {None}] /\ v.forgotten \subseteq Room
  BY ManagerTypes
<1>2. sl \in [Slot -> Room \cup {None}] /\ fo \subseteq Room
  BY <1>1
<1>3. Strike(v, ss) = [v EXCEPT !.slot = sl, !.forgotten = fo]
  BY DEF Strike
<1>4. \A s \in Slot : sl[s] = IF s \in ss THEN None ELSE v.slot[s]
  OBVIOUS
<1> HIDE DEF sl
<1>5. fo = v.forgotten \cup ({v.slot[s] : s \in ss} \ {None})
  OBVIOUS
<1> HIDE DEF fo
<1>6. /\ [v EXCEPT !.slot = sl, !.forgotten = fo] \in Manager
      /\ Strike(v, ss).slot = sl /\ Strike(v, ss).forgotten = fo
  BY <1>2, <1>3 DEF Manager
<1>7. QED
  BY <1>3, <1>4, <1>5, <1>6 DEF Manager

LEMMA StrikeKeeps ==
  ASSUME NEW v \in Manager, NEW ss \in SUBSET Slot, NEW r \in Room, Kept(v, r)
  PROVE  Kept(Strike(v, ss), r)
<1> DEFINE w == Strike(v, ss)
<1>1. /\ \A s \in Slot : w.slot[s] = IF s \in ss THEN None ELSE v.slot[s]
      /\ w.forgotten = v.forgotten \cup ({v.slot[s] : s \in ss} \ {None})
      /\ w.late = v.late
  BY StrikeFields
<1> HIDE DEF w
<1>2. QED
  BY <1>1, NoneIsNoRoom DEF Kept, w

LEMMA Requests ==
  ASSUME NEW S \in SUBSET Room, IsFiniteSet(S), S # {}, NEW k \in Key
  PROVE  LET p == SetToSeq({Join(r, k) : r \in S})
         IN  /\ p \in Seq(Command) /\ LastIsOf(p, k)
             /\ \A r : Going(r, {}, p) => r \in S
<1> DEFINE C == {Join(r, k) : r \in S}
           f == [r \in S |-> Join(r, k)]
           n == Cardinality(C)
           p == SetToSeq(C)
<1>1. f \in Surjection(S, C)
  BY DEF Surjection
<1>2. IsFiniteSet(C) /\ C # {}
  BY <1>1, FS_Surjection
<1>3. \A c \in C : /\ c \in Command /\ JudgesKey(c, k)
                   /\ c.room \in S
  <2>1. \A r \in S : /\ Join(r, k) \in Command /\ Join(r, k).kind = "JoinRoom"
                     /\ Join(r, k).room = r /\ Join(r, k).key = k
    BY CommandFacts
  <2>2. QED
    BY <2>1 DEF JudgesKey
<1> HIDE DEF C
<1>4. n \in Nat /\ ExistsBijection(1..n, C) /\ n # 0
  BY <1>2, FS_CardinalityType, FS_EmptySet
<1>5. \E g \in [1..n -> C] : IsInjective(g)
  BY <1>4 DEF ExistsBijection, Bijection, Injection
<1>6. p \in [1..n -> C]
  BY <1>5 DEF SetToSeq
<1> HIDE DEF p, n
<1>7. p \in Seq(Command) /\ DOMAIN p = 1..n
  <2>1. p \in [1..n -> Command]
    BY <1>3, <1>6
  <2>2. QED
    BY <1>4, <2>1
<1>8. LastIsOf(p, k)
  <2>1. n \in 1..n /\ \A j \in 1..n : ~(j > n)
    BY <1>4
  <2>2. p[n] \in C
    BY <1>6, <2>1
  <2>3. QED
    BY <1>3, <1>7, <2>1, <2>2 DEF LastIsOf
<1>9. ASSUME NEW r, Going(r, {}, p)
      PROVE  r \in S
  <2>1. PICK i \in DOMAIN p : p[i].room = r
    BY <1>9 DEF Going
  <2>2. QED
    BY <1>3, <1>6, <2>1
<1>10. QED
  BY <1>7, <1>8, <1>9 DEF p, C

LEMMA RejoinStep ==
  ASSUME toServer \in Seq(Command), NEW as, NEW v, Good(v, as, toServer \o v.out)
  PROVE  Good(Rejoin(v), as, toServer \o Rejoin(v).out)
<1> DEFINE u == [v EXCEPT !.state = "Connected", !.joined = {}]
<1>1. /\ v \in Manager /\ ManagerOK(v) /\ v.joined \subseteq Room /\ v.out \in Seq(Command)
      /\ v.key \in Key \cup {None} /\ v.slot \in [Slot -> Room \cup {None}]
  BY ManagerTypes DEF Good, ManagerOK
<1>2. /\ u \in Manager /\ u.joined = {} /\ u.slot = v.slot
      /\ u.suppressed = v.suppressed /\ u.members = v.members /\ u.pending = v.pending
      /\ u.key = v.key /\ u.status = v.status /\ u.statusFor = v.statusFor
      /\ u.out = v.out /\ u.forgotten = v.forgotten /\ u.late = v.late
  BY <1>1 DEF Manager
<1> HIDE DEF u
<1>3. \A r \in Room : r \in v.joined => Kept(v, r)
  BY DEF Good, RoomsKept
<1>4. IsFiniteSet({})
  BY FS_EmptySet
<1>5. \A r : Kept(v, r) <=> Kept(u, r)
  BY <1>2 DEF Kept
<1>6. CASE v.joined = {}
  <2>1. ManagerOK(u) /\ Respected(u)
    BY <1>1, <1>2, <1>4 DEF ManagerOK, IsGroup, Good, Respected
  <2>2. Good(u, as, toServer \o u.out)
    BY <1>2, <1>5, <2>1, Quiet
  <2>3. QED
    BY <1>6, <2>2 DEF Rejoin, u
<1>7. CASE v.joined # {} /\ v.key = None
  <2> DEFINE w == Strike(u, {"map"} \cap Slot)
  <2>1. {"map"} \cap Slot \in SUBSET Slot /\ "group" \notin {"map"} \cap Slot
    OBVIOUS
  <2>2. /\ w \in Manager /\ w.joined = {}
        /\ \A s \in Slot : w.slot[s] = IF s \in {"map"} \cap Slot THEN None ELSE v.slot[s]
        /\ w.suppressed = v.suppressed /\ w.members = v.members /\ w.pending = v.pending
        /\ w.key = v.key /\ w.status = v.status /\ w.statusFor = v.statusFor
        /\ w.out = v.out
    BY <1>2, <2>1, StrikeFields
  <2>3. \A r \in Room : Kept(v, r) => Kept(w, r)
    BY <1>2, <1>5, <2>1, StrikeKeeps
  <2>4. Rejoin(v) = w
    BY <1>7 DEF Rejoin, u
  <2> HIDE DEF w
  <2>5. ManagerOK(w)
    BY <1>1, <1>4, <2>2 DEF ManagerOK, IsGroup
  <2>6. Respected(w)
    BY <2>1, <2>2, RoomFacts DEF Good, Respected
  <2>7. QED
    BY <2>2, <2>3, <2>4, <2>5, <2>6, Quiet
<1>8. CASE v.joined # {} /\ v.key # None
  <2> DEFINE p == SetToSeq({Join(r, v.key) : r \in v.joined})
             x == Validating(u)
             w == [x EXCEPT !.out = @ \o p]
  <2>1. /\ p \in Seq(Command) /\ LastIsOf(p, v.key)
        /\ \A r : Going(r, {}, p) => r \in v.joined
    BY <1>1, <1>8, Requests DEF ManagerOK
  <2>2. Rejoin(v) = w
    BY <1>8 DEF Rejoin, u
  <2> HIDE DEF p
  <2>3. v.out \o p \in Seq(Command)
    BY <1>1, <2>1
  <2>4. /\ x \in Manager /\ x.joined = {} /\ x.slot = v.slot
        /\ x.suppressed = v.suppressed /\ x.members = v.members /\ x.pending = v.pending
        /\ x.key = v.key /\ x.status = "Validating" /\ x.statusFor = v.key
        /\ x.out = v.out /\ x.forgotten = v.forgotten /\ x.late = v.late
    BY <1>1, <1>2 DEF Validating, Manager
  <2> HIDE DEF x
  <2>5. /\ w \in Manager /\ w.joined = {} /\ w.slot = v.slot
        /\ w.suppressed = v.suppressed /\ w.members = v.members /\ w.pending = v.pending
        /\ w.key = v.key /\ w.status = "Validating" /\ w.statusFor = v.key
        /\ w.out = v.out \o p /\ w.forgotten = v.forgotten /\ w.late = v.late
    BY <2>3, <2>4 DEF Manager
  <2> HIDE DEF w
  <2>6. ManagerOK(w) /\ Respected(w) /\ \A r : Kept(v, r) <=> Kept(w, r)
    BY <1>1, <1>4, <2>5 DEF ManagerOK, IsGroup, Good, Respected, Kept
  <2>7. Good(w, as, toServer \o w.out)
    BY <1>3, <1>8, <2>1, <2>5, <2>6, Changed
  <2>8. QED
    BY <2>2, <2>7
<1>9. QED
  BY <1>6, <1>7, <1>8

LEMMA JoinedStep ==
  ASSUME toServer \in Seq(Command), NEW as, NEW v, Good(v, as, toServer \o v.out),
         NEW r \in Room
  PROVE  Good(Joined(v, r), as, toServer \o Joined(v, r).out)
<1> DEFINE w == Joined(v, r)
           js == v.joined \cup {r}
           la == IF \E s \in Slot : v.slot[s] = r THEN v.late ELSE v.late \cup {r}
<1>1. /\ v \in Manager /\ ManagerOK(v) /\ v.joined \subseteq Room /\ v.late \subseteq Room
  BY ManagerTypes DEF Good, ManagerOK
<1>2. js \subseteq Room /\ la \subseteq Room /\ IsFiniteSet(js)
  BY <1>1, FS_AddElement DEF ManagerOK
<1>3. w = [v EXCEPT !.joined = js, !.state = "InRoom", !.late = la]
  BY DEF Joined
<1>4. /\ \A t \in js : t \in v.joined \/ t = r
      /\ v.late \subseteq la /\ (r \in la \/ \E s \in Slot : v.slot[s] = r)
  OBVIOUS
<1> HIDE DEF w, js, la
<1>5. /\ w \in Manager /\ w.joined = js /\ w.slot = v.slot
      /\ w.suppressed = v.suppressed /\ w.members = v.members /\ w.pending = v.pending
      /\ w.key = v.key /\ w.status = v.status /\ w.statusFor = v.statusFor
      /\ w.out = v.out /\ w.forgotten = v.forgotten /\ w.late = la
  BY <1>1, <1>2, <1>3 DEF Manager
<1>6. ManagerOK(w) /\ Respected(w)
  BY <1>1, <1>2, <1>5 DEF ManagerOK, IsGroup, Good, Respected
<1>7. \A t \in Room : Kept(v, t) \/ t = r => Kept(w, t)
  BY <1>4, <1>5 DEF Kept
<1>8. \A t \in Room : t \in v.joined => Kept(v, t)
  BY DEF Good, RoomsKept
<1>9. Good(w, as, toServer \o w.out)
  BY <1>4, <1>5, <1>6, <1>7, <1>8, Quiet
<1>10. QED
  BY <1>9 DEF w

\* A request for the room that is not yet taken back shows in AskedAgain.
LEMMA GoingIsAsked ==
  ASSUME toServer \in Seq(Command), NEW v, v.out \in Seq(Command), NEW r \in Room,
         Going(r, srv, toServer \o v.out)
  PROVE  AskedAgain(v, r)
<1> DEFINE q == toServer \o v.out
<1>1. q \in Seq(Command)
  BY Concatenation
<1>2. Going(r, srv, q)
  OBVIOUS
<1> SUFFICES r \in srv \/ \E k \in Key : Join(r, k) \in {q[i] : i \in DOMAIN q}
  BY DEF AskedAgain, ToSet
<1> HIDE DEF q
<1>3. ASSUME NEW i \in DOMAIN q, q[i].kind = "JoinRoom", q[i].room = r
      PROVE  \E k \in Key : Join(r, k) \in {q[j] : j \in DOMAIN q}
  <2>1. q[i] \in Command
    BY <1>1
  <2>2. q[i].key \in Key /\ q[i] = Join(r, q[i].key)
    BY <1>3, <2>1, CommandCases
  <2>3. QED
    BY <2>2
<1>4. QED
  BY <1>2, <1>3 DEF Going

LEMMA RejectedStep ==
  ASSUME toServer \in Seq(Command), NEW as, NEW v, Good(v, as, toServer \o v.out),
         NEW r \in Room
  PROVE  Good(Rejected(v, r), as, toServer \o Rejected(v, r).out)
<1> DEFINE w == Rejected(v, r)
           js == v.joined \ {r}
           sl == [s \in Slot |-> IF v.slot[s] = r THEN None ELSE v.slot[s]]
           st == IF js = {} THEN "Connected" ELSE v.state
           la == IF AskedAgain(v, r) THEN v.late \cup {r} ELSE v.late
<1>1. /\ v \in Manager /\ ManagerOK(v) /\ v.joined \subseteq Room /\ v.late \subseteq Room
      /\ v.slot \in [Slot -> Room \cup {None}] /\ v.out \in Seq(Command)
  BY ManagerTypes DEF Good, ManagerOK
<1>2. /\ js \subseteq Room /\ la \subseteq Room /\ IsFiniteSet(js)
      /\ sl \in [Slot -> Room \cup {None}]
      /\ st \in {"Connecting", "Connected", "InRoom", "Disconnected"}
  <2>1. v.state \in {"Connecting", "Connected", "InRoom", "Disconnected"}
    BY <1>1 DEF Manager
  <2>2. IsFiniteSet(js)
    BY <1>1, FS_RemoveElement DEF ManagerOK
  <2>3. QED
    BY <1>1, <2>1, <2>2
<1>3. w = [v EXCEPT !.joined = js, !.slot = sl, !.state = st, !.late = la]
  BY DEF Rejected
<1>4. /\ \A t \in js : t \in v.joined /\ t # r
      /\ v.late \subseteq la /\ (AskedAgain(v, r) => r \in la)
      /\ \A s \in Slot : sl[s] = IF v.slot[s] = r THEN None ELSE v.slot[s]
  OBVIOUS
<1> HIDE DEF w, js, sl, st, la
<1>5. /\ w \in Manager /\ w.joined = js /\ w.slot = sl
      /\ w.suppressed = v.suppressed /\ w.members = v.members /\ w.pending = v.pending
      /\ w.key = v.key /\ w.status = v.status /\ w.statusFor = v.statusFor
      /\ w.out = v.out /\ w.forgotten = v.forgotten /\ w.late = la
  BY <1>1, <1>2, <1>3 DEF Manager
<1>6. ManagerOK(w)
  BY <1>1, <1>2, <1>4, <1>5 DEF ManagerOK, IsGroup
<1>7. Respected(w)
  BY <1>4, <1>5, RoomFacts DEF Good, Respected
<1>8. \A t \in Room : Kept(v, t) /\ t # r => Kept(w, t)
  BY <1>4, <1>5 DEF Kept
<1>9. Going(r, srv, toServer \o v.out) => Kept(w, r)
  BY <1>1, <1>4, <1>5, GoingIsAsked DEF Kept
<1>10. \A t \in Room : t \in v.joined => Kept(v, t)
  BY DEF Good, RoomsKept
<1>11. Good(w, as, toServer \o w.out)
  BY <1>4, <1>5, <1>6, <1>7, <1>8, <1>9, <1>10, Quiet
<1>12. QED
  BY <1>11 DEF w

\* Fields that Good does not look at.
LEMMA AsideStep ==
  ASSUME toServer \in Seq(Command), NEW as, NEW v, Good(v, as, toServer \o v.out),
         NEW w \in {[v EXCEPT !.state = "Disconnected"]}
                   \cup {[v EXCEPT !.cluster = g] : g \in Group}
                   \cup {[v EXCEPT !.auto = ~@]}
  PROVE  Good(w, as, toServer \o w.out)
<1>1. v \in Manager /\ ManagerOK(v)
  BY DEF Good, ManagerOK
<1>2. /\ w \in Manager /\ w.joined = v.joined /\ w.slot = v.slot
      /\ w.suppressed = v.suppressed /\ w.members = v.members /\ w.pending = v.pending
      /\ w.key = v.key /\ w.status = v.status /\ w.statusFor = v.statusFor
      /\ w.out = v.out /\ w.forgotten = v.forgotten /\ w.late = v.late
  <2>1. CASE w = [v EXCEPT !.state = "Disconnected"]
    BY <1>1, <2>1 DEF Manager
  <2>2. ASSUME NEW g \in Group, w = [v EXCEPT !.cluster = g]
        PROVE  <1>2!:
    BY <1>1, <2>2 DEF Manager
  <2>3. CASE w = [v EXCEPT !.auto = ~@]
    BY <1>1, <2>3 DEF Manager
  <2>4. QED
    BY <2>1, <2>2, <2>3
<1>3. ManagerOK(w) /\ Respected(w) /\ \A r : Kept(v, r) <=> Kept(w, r)
  BY <1>1, <1>2 DEF ManagerOK, IsGroup, Good, Respected, Kept
<1>4. \A r \in Room : r \in v.joined => Kept(v, r)
  BY DEF Good, RoomsKept
<1>5. QED
  BY <1>2, <1>3, <1>4, Quiet

\* Once an answer that is no verdict is handled, the invariant needs it no longer.
LEMMA NoVerdict ==
  ASSUME NEW v, NEW q, NEW e \in Answer, NEW rest \in Seq(Answer), ~Judges(e),
         Good(v, <<e>> \o rest, q)
  PROVE  Good(v, rest, q)
<1>1. <<e>> \in Seq(Answer) /\ <<e>> \o rest # <<>>
  OBVIOUS
<1>2. Silent(<<e>>) /\ \A k : ~LastIsOf(<<e>>, k)
  BY OneElement DEF Judges, JudgesKey
<1> DEFINE as == <<e>> \o rest
<1>3. Silent(as) <=> Silent(rest)
  BY <1>1, <1>2, SilentAfter
<1>4. \A k : LastIsOf(as, k) <=> LastIsOf(rest, k)
  BY <1>1, <1>2, LastAfter
<1>5. as # <<>>
  BY <1>1
<1>6. Good(v, as, q)
  OBVIOUS
<1> HIDE DEF as
<1>7. drops = 0 => VerdictComes(v, rest, q) /\ (~up => Unheard(v, rest))
  BY <1>3, <1>4, <1>5, <1>6 DEF Good, VerdictComes, Unheard
<1>8. QED
  BY <1>6, <1>7 DEF Good

\* A verdict becomes the status, unless the key has been taken out since.
LEMMA JudgedStep ==
  ASSUME NEW v, NEW q, NEW a \in Account \cup {None}, NEW rest \in Seq(Answer),
         Good(v, <<Validated(a)>> \o rest, q)
  PROVE  Good(Judged(v, a), rest, q) /\ Judged(v, a).out = v.out
<1> DEFINE e == Validated(a)
           as == <<e>> \o rest
           w == Judged(v, a)
<1>1. e \in Answer /\ e.kind = "AccountValidated" /\ e.account = a
  BY DEF Validated, Answer
<1> HIDE DEF e
<1>2. <<e>> \in Seq(Answer) /\ as # <<>>
  BY <1>1
<1>3. Judges(e) /\ \A k \in Key : JudgesKey(e, k) <=> a = Owner[k]
  BY <1>1 DEF Judges, JudgesKey
<1>4. ~Silent(as)
  BY <1>2, <1>3, SilentAfter, OneElement
<1>5. \A k \in Key : LastIsOf(as, k) <=> LastIsOf(rest, k) \/ (Silent(rest) /\ a = Owner[k])
  <2>1. \A k : LastIsOf(as, k) <=> LastIsOf(rest, k) \/ (Silent(rest) /\ LastIsOf(<<e>>, k))
    BY <1>1, <1>2, LastAfter
  <2>2. \A k : LastIsOf(<<e>>, k) <=> JudgesKey(e, k)
    BY OneElement
  <2>3. QED
    BY <1>3, <2>1, <2>2
<1>6. Good(v, as, q)
  BY DEF e
<1> HIDE DEF as
<1>7. v \in Manager /\ ManagerOK(v) /\ v.key \in Key \cup {None}
  BY <1>6, ManagerTypes DEF Good, ManagerOK
<1>8. Verdict(a) \in {"Unknown", "Validating", "Invalid"} \cup Account
  BY DEF Verdict
<1>9. /\ w \in Manager /\ w.joined = v.joined /\ w.slot = v.slot
      /\ w.suppressed = v.suppressed /\ w.members = v.members /\ w.pending = v.pending
      /\ w.key = v.key /\ w.statusFor = v.statusFor
      /\ w.status = IF v.statusFor = v.key THEN Verdict(a) ELSE v.status
      /\ w.out = v.out /\ w.forgotten = v.forgotten /\ w.late = v.late
  BY <1>7, <1>8 DEF Judged, Manager
<1> HIDE DEF w
<1>10. ManagerOK(w) /\ Respected(w) /\ \A r : Kept(v, r) <=> Kept(w, r)
  BY <1>6, <1>7, <1>9 DEF ManagerOK, IsGroup, Good, Respected, Kept
<1>11. RoomsKept(w, srv, q)
  BY <1>6, <1>9, <1>10 DEF Good, RoomsKept
<1>12. ASSUME drops = 0
       PROVE  VerdictComes(w, rest, q) /\ (~up => Unheard(w, rest))
  <2>1. VerdictComes(v, as, q) /\ up
    BY <1>2, <1>6, <1>12 DEF Good, Unheard, as
  <2>2. ASSUME w.key # None PROVE VerdictComes(w, rest, q)
    <3>1. v.key # None /\ v.key \in Key
      BY <1>7, <1>9, <2>2
    <3>2. /\ v.statusFor # v.key => v.status = "Unknown"
          /\ \/ LastIsOf(q, v.key)
             \/ Silent(q) /\ LastIsOf(rest, v.key)
             \/ Silent(q) /\ Silent(rest) /\ a = Owner[v.key]
      BY <1>4, <1>5, <2>1, <3>1 DEF VerdictComes
    <3>3. QED
      BY <1>9, <3>2 DEF VerdictComes
  <2>3. QED
    BY <2>1, <2>2 DEF VerdictComes
<1>13. QED
  BY <1>9, <1>10, <1>11, <1>12 DEF Good, w

LEMMA HandleStep ==
  ASSUME toServer \in Seq(Command), NEW v, NEW e \in Answer, NEW rest \in Seq(Answer),
         Good(v, <<e>> \o rest, toServer \o v.out)
  PROVE  Good(Handle(v, e), rest, toServer \o Handle(v, e).out)
<1>1. CASE e.kind = "AccountValidated"
  <2>1. e.account \in Account \cup {None} /\ e = Validated(e.account)
    BY <1>1 DEF Answer, About, Validated, Identified, Notice
  <2>2. /\ Good(Judged(v, e.account), rest, toServer \o v.out)
        /\ Judged(v, e.account).out = v.out
    BY <2>1, JudgedStep
  <2>3. Handle(v, e) = Judged(v, e.account)
    BY <1>1 DEF Handle
  <2>4. QED
    BY <2>2, <2>3
<1>2. CASE e.kind # "AccountValidated"
  <2> DEFINE w == Handle(v, e)
             as == <<e>> \o rest
  <2>1. ~Judges(e)
    BY <1>2, AnswerCases DEF Judges
  <2>2. Good(w, as, toServer \o w.out)
    <3>1. CASE e.kind = "Connected"
      <4>1. w = Rejoin(v)
        BY <3>1 DEF Handle
      <4>2. QED
        BY <4>1, RejoinStep
    <3>2. CASE e.kind = "Disconnected"
      <4>1. w = [v EXCEPT !.state = "Disconnected"]
        BY <3>2 DEF Handle
      <4> HIDE DEF w
      <4>2. QED
        BY <4>1, AsideStep
    <3>3. CASE e.kind = "RoomJoined"
      <4>1. w = Joined(v, e.room) /\ e.room \in Room
        BY <3>3, AnswerCases DEF Handle
      <4>2. QED
        BY <4>1, JoinedStep
    <3>4. CASE e.kind = "JoinRejected"
      <4>1. w = Rejected(v, e.room) /\ e.room \in Room
        BY <3>4, AnswerCases DEF Handle
      <4>2. QED
        BY <4>1, RejectedStep
    <3>5. CASE e.kind = "GroupIdentified"
      <4>1. w = [v EXCEPT !.cluster = e.cluster] /\ e.cluster \in Group
        BY <3>5, AnswerCases DEF Handle
      <4> HIDE DEF w
      <4>2. QED
        BY <4>1, AsideStep
    <3>6. QED
      BY <1>2, <3>1, <3>2, <3>3, <3>4, <3>5, AnswerCases
  <2> HIDE DEF w
  <2>3. Good(w, rest, toServer \o w.out)
    BY <2>1, <2>2, NoVerdict
  <2>4. QED
    BY <2>3 DEF w
<1>3. QED
  BY <1>1, <1>2
-----------------------------------------------------------------------------
(* update() *)

LEMMA Least ==
  ASSUME NEW S \in SUBSET Nat, S # {}
  PROVE  \E n \in S : \A k \in S : n <= k
<1>1. PICK n \in S : \A k \in S : ~(<<k, n>> \in OpToRel(<, Nat))
  BY NatLessThanWellFounded, WFMin
<1>2. ASSUME NEW k \in S PROVE n <= k
  <2>1. k \in Nat /\ n \in Nat /\ ~(<<k, n>> \in OpToRel(<, Nat))
    BY <1>1
  <2>2. QED
    BY <2>1 DEF OpToRel
<1>3. QED
  BY <1>2

\* The recursion of After, as far as the i-th answer.
Course(f, i) == f = [j \in 0..i |-> IF j = 0 THEN m ELSE Handle(f[j - 1], answers[j])]

LEMMA AfterExists ==
  ASSUME answers \in Seq(Answer)
  PROVE  /\ After[0] = m
         /\ \A i \in 1..Len(answers) : After[i] = Handle(After[i - 1], answers[i])
<1> DEFINE N == Len(answers)
           Bad == {i \in 0..N : \A f : ~Course(f, i)}
<1>1. N \in Nat
  OBVIOUS
<1> HIDE DEF N
<1>2. Bad = {}
  <2> SUFFICES ASSUME Bad # {} PROVE FALSE
    OBVIOUS
  <2>1. Bad \in SUBSET Nat
    BY <1>1
  <2> HIDE DEF Bad
  <2>2. PICK n \in Bad : \A k \in Bad : n <= k
    BY <2>1, Least
  <2>3. n \in 0..N /\ \A f : ~Course(f, n)
    BY DEF Bad
  <2>4. CASE n = 0
    <3> DEFINE f == [j \in 0..0 |-> m]
    <3>1. f = [j \in 0..0 |-> IF j = 0 THEN m ELSE Handle(f[j - 1], answers[j])]
      OBVIOUS
    <3> HIDE DEF f
    <3>2. QED
      BY <2>3, <2>4, <3>1 DEF Course
  <2>5. CASE n # 0
    <3>1. n - 1 \in 0..N /\ ~(n <= n - 1) /\ n \in Nat
      BY <1>1, <2>3, <2>5
    <3>2. n - 1 \notin Bad
      BY <2>2, <3>1
    <3>3. PICK g : Course(g, n - 1)
      BY <3>1, <3>2 DEF Bad
    <3> DEFINE F(h, j) == IF j = 0 THEN m ELSE Handle(h[j - 1], answers[j])
               f == [j \in 0..n |-> F(g, j)]
    <3>4. g = [j \in 0..(n - 1) |-> F(g, j)]
      BY <3>3 DEF Course
    <3>5. \A j \in 0..(n - 1) : f[j] = g[j]
      <4> SUFFICES ASSUME NEW j \in 0..(n - 1) PROVE f[j] = g[j]
        OBVIOUS
      <4>1. j \in 0..n
        BY <3>1
      <4> HIDE DEF F
      <4>2. QED
        BY <3>4, <4>1
    <3>6. \A j \in 0..n : F(f, j) = F(g, j)
      <4> SUFFICES ASSUME NEW j \in 0..n PROVE F(f, j) = F(g, j)
        OBVIOUS
      <4>1. j # 0 => j - 1 \in 0..(n - 1)
        BY <3>1
      <4>2. j # 0 => f[j - 1] = g[j - 1]
        BY <3>5, <4>1
      <4> HIDE DEF f
      <4>3. QED
        BY <4>2
    <3> HIDE DEF F
    <3>7. f = [j \in 0..n |-> F(f, j)]
      BY <3>6
    <3> HIDE DEF f
    <3>8. Course(f, n)
      BY <3>7 DEF Course, F
    <3>9. QED
      BY <2>3, <3>8
  <2>6. QED
    BY <2>4, <2>5
<1>3. PICK f : Course(f, N)
  <2>1. N \in 0..N
    BY <1>1
  <2>2. QED
    BY <1>2, <2>1
<1>4. Course(After, N)
  <2>1. \E g : g = [j \in 0..Len(answers) |->
                     IF j = 0 THEN m ELSE Handle(g[j - 1], answers[j])]
    BY <1>3 DEF Course, N
  <2>2. After = CHOOSE g : g = [j \in 0..Len(answers) |->
                     IF j = 0 THEN m ELSE Handle(g[j - 1], answers[j])]
    BY DEF After
  <2>3. QED
    BY <2>1, <2>2 DEF Course, N
<1>5. \A j \in 0..N : After[j] = IF j = 0 THEN m ELSE Handle(After[j - 1], answers[j])
  <2> DEFINE G(j) == IF j = 0 THEN m ELSE Handle(After[j - 1], answers[j])
  <2>1. After = [j \in 0..N |-> G(j)]
    BY <1>4 DEF Course
  <2> HIDE DEF G
  <2>2. \A j \in 0..N : After[j] = G(j)
    BY <2>1
  <2>3. QED
    BY <2>2 DEF G
<1>6. 0 \in 0..N /\ \A i \in 1..N : i \in 0..N /\ i # 0
  BY <1>1
<1>7. QED
  BY <1>5, <1>6 DEF N

LEMMA HandledGood ==
  ASSUME IInv
  PROVE  Good(Handled, <<>>, toServer \o Handled.out) 
<1> DEFINE N == Len(answers)
           Rest(i) == SubSeq(answers, i + 1, N)
           G(i) == Good(After[i], Rest(i), toServer \o After[i].out)
           Bad == {i \in 0..N : ~G(i)}
<1>1. /\ answers \in Seq(Answer) /\ toServer \in Seq(Command) /\ N \in Nat
      /\ m.out = <<>> /\ Good(m, answers, toServer)
  BY DEF IInv, TypeOK
<1>2. /\ After[0] = m
      /\ \A i \in 1..N : After[i] = Handle(After[i - 1], answers[i])
  BY <1>1, AfterExists
<1>3. G(0)
  <2>1. Rest(0) = answers
    BY <1>1, SubSeqFull
  <2>2. toServer \o <<>> = toServer
    BY <1>1, ConcatEmptySeq
  <2>3. QED
    BY <1>1, <1>2, <2>1, <2>2
<1>4. ASSUME NEW i \in 1..N, G(i - 1)
      PROVE  G(i)
  <2>1. i \in 1..Len(answers) /\ Len(answers) \in i..Len(answers) /\ i - 1 + 1 = i
    BY <1>1
  <2>2. SubSeq(answers, i, N) = <<answers[i]>> \o SubSeq(answers, i + 1, N)
    BY <1>1, <2>1, SubSeqRecursiveFirst
  <2>3. Rest(i - 1) = <<answers[i]>> \o Rest(i)
    BY <2>1, <2>2
  <2>4. answers[i] \in Answer /\ Rest(i) \in Seq(Answer)
    BY <1>1, <2>1
  <2> HIDE DEF Rest
  <2>5. Good(After[i - 1], <<answers[i]>> \o Rest(i), toServer \o After[i - 1].out)
    BY <1>4, <2>3
  <2>6. Good(Handle(After[i - 1], answers[i]), Rest(i),
             toServer \o Handle(After[i - 1], answers[i]).out)
    BY <1>1, <2>4, <2>5, HandleStep
  <2>7. QED
    BY <1>2, <2>6
<1> HIDE DEF G
<1>5. Bad = {}
  <2> SUFFICES ASSUME Bad # {} PROVE FALSE
    OBVIOUS
  <2>1. Bad \in SUBSET Nat
    BY <1>1
  <2> HIDE DEF Bad
  <2>2. PICK n \in Bad : \A k \in Bad : n <= k
    BY <2>1, Least
  <2>3. n \in 0..N /\ ~G(n)
    BY DEF Bad
  <2>4. n # 0
    BY <1>3, <2>3
  <2> HIDE DEF N
  <2>5. n \in 1..N /\ n - 1 \in 0..N /\ ~(n <= n - 1)
    BY <1>1, <2>3, <2>4
  <2>6. n - 1 \notin Bad
    BY <2>2, <2>5
  <2>7. G(n - 1)
    BY <2>5, <2>6 DEF Bad
  <2>8. QED
    BY <1>4, <2>3, <2>5, <2>7
<1>6. G(N)
  <2>1. N \in 0..N
    BY <1>1
  <2>2. QED
    BY <1>5, <2>1
<1>7. Rest(N) = <<>>
  BY <1>1, SubSeqEmpty
<1> HIDE DEF Rest
<1>8. QED
  BY <1>6, <1>7 DEF G, Handled

LEMMA TrackingStep ==
  ASSUME IInv, NEW v, Good(v, <<>>, toServer \o v.out), NEW seen \in BOOLEAN
  PROVE  Good(Tracking(v, seen), <<>>, toServer \o Tracking(v, seen).out)
<1>1. ASSUME NEW u, Good(u, <<>>, toServer \o u.out), NEW s
      PROVE  Good(Track(u, s), <<>>, toServer \o Track(u, s).out)
  <2>1. CASE s \in Tracked
    <3>1. s \in Slot /\ s # "group" /\ at[s] \in RoomsOf(s) \cup {None}
      BY <2>1, AutoRoomsAssumption DEF IInv, TypeOK, Slot
    <3>2. toServer \in Seq(Command)
      BY DEF IInv, TypeOK
    <3>3. Good(Follow(u, s, at[s]), <<>>, toServer \o Follow(u, s, at[s]).out)
      BY <1>1, <3>1, <3>2, FollowStep
    <3>4. QED
      BY <2>1, <3>3 DEF Track
  <2>2. CASE s \notin Tracked
    BY <1>1, <2>2 DEF Track
  <2>3. QED
    BY <2>1, <2>2
<1>2. CASE seen
  <2> DEFINE a == Track(v, "map")
             b == Track(a, "wvw")
             c == Track(b, "pvp")
  <2>1. Good(a, <<>>, toServer \o a.out)
    BY <1>1
  <2> HIDE DEF a
  <2>2. Good(b, <<>>, toServer \o b.out)
    BY <1>1, <2>1
  <2> HIDE DEF b
  <2>3. Good(c, <<>>, toServer \o c.out)
    BY <1>1, <2>2
  <2>4. Tracking(v, seen) = c
    BY <1>2 DEF Tracking, a, b
  <2> HIDE DEF c
  <2>5. QED
    BY <2>3, <2>4
<1>3. CASE ~seen
  BY <1>3 DEF Tracking
<1>4. QED
  BY <1>2, <1>3

LEMMA TargetFits ==
  ASSUME IInv, NEW v \in Manager
  PROVE  /\ Target(v) \in RoomsOf("group") \cup {None}
         /\ Target(v) # None => Target(v).id \notin v.suppressed
<1>1. GroupKind \in Shape \cup {None}
  BY DEF GroupKind, IInv, TypeOK
<1>2. v.cluster \in Group \cup {None}
  BY ManagerTypes
<1>3. ASSUME v.cluster # None, GroupKind # None
      PROVE  [kind |-> GroupKind, id |-> v.cluster] \in RoomsOf("group")
  BY <1>1, <1>2, <1>3 DEF RoomsOf
<1>4. QED
  BY <1>3 DEF Target, Wants
-----------------------------------------------------------------------------
(* What a method leaves behind *)

LEMMA Stored ==
  ASSUME toServer \in Seq(Command), NEW v, NEW as, Good(v, as, toServer \o v.out),
         m' = [v EXCEPT !.out = <<>>], toServer' = toServer \o v.out, answers' = as,
         UNCHANGED <<srv, up, drops>>
  PROVE  /\ Good(m, answers, toServer)' /\ m'.out = <<>> /\ ManagerOK(m)'
         /\ toServer' \in Seq(Command)
<1> DEFINE w == [v EXCEPT !.out = <<>>]
<1>1. v \in Manager /\ ManagerOK(v) /\ v.out \in Seq(Command)
  BY ManagerTypes DEF Good, ManagerOK
<1>2. toServer \o v.out \in Seq(Command)
  BY <1>1, Concatenation
<1>3. /\ w \in Manager /\ w.joined = v.joined /\ w.slot = v.slot
      /\ w.suppressed = v.suppressed /\ w.members = v.members /\ w.pending = v.pending
      /\ w.key = v.key /\ w.status = v.status /\ w.statusFor = v.statusFor
      /\ w.out = <<>> /\ w.forgotten = v.forgotten /\ w.late = v.late
  BY <1>1, EmptySeq DEF Manager
<1>4. m' = w
  OBVIOUS
<1> HIDE DEF w
<1>5. ManagerOK(w) /\ Respected(w) /\ \A r : Kept(v, r) <=> Kept(w, r)
  BY <1>1, <1>3 DEF ManagerOK, IsGroup, Good, Respected, Kept
<1> DEFINE q == toServer \o v.out
<1>6. Good(v, as, q) /\ toServer' = q
  OBVIOUS
<1> HIDE DEF q
<1>7. RoomsKept(w, srv, q)
  BY <1>3, <1>5, <1>6 DEF Good, RoomsKept
<1>8. drops = 0 => VerdictComes(w, as, q) /\ (~up => Unheard(w, as))
  BY <1>3, <1>6 DEF Good, VerdictComes, Unheard
<1>9. ManagerOK(m')
  BY <1>4, <1>5
<1>10. /\ RoomsKept(m', srv', toServer') /\ Respected(m')
       /\ drops' = 0 => VerdictComes(m', answers', toServer') /\ (~up' => Unheard(m', answers'))
  BY <1>4, <1>5, <1>6, <1>7, <1>8
<1>11. Good(m, answers, toServer)'
  BY <1>9, <1>10 DEF Good
<1>12. QED
  BY <1>2, <1>3, <1>4, <1>9, <1>11

LEMMA CallStep ==
  ASSUME IInv, NEW v, Good(v, answers, toServer \o v.out), Call(v), moves' \in 0..MaxMoves
  PROVE  IInv'
<1>1. /\ m' = [v EXCEPT !.out = <<>>] /\ toServer' = toServer \o v.out /\ answers' = answers
      /\ UNCHANGED <<srv, up, drops>> /\ UNCHANGED <<at, group, shape, bound>>
  BY DEF Call, player, session
<1>2. toServer \in Seq(Command)
  BY DEF IInv, TypeOK
<1>3. /\ Good(m, answers, toServer)' /\ m'.out = <<>> /\ ManagerOK(m)'
      /\ toServer' \in Seq(Command)
  BY <1>1, <1>2, Stored
<1>4. TypeOK'
  BY <1>1, <1>3 DEF IInv, TypeOK
<1>5. (~up => srv = {})'
  BY <1>1 DEF IInv
<1>6. QED
  BY <1>3, <1>4, <1>5 DEF IInv

\* Between the calls nothing is held back.
LEMMA AtRest ==
  ASSUME IInv
  PROVE  /\ toServer \in Seq(Command) /\ answers \in Seq(Answer)
         /\ ManagerOK(m) /\ m \in Manager /\ m.out = <<>>
         /\ Good(m, answers, toServer \o m.out)
<1>1. /\ toServer \in Seq(Command) /\ answers \in Seq(Answer)
      /\ ManagerOK(m) /\ m.out = <<>> /\ Good(m, answers, toServer)
  BY DEF IInv, TypeOK
<1>2. toServer \o m.out = toServer
  BY <1>1, ConcatEmptySeq
<1>3. QED
  BY <1>1, <1>2 DEF ManagerOK

LEMMA MoveBound ==
  ASSUME IInv, Move
  PROVE  moves' \in 0..MaxMoves
BY AutoRoomsAssumption DEF IInv, TypeOK, Move

LEMMA UpdateStep ==
  ASSUME IInv, NEW seen \in BOOLEAN, NEW due \in BOOLEAN, Update(seen, due)
  PROVE  IInv'
<1> DEFINE a == Handled
           b == Tracking(a, seen)
           c == IF due THEN Flush(b) ELSE b
           d == Follow(c, "group", Target(c))
<1>1. toServer \in Seq(Command)
  BY AtRest
<1>2. Good(a, <<>>, toServer \o a.out)
  BY HandledGood
<1>3. /\ m' = [d EXCEPT !.out = <<>>] /\ toServer' = toServer \o d.out /\ answers' = <<>>
      /\ UNCHANGED <<srv, up, drops>> /\ UNCHANGED <<at, group, shape, bound, moves>>
  BY DEF Update, player, session
<1> HIDE DEF a
<1>4. Good(b, <<>>, toServer \o b.out)
  BY <1>2, TrackingStep
<1> HIDE DEF b
<1>5. Good(c, <<>>, toServer \o c.out)
  BY <1>1, <1>4, FlushStep
<1> HIDE DEF c
<1>6. Good(d, <<>>, toServer \o d.out)
  <2>1. c \in Manager
    BY <1>5 DEF Good, ManagerOK
  <2>2. /\ Target(c) \in RoomsOf("group") \cup {None}
        /\ Target(c) # None => Target(c).id \notin c.suppressed
    BY <2>1, TargetFits
  <2>3. QED
    BY <1>1, <1>5, <2>2, FollowStep, RoomFacts
<1> HIDE DEF d
<1>7. /\ Good(m, answers, toServer)' /\ m'.out = <<>> /\ ManagerOK(m)'
      /\ toServer' \in Seq(Command)
  BY <1>1, <1>3, <1>6, Stored
<1>8. answers' \in Seq(Answer)
  BY <1>3, EmptySeq
<1>9. TypeOK'
  BY <1>3, <1>7, <1>8 DEF IInv, TypeOK
<1>10. (~up => srv = {})'
  BY <1>3 DEF IInv
<1>11. QED
  BY <1>7, <1>9, <1>10 DEF IInv
-----------------------------------------------------------------------------
(* Player and user *)

LEMMA PlayerStep ==
  ASSUME IInv,
         \/ \E s \in Tracked : \E r \in RoomsOf(s) \cup {None} : Travel(s, r)
         \/ \E g \in Group \cup {None}, kind \in Shape : Regroup(g, kind)
  PROVE  IInv'
<1>1. UNCHANGED <<m, toServer, answers, up, srv, bound, drops>>
  BY DEF Travel, Regroup, session
<1>2. moves' \in 0..MaxMoves
  BY MoveBound DEF Travel, Regroup
<1>3. /\ at' \in [Tracked -> Room \cup {None}]
      /\ \A s \in Tracked : at'[s] \in RoomsOf(s) \cup {None}
      /\ group' \in Group \cup {None} /\ shape' \in Shape
  <2>1. ASSUME NEW s \in Tracked, NEW r \in RoomsOf(s) \cup {None}, Travel(s, r)
        PROVE  <1>3!:
    <3>1. r \in Room \cup {None}
      BY RoomFacts DEF Slot
    <3>2. QED
      BY <2>1, <3>1 DEF Travel, IInv, TypeOK
  <2>2. ASSUME NEW g \in Group \cup {None}, NEW kind \in Shape, Regroup(g, kind)
        PROVE  <1>3!:
    BY <2>2 DEF Regroup, IInv, TypeOK
  <2>3. QED
    BY <2>1, <2>2
<1>4. TypeOK'
  BY <1>1, <1>2, <1>3 DEF IInv, TypeOK
<1>5. Good(m, answers, toServer)'
  BY <1>1 DEF IInv, Good
<1>6. QED
  BY <1>1, <1>4, <1>5 DEF IInv

LEMMA MemberStep ==
  ASSUME IInv, MemberUpdated \/ \E a \in Account : MemberJoined(a) \/ MemberLeft(a)
  PROVE  IInv'
<1>1. /\ m \in Manager /\ m.members \subseteq Account /\ toServer \in Seq(Command)
      /\ Good(m, answers, toServer \o m.out)
  BY AtRest, ManagerTypes
<1>2. ASSUME NEW ms \in SUBSET Account, NEW w,
             w = GroupChanged([m EXCEPT !.members = ms]), Call(w), moves' \in 0..MaxMoves
      PROVE  IInv'
  <2>1. Good(w, answers, toServer \o w.out)
    BY <1>1, <1>2, GroupChangedStep
  <2>2. QED
    BY <1>2, <2>1, CallStep
<1>3. moves \in 0..MaxMoves
  BY DEF IInv, TypeOK
<1>4. ASSUME NEW a \in Account, MemberJoined(a) PROVE IInv'
  <2>1. m.members \cup {a} \in SUBSET Account
    BY <1>1
  <2>2. Call(GroupChanged([m EXCEPT !.members = m.members \cup {a}])) /\ moves' = moves
    BY <1>4 DEF MemberJoined
  <2>3. QED
    BY <1>2, <1>3, <2>1, <2>2
<1>5. ASSUME NEW a \in Account, MemberLeft(a) PROVE IInv'
  <2>1. m.members \ {a} \in SUBSET Account
    BY <1>1
  <2>2. Call(GroupChanged([m EXCEPT !.members = m.members \ {a}])) /\ moves' = moves
    BY <1>5 DEF MemberLeft
  <2>3. QED
    BY <1>2, <1>3, <2>1, <2>2
<1>6. CASE MemberUpdated
  <2>1. m = [m EXCEPT !.members = m.members]
    BY <1>1 DEF Manager
  <2>2. Call(GroupChanged(m)) /\ Move
    BY <1>6 DEF MemberUpdated
  <2>3. moves' \in 0..MaxMoves
    BY <2>2, MoveBound
  <2>4. QED
    BY <1>1, <1>2, <2>1, <2>2, <2>3
<1>7. QED
  BY <1>4, <1>5, <1>6

LEMMA LeaveManualStep ==
  ASSUME IInv, NEW r \in Room, LeaveManual(r)
  PROVE  IInv'
<1> DEFINE sl == [s \in Slot |-> IF m.slot[s] = r THEN None ELSE m.slot[s]]
           su == IF m.slot["group"] = r THEN m.suppressed \cup {r.id} ELSE m.suppressed
           u == [m EXCEPT !.slot = sl, !.suppressed = su]
           w == LeaveRoom(u, r)
           p == <<Leave(r)>>
<1>1. /\ m \in Manager /\ ManagerOK(m) /\ m.out = <<>> /\ toServer \in Seq(Command)
      /\ Good(m, answers, toServer \o m.out)
      /\ m.slot \in [Slot -> Room \cup {None}] /\ m.suppressed \subseteq Group
  BY AtRest, ManagerTypes
<1>2. Call(w) /\ moves' \in 0..MaxMoves
  <2>1. \A s \in Slot : s \in {z \in Slot : m.slot[z] = r} <=> m.slot[s] = r
    OBVIOUS
  <2>2. "group" \in {z \in Slot : m.slot[z] = r} <=> m.slot["group"] = r
    BY RoomFacts
  <2>3. sl = [s \in Slot |-> IF s \in {z \in Slot : m.slot[z] = r} THEN None ELSE m.slot[s]]
    OBVIOUS
  <2>4. su = IF "group" \in {z \in Slot : m.slot[z] = r}
             THEN m.suppressed \cup {r.id} ELSE m.suppressed
    BY <2>2
  <2> HIDE DEF sl, su
  <2>5. Call(w)
    BY <2>3, <2>4 DEF LeaveManual
  <2>6. QED
    BY <2>5, MoveBound DEF LeaveManual
<1>3. /\ sl \in [Slot -> Room \cup {None}] /\ su \subseteq Group
      /\ \A s \in Slot : sl[s] = IF m.slot[s] = r THEN None ELSE m.slot[s]
      /\ su \subseteq m.suppressed \/ m.slot["group"] = r
  <2>1. m.slot["group"] = r => r.id \in Group
    <3>1. m.slot["group"] \in RoomsOf("group") \cup {None}
      BY <1>1, RoomFacts DEF ManagerOK
    <3>2. QED
      BY <3>1, NoneIsNoRoom, RoomFacts
  <2>2. QED
    BY <1>1, <2>1
<1> HIDE DEF sl, su
<1>4. /\ u \in Manager /\ u.joined = m.joined /\ u.slot = sl
      /\ u.suppressed = su /\ u.members = m.members /\ u.pending = m.pending
      /\ u.key = m.key /\ u.status = m.status /\ u.statusFor = m.statusFor
      /\ u.out = m.out /\ u.forgotten = m.forgotten /\ u.late = m.late
  BY <1>1, <1>3 DEF Manager
<1> HIDE DEF u
<1>5. /\ w \in Manager /\ w.joined = m.joined \ {r} /\ w.slot = sl
      /\ w.suppressed = su /\ w.members = m.members /\ w.pending = m.pending
      /\ w.key = m.key /\ w.status = m.status /\ w.statusFor = m.statusFor
      /\ w.out = m.out \o p
      /\ w.forgotten = m.forgotten \ {r} /\ w.late = m.late \ {r}
  BY <1>4, LeaveRoomFields
<1>6. /\ p \in Seq(Command) /\ Silent(p)
      /\ \A t : ~Going(t, {}, p)
      /\ \A t : Stays(t, p) => t # r
  <2>1. Leave(r) \in Command /\ Leave(r).kind = "LeaveRoom"
    BY CommandFacts
  <2>2. QED
    BY <2>1, OneElement DEF Judges
<1> HIDE DEF w, p
<1>7. ManagerOK(w)
  <2>1. IsFiniteSet(m.joined \ {r})
    BY <1>1, FS_RemoveElement DEF ManagerOK
  <2>2. QED
    BY <1>1, <1>3, <1>5, <2>1 DEF ManagerOK, IsGroup
<1>8. Respected(w)
  BY <1>1, <1>3, <1>5, RoomFacts DEF Good, Respected
<1>9. \A t \in Room :
        \/ t \in w.joined \/ Going(t, {}, p)
        \/ Stays(t, p) /\ Kept(m, t) /\ Going(t, srv, toServer \o m.out)
        => Kept(w, t)
  <2>1. \A t \in Room : t # r /\ Kept(m, t) => Kept(w, t)
    BY <1>3, <1>5 DEF Kept
  <2>2. \A t \in Room : t \in m.joined => Kept(m, t)
    BY <1>1 DEF Good, RoomsKept
  <2>3. QED
    BY <1>5, <1>6, <2>1, <2>2
<1>10. Good(w, answers, toServer \o w.out)
  BY <1>1, <1>5, <1>6, <1>7, <1>8, <1>9, Changed
<1>11. QED
  BY <1>2, <1>10, CallStep

Asked(k) == IF k = None THEN <<>> ELSE <<Validate(k)>>

LEMMA RevalidateFields ==
  ASSUME NEW v \in Manager
  PROVE  /\ Revalidate(v) \in Manager
         /\ Revalidate(v).joined = v.joined /\ Revalidate(v).slot = v.slot
         /\ Revalidate(v).suppressed = v.suppressed /\ Revalidate(v).members = v.members
         /\ Revalidate(v).pending = v.pending /\ Revalidate(v).key = v.key
         /\ Revalidate(v).out = v.out \o Asked(v.key)
         /\ Revalidate(v).forgotten = v.forgotten /\ Revalidate(v).late = v.late
         /\ v.key = None => Revalidate(v).status = "Unknown"
         /\ v.key # None => /\ Revalidate(v).status = "Validating"
                            /\ Revalidate(v).statusFor = v.key
<1>1. v.key \in Key \cup {None} /\ v.out \in Seq(Command)
  BY ManagerTypes
<1>2. CASE v.key = None
  <2>1. v.out \o <<>> = v.out
    BY <1>1, ConcatEmptySeq
  <2>2. Revalidate(v) = [v EXCEPT !.status = "Unknown", !.statusFor = None]
    BY <1>2 DEF Revalidate
  <2>3. QED
    BY <1>2, <2>1, <2>2 DEF Manager, Asked
<1>3. CASE v.key # None
  <2>1. Validate(v.key) \in Command
    BY <1>1, <1>3, CommandFacts
  <2>2. /\ Append(v.out, Validate(v.key)) = v.out \o <<Validate(v.key)>>
        /\ Append(v.out, Validate(v.key)) \in Seq(Command)
    BY <1>1, <2>1
  <2>3. QED
    BY <1>3, <2>2 DEF Revalidate, Send, Validating, Manager, Asked
<1>4. QED
  BY <1>2, <1>3

LEMMA ChangeKeyStep ==
  ASSUME IInv, NEW k \in Key \cup {None}, ChangeKey(k)
  PROVE  IInv'
<1> DEFINE u == [m EXCEPT !.key = k]
           x == IF m.state = "InRoom" THEN u ELSE Strike(u, Slot)
           w == Revalidate(x)
           p == Asked(k)
<1>1. /\ m \in Manager /\ ManagerOK(m) /\ m.out = <<>> /\ toServer \in Seq(Command)
      /\ Good(m, answers, toServer \o m.out)
  BY AtRest
<1>2. Call(w) /\ moves' \in 0..MaxMoves
  BY MoveBound DEF ChangeKey
<1>3. /\ u \in Manager /\ u.joined = m.joined /\ u.slot = m.slot
      /\ u.suppressed = m.suppressed /\ u.members = m.members /\ u.pending = m.pending
      /\ u.key = k /\ u.out = m.out /\ u.forgotten = m.forgotten /\ u.late = m.late
  BY <1>1 DEF Manager
<1> HIDE DEF u
<1>4. /\ x \in Manager /\ x.joined = m.joined
      /\ \A s \in Slot : x.slot[s] \in {None, m.slot[s]}
      /\ x.suppressed = m.suppressed /\ x.members = m.members /\ x.pending = m.pending
      /\ x.key = k /\ x.out = m.out
      /\ \A r \in Room : Kept(m, r) => Kept(x, r)
  <2>1. CASE m.state = "InRoom"
    BY <1>3, <2>1 DEF Kept
  <2>2. CASE m.state # "InRoom"
    <3> DEFINE y == Strike(u, Slot)
    <3>1. /\ y \in Manager /\ y.joined = m.joined
          /\ \A s \in Slot : y.slot[s] = None
          /\ y.suppressed = m.suppressed /\ y.members = m.members /\ y.pending = m.pending
          /\ y.key = k /\ y.out = m.out
      BY <1>3, StrikeFields
    <3>2. \A r : Kept(m, r) <=> Kept(u, r)
      BY <1>3 DEF Kept
    <3>3. \A r \in Room : Kept(u, r) => Kept(y, r)
      BY <1>3, StrikeKeeps
    <3>4. x = y
      BY <2>2
    <3> HIDE DEF y, x
    <3>5. QED
      BY <3>1, <3>2, <3>3, <3>4
  <2>3. QED
    BY <2>1, <2>2
<1> HIDE DEF x
<1>5. /\ w \in Manager /\ w.joined = x.joined /\ w.slot = x.slot
      /\ w.suppressed = x.suppressed /\ w.members = x.members
      /\ w.pending = x.pending /\ w.key = k /\ w.out = m.out \o p
      /\ w.forgotten = x.forgotten /\ w.late = x.late
      /\ k = None => w.status = "Unknown"
      /\ k # None => w.status = "Validating" /\ w.statusFor = k
  <2>1. /\ w \in Manager /\ w.joined = x.joined /\ w.slot = x.slot
        /\ w.suppressed = x.suppressed /\ w.members = x.members
        /\ w.pending = x.pending /\ w.key = x.key /\ w.out = x.out \o Asked(x.key)
        /\ w.forgotten = x.forgotten /\ w.late = x.late
        /\ x.key = None => w.status = "Unknown"
        /\ x.key # None => w.status = "Validating" /\ w.statusFor = x.key
    <3>1. x \in Manager /\ w = Revalidate(x)
      BY <1>4
    <3> HIDE DEF p, w
    <3>2. QED
      BY ONLY <3>1, RevalidateFields
  <2> HIDE DEF w
  <2>2. QED
    BY <1>4, <2>1
<1> HIDE DEF w
<1>6. /\ p \in Seq(Command) /\ \A t : ~Going(t, {}, p)
      /\ k # None => LastIsOf(p, k)
  <2>1. CASE k = None
    BY <2>1, NoElement DEF Asked
  <2>2. CASE k # None
    <3>1. /\ Validate(k) \in Command /\ Validate(k).kind = "ValidateApiKey"
          /\ Validate(k).key = k
      BY <2>2, CommandFacts
    <3>2. JudgesKey(Validate(k), k)
      BY <3>1 DEF JudgesKey
    <3>3. QED
      BY <2>2, <3>1, <3>2, OneElement DEF Asked
  <2>3. QED
    BY <2>1, <2>2
<1> HIDE DEF p
<1>7. ManagerOK(w)
  BY <1>1, <1>4, <1>5 DEF ManagerOK, IsGroup
<1>8. Respected(w)
  BY <1>1, <1>4, <1>5, RoomFacts DEF Good, Respected
<1>9. \A t \in Room :
        \/ t \in w.joined \/ Going(t, {}, p)
        \/ Stays(t, p) /\ Kept(m, t) /\ Going(t, srv, toServer \o m.out)
        => Kept(w, t)
  <2>1. \A t : Kept(x, t) <=> Kept(w, t)
    BY <1>5 DEF Kept
  <2>2. \A t \in Room : t \in m.joined => Kept(m, t)
    BY <1>1 DEF Good, RoomsKept
  <2>3. QED
    BY <1>4, <1>5, <1>6, <2>1, <2>2
<1>10. Good(w, answers, toServer \o w.out)
  BY <1>1, <1>5, <1>6, <1>7, <1>8, <1>9, Changed
<1>11. QED
  BY <1>2, <1>10, CallStep

LEMMA SwitchAutoStep ==
  ASSUME IInv, SwitchAuto
  PROVE  IInv'
<1> DEFINE w == [m EXCEPT !.auto = ~@]
<1>1. Good(m, answers, toServer \o m.out) /\ toServer \in Seq(Command)
  BY AtRest
<1>2. Call(w) /\ moves' \in 0..MaxMoves
  BY MoveBound DEF SwitchAuto
<1>3. w \in {[m EXCEPT !.auto = ~@]}
  OBVIOUS
<1> HIDE DEF w
<1>4. Good(w, answers, toServer \o w.out)
  BY <1>1, <1>3, AsideStep
<1>5. QED
  BY <1>2, <1>4, CallStep
-----------------------------------------------------------------------------
(* The link *)

\* The manager is left alone.
LEMMA Outside ==
  ASSUME IInv, m' = m, UNCHANGED player, moves' \in 0..MaxMoves,
         toServer' \in Seq(Command), answers' \in Seq(Answer), up' \in BOOLEAN,
         srv' \subseteq Room, bound' \in Account \cup {None}, drops' \in 0..MaxDrops,
         ~up' => srv' = {},
         \A r \in Room : Going(r, srv', toServer') => Going(r, srv, toServer),
         drops' = 0 => /\ VerdictComes(m, answers', toServer')
                       /\ ~up' => Unheard(m, answers')
  PROVE  IInv'
<1>1. UNCHANGED <<at, group, shape>>
  BY DEF player
<1>2. TypeOK'
  BY <1>1 DEF IInv, TypeOK
<1>3. RoomsKept(m, srv', toServer')
  BY DEF IInv, Good, RoomsKept
<1>4. ManagerOK(m') /\ Respected(m')
  BY DEF IInv, Good
<1>5. RoomsKept(m', srv', toServer')
  BY <1>3
<1>6. drops' = 0 => VerdictComes(m', answers', toServer') /\ (~up' => Unheard(m', answers'))
  OBVIOUS
<1>7. Good(m, answers, toServer)'
  BY <1>4, <1>5, <1>6 DEF Good
<1>8. QED
  BY <1>2, <1>7 DEF IInv

\* An answer that is no verdict does not change what the last one is of.
LEMMA QuietAnswer ==
  ASSUME NEW v, NEW q, NEW as \in Seq(Answer), NEW e \in Answer, ~Judges(e),
         VerdictComes(v, as, q)
  PROVE  VerdictComes(v, Append(as, e), q)
<1>1. <<e>> \in Seq(Answer) /\ Append(as, e) = as \o <<e>>
  <2>1. <<e>> \in Seq(Answer)
    OBVIOUS
  <2>2. Append(as, e) = as \o <<e>>
    BY AppendIsConcat
  <2>3. QED
    BY <2>1, <2>2
<1>2. Silent(<<e>>) /\ \A k : ~LastIsOf(<<e>>, k)
  BY OneElement DEF Judges, JudgesKey
<1>3. Silent(as \o <<e>>) <=> Silent(as)
  BY <1>1, <1>2, SilentAfter
<1>4. \A k : LastIsOf(as \o <<e>>, k) <=> LastIsOf(as, k)
  BY <1>1, <1>2, LastAfter
<1>5. QED
  BY <1>1, <1>3, <1>4 DEF VerdictComes

LEMMA NoticeFacts ==
  ASSUME NEW kind \in {"Connected", "Disconnected"}
  PROVE  Notice(kind) \in Answer /\ ~Judges(Notice(kind))
BY DEF Notice, Answer, Judges

LEMMA ConnectStep ==
  ASSUME IInv, Connect
  PROVE  IInv'
<1>1. /\ answers \in Seq(Answer) /\ toServer \in Seq(Command)
      /\ srv = {} /\ drops \in 0..MaxDrops
      /\ drops = 0 => VerdictComes(m, answers, toServer)
  BY DEF Connect, IInv, TypeOK, Good
<1>2. /\ up' = TRUE /\ srv' = {} /\ bound' = None /\ UNCHANGED <<toServer, drops, m, player>>
      /\ answers' = Append(answers, Notice("Connected")) /\ moves' \in 0..MaxMoves
  BY DEF Connect, IInv, TypeOK
<1>3. answers' \in Seq(Answer)
  BY <1>1, <1>2, NoticeFacts
<1>4. drops = 0 => VerdictComes(m, answers', toServer)
  BY <1>1, <1>2, NoticeFacts, QuietAnswer
<1>5. QED
  BY <1>1, <1>2, <1>3, <1>4, Outside

LEMMA DropStep ==
  ASSUME IInv, Drop
  PROVE  IInv'
<1>1. /\ answers \in Seq(Answer) /\ toServer \in Seq(Command) /\ drops \in 0..MaxDrops
  BY DEF IInv, TypeOK
<1>2. /\ up' = FALSE /\ srv' = {} /\ bound' = None /\ m' = m
      /\ drops < MaxDrops /\ drops' = drops + 1
      /\ UNCHANGED player /\ moves' \in 0..MaxMoves
  BY DEF Drop, IInv, TypeOK
<1>3. drops' \in 0..MaxDrops /\ drops' # 0
  BY <1>1, <1>2, AutoRoomsAssumption
<1>4. PICK i \in 0..Len(answers) :
        answers' = Append(SubSeq(answers, 1, i), Notice("Disconnected"))
  BY DEF Drop
<1>5. PICK j \in 1..(Len(toServer) + 1) : toServer' = SubSeq(toServer, j, Len(toServer))
  BY DEF Drop
<1>6. answers' \in Seq(Answer)
  <2>1. SubSeq(answers, 1, i) \in Seq(Answer)
    BY <1>1
  <2>2. QED
    BY <1>4, <2>1, NoticeFacts
<1> DEFINE a == SubSeq(toServer, 1, j - 1)
           b == SubSeq(toServer, j, Len(toServer))
<1>7. a \in Seq(Command) /\ b \in Seq(Command)
  BY <1>1
<1>8. toServer = a \o b
  <2>1. /\ Len(toServer) \in Nat /\ 1 \in 1..Len(toServer) + 1
        /\ j - 1 \in 1 - 1..Len(toServer) /\ Len(toServer) \in j - 1..Len(toServer)
        /\ j - 1 + 1 = j
    BY <1>1
  <2>2. a \o SubSeq(toServer, j - 1 + 1, Len(toServer)) = SubSeq(toServer, 1, Len(toServer))
    BY <1>1, <2>1, ConcatAdjacentSubSeq
  <2>3. QED
    BY <1>1, <2>1, <2>2, SubSeqFull
<1> HIDE DEF a
<1>9. toServer' = b
  BY <1>5
<1> HIDE DEF b
<1>10. \A r \in Room : Going(r, srv', toServer') => Going(r, srv, toServer)
  <2>1. \A r : Going(r, {}, b) => Going(r, srv, a \o b)
    BY <1>7, GoingAfter
  <2>2. QED
    BY <1>2, <1>8, <1>9, <2>1
<1>11. QED
  BY <1>2, <1>3, <1>6, <1>7, <1>9, <1>10, Outside

LEMMA LoseCommandStep ==
  ASSUME IInv, LoseCommand
  PROVE  IInv'
<1> DEFINE c == Head(toServer)
           rest == Tail(toServer)
<1>1. /\ answers \in Seq(Answer) /\ toServer \in Seq(Command) /\ toServer # <<>>
      /\ srv = {} /\ ~up
      /\ drops = 0 => VerdictComes(m, answers, toServer) /\ Unheard(m, answers)
  BY DEF IInv, TypeOK, LoseCommand, Good
<1>2. /\ rest \in Seq(Command) /\ <<c>> \in Seq(Command) /\ toServer = <<c>> \o rest
  BY <1>1, FirstAndRest
<1>3. /\ toServer' = rest /\ UNCHANGED <<m, answers, up, srv, bound, drops>>
      /\ UNCHANGED player /\ moves' \in 0..MaxMoves
  BY DEF LoseCommand, session, IInv, TypeOK
<1> HIDE DEF rest, c
<1>4. \A r \in Room : Going(r, srv', rest) => Going(r, srv, toServer)
  <2>1. \A r : Going(r, {}, rest) => Going(r, srv, <<c>> \o rest)
    BY <1>2, GoingAfter
  <2>2. QED
    BY <1>1, <1>2, <1>3, <2>1
<1>5. ASSUME drops = 0 PROVE VerdictComes(m, answers, rest)
  <2>1. VerdictComes(m, answers, toServer) /\ Unheard(m, answers)
    BY <1>1, <1>5
  <2>2. \A k : LastIsOf(toServer, k) <=> LastIsOf(rest, k) \/ (Silent(rest) /\ LastIsOf(<<c>>, k))
    BY <1>2, LastAfter
  <2>3. Silent(toServer) => Silent(rest)
    BY <1>2, SilentAfter
  <2>4. Silent(answers) /\ \A k : ~LastIsOf(answers, k)
    BY <2>1, NoElement DEF Unheard
  <2>5. QED
    BY <2>1, <2>2, <2>3, <2>4 DEF VerdictComes, Unheard
<1>6. /\ up' \in BOOLEAN /\ srv' \subseteq Room /\ bound' \in Account \cup {None}
      /\ drops' \in 0..MaxDrops
  BY <1>3 DEF IInv, TypeOK
<1>7. QED
  BY <1>1, <1>2, <1>3, <1>4, <1>5, <1>6, Outside
-----------------------------------------------------------------------------
(* The session *)

\* A command of the queue is carried out: c, its answers, and the rooms it leaves
\* the peer with.
LEMMA Served ==
  ASSUME IInv, NEW c \in Command, NEW rest \in Seq(Command), toServer = <<c>> \o rest,
         up, up' = up, m' = m, UNCHANGED player,
         moves' \in 0..MaxMoves, drops' \in 0..MaxDrops, drops' = 0 => drops = 0,
         toServer' = rest, NEW reply \in Seq(Answer), answers' = answers \o reply,
         srv' \subseteq Room, bound' \in Account \cup {None},
         \A r \in srv' : Going(r, srv, <<c>>),
         drops' = 0 => \A k \in Key : JudgesKey(c, k) => LastIsOf(reply, k),
         drops' = 0 /\ ~Judges(c) => Silent(reply)
  PROVE  IInv'
<1>1. /\ answers \in Seq(Answer) /\ toServer \in Seq(Command) /\ up \in BOOLEAN
      /\ drops \in 0..MaxDrops /\ m.key \in Key \cup {None}
      /\ drops = 0 => VerdictComes(m, answers, toServer)
  BY AtRest, ManagerTypes DEF IInv, TypeOK, Good
<1>2. <<c>> \in Seq(Command)
  OBVIOUS
<1>3. answers' \in Seq(Answer)
  BY <1>1, Concatenation
<1>4. ASSUME NEW r \in Room, Going(r, srv', rest)
      PROVE  Going(r, srv, toServer)
  <2>1. Going(r, srv, <<c>> \o rest) <=> Going(r, {}, rest) \/ (Stays(r, rest) /\ Going(r, srv, <<c>>))
    BY <1>2, GoingAfter
  <2>2. Going(r, {}, rest) \/ (r \in srv' /\ Stays(r, rest))
    BY <1>4 DEF Going
  <2>3. QED
    BY <2>1, <2>2
<1>5. ASSUME drops' = 0, m.key # None
      PROVE  /\ m.statusFor # m.key => m.status = "Unknown"
             /\ \/ LastIsOf(rest, m.key)
                \/ Silent(rest) /\ LastIsOf(answers \o reply, m.key)
                \/ /\ Silent(rest) /\ Silent(answers \o reply)
                   /\ m.status \in {"Unknown", "Validating", Verdict(Owner[m.key])}
  <2>1. LastIsOf(toServer, m.key) <=>
          LastIsOf(rest, m.key) \/ (Silent(rest) /\ LastIsOf(<<c>>, m.key))
    BY <1>2, LastAfter
  <2>2. Silent(toServer) <=> Silent(<<c>>) /\ Silent(rest)
    BY <1>2, SilentAfter
  <2>3. (LastIsOf(<<c>>, m.key) <=> JudgesKey(c, m.key)) /\ (Silent(<<c>>) <=> ~Judges(c))
    BY OneElement
  <2>4. LastIsOf(answers \o reply, m.key) <=>
          LastIsOf(reply, m.key) \/ (Silent(reply) /\ LastIsOf(answers, m.key))
    BY <1>1, LastAfter
  <2>5. Silent(answers \o reply) <=> Silent(answers) /\ Silent(reply)
    BY <1>1, SilentAfter
  <2>6. VerdictComes(m, answers, toServer) /\ m.key \in Key
    BY <1>1, <1>5
  <2>7. QED
    BY <1>5, <2>1, <2>2, <2>3, <2>4, <2>5, <2>6 DEF VerdictComes
<1>6. drops' = 0 => VerdictComes(m, answers', rest)
  BY <1>5 DEF VerdictComes
<1>7. QED
  BY <1>1, <1>3, <1>4, <1>6, Outside

LEMMA VerdictFacts ==
  ASSUME NEW k \in Key
  PROVE  /\ Validated(Owner[k]) \in Answer /\ JudgesKey(Validated(Owner[k]), k)
         /\ Owner[k] \in Account \cup {None}
BY AutoRoomsAssumption DEF Validated, Answer, JudgesKey

\* The verdict comes first, and the room's answer is none.
LEMMA JoinReply ==
  ASSUME NEW k \in Key, NEW kind \in {"RoomJoined", "JoinRejected"}, NEW r \in Room
  PROVE  LET reply == <<Validated(Owner[k]), About(kind, r)>>
         IN  reply \in Seq(Answer) /\ LastIsOf(reply, k)
<1> DEFINE a == Validated(Owner[k])
           b == About(kind, r)
           reply == <<a, b>>
<1>1. a \in Answer /\ JudgesKey(a, k)
  BY VerdictFacts
<1>2. b \in Answer /\ ~Judges(b)
  BY DEF About, Answer, Judges
<1> HIDE DEF a, b
<1>3. reply \in Seq(Answer)
  BY <1>1, <1>2
<1>4. DOMAIN reply = {1, 2} /\ reply[1] = a /\ reply[2] = b
  OBVIOUS
<1> HIDE DEF reply
<1>5. \A j \in DOMAIN reply : j > 1 => j = 2
  BY <1>4
<1>6. LastIsOf(reply, k)
  BY <1>1, <1>2, <1>4, <1>5 DEF LastIsOf
<1>7. QED
  BY <1>3, <1>6 DEF reply, a, b

LEMMA ServeStep ==
  ASSUME IInv, Serve \/ RefuseJoin \/ RefuseValidate
  PROVE  IInv'
<1> DEFINE c == Head(toServer)
           rest == Tail(toServer)
<1>1. toServer \in Seq(Command) /\ toServer # <<>> /\ up
  BY DEF IInv, TypeOK, Serve, ServeJoin, ServeLeave, ServeValidate, ServeIdentify, Serving,
    RefuseJoin, RefuseValidate, Taking
<1>2. c \in Command /\ rest \in Seq(Command) /\ toServer = <<c>> \o rest
  BY <1>1, FirstAndRest
<1>3. /\ up' = up /\ m' = m /\ UNCHANGED player /\ toServer' = rest
      /\ moves' \in 0..MaxMoves /\ drops' \in 0..MaxDrops /\ (drops' = 0 => drops = 0)
  <2>1. /\ moves \in 0..MaxMoves /\ drops \in 0..MaxDrops
        /\ MaxMoves \in Nat /\ MaxDrops \in Nat
    BY AutoRoomsAssumption DEF IInv, TypeOK
  <2>2. CASE Serve
    BY <2>1, <2>2 DEF Serve, ServeJoin, ServeLeave, ServeValidate, ServeIdentify, Serving, Taking
  <2>3. CASE RefuseJoin
    BY <2>1, <2>3 DEF RefuseJoin, Taking, Move
  <2>4. CASE RefuseValidate
    BY <2>1, <2>4 DEF RefuseValidate, Taking
  <2>5. QED
    BY <2>2, <2>3, <2>4
<1>4. srv \subseteq Room /\ bound \in Account \cup {None} /\ answers \in Seq(Answer)
  BY DEF IInv, TypeOK
<1>5. answers \o <<>> = answers
  BY <1>4, ConcatEmptySeq
<1>6. <<>> \in Seq(Answer) /\ Silent(<<>>)
  BY NoElement
<1>7. \A r \in srv : c # Leave(r) => Going(r, srv, <<c>>)
  <2>1. \A r : Stays(r, <<c>>) <=> c # Leave(r)
    BY OneElement
  <2>2. QED
    BY <2>1 DEF Going
<1> HIDE DEF rest
<1>8. CASE ServeJoin
  <2> DEFINE r == c.room
             k == c.key
  <2>1. c.kind = "JoinRoom" /\ r \in Room /\ k \in Key /\ c = Join(r, k)
    BY <1>2, <1>8, CommandCases DEF ServeJoin, Serving, Taking
  <2>2. \A t \in Room : c # Leave(t)
    BY <2>1, CommandFacts
  <2>3. \A l \in Key : JudgesKey(c, l) => l = k
    BY <2>1 DEF JudgesKey
  <2>4. Judges(c)
    BY <2>1 DEF Judges
  <2>5. CASE Owner[k] = None
    <3> DEFINE reply == <<Validated(Owner[k]), About("JoinRejected", r)>>
    <3>1. reply \in Seq(Answer) /\ LastIsOf(reply, k)
      BY <2>1, JoinReply
    <3>2. answers' = answers \o reply /\ UNCHANGED <<srv, bound>>
      BY <1>8, <2>5 DEF ServeJoin, Reply, session
    <3> HIDE DEF reply
    <3>3. \A t \in srv' : Going(t, srv, <<c>>)
      BY <1>4, <1>7, <2>2, <3>2
    <3> HIDE DEF c
    <3>4. QED
      BY <1>1, <1>2, <1>3, <1>4, <2>3, <2>4, <3>1, <3>2, <3>3, Served
  <2>6. CASE Owner[k] # None
    <3> DEFINE reply == <<Validated(Owner[k]), About("RoomJoined", r)>>
    <3>1. reply \in Seq(Answer) /\ LastIsOf(reply, k)
      BY <2>1, JoinReply
    <3>2. answers' = answers \o reply /\ srv' = srv \cup {r} /\ bound' = Owner[k]
      BY <1>8, <2>6 DEF ServeJoin, Reply
    <3> HIDE DEF reply
    <3>3. Going(r, srv, <<c>>)
      <4>1. Going(r, {}, <<c>>)
        BY <2>1, OneElement
      <4>2. QED
        BY <4>1 DEF Going
    <3>4. \A t \in srv' : Going(t, srv, <<c>>)
      BY <1>4, <1>7, <2>2, <3>2, <3>3
    <3>5. srv' \subseteq Room /\ bound' \in Account \cup {None}
      BY <1>4, <2>1, <3>2, VerdictFacts
    <3> HIDE DEF c
    <3>6. QED
      BY <1>1, <1>2, <1>3, <2>3, <2>4, <3>1, <3>2, <3>4, <3>5, Served
  <2>7. QED
    BY <2>5, <2>6
<1>9. CASE ServeLeave
  <2>1. c.kind = "LeaveRoom" /\ c = Leave(c.room) /\ c.room \in Room
    BY <1>2, <1>9, CommandCases DEF ServeLeave, Serving, Taking
  <2>2. srv' = srv \ {c.room} /\ UNCHANGED <<answers, bound>>
    BY <1>9 DEF ServeLeave
  <2>3. ~Judges(c) /\ \A k \in Key : ~JudgesKey(c, k)
    BY <2>1 DEF Judges, JudgesKey
  <2>4. \A t \in srv' : Going(t, srv, <<c>>)
    <3>1. \A t \in srv' : t \in srv /\ t \in Room /\ t # c.room
      BY <1>4, <2>2
    <3>2. \A t \in Room : Leave(t).room = t
      BY CommandFacts
    <3>3. QED
      BY <1>7, <3>1, <3>2
  <2> HIDE DEF c
  <2>5. srv' \subseteq Room /\ bound' \in Account \cup {None} /\ answers' = answers \o <<>>
    BY <1>4, <1>5, <2>2
  <2>6. QED
    BY <1>1, <1>2, <1>3, <1>6, <2>3, <2>4, <2>5, Served
<1>10. CASE ServeValidate
  <2> DEFINE k == c.key
             reply == <<Validated(Owner[k])>>
  <2>1. c.kind = "ValidateApiKey" /\ k \in Key
    BY <1>2, <1>10, CommandCases DEF ServeValidate, Serving, Taking
  <2>2. srv' = srv /\ bound' = Owner[k] /\ answers' = answers \o reply
    BY <1>10 DEF ServeValidate, Reply
  <2>3. Judges(c) /\ \A l \in Key : JudgesKey(c, l) => l = k
    BY <2>1 DEF Judges, JudgesKey
  <2>4. reply \in Seq(Answer) /\ LastIsOf(reply, k)
    <3>1. Validated(Owner[k]) \in Answer /\ JudgesKey(Validated(Owner[k]), k)
      BY <2>1, VerdictFacts
    <3>2. LastIsOf(reply, k)
      BY <3>1, OneElement
    <3>3. reply \in Seq(Answer)
      BY <3>1
    <3>4. QED
      BY <3>2, <3>3
  <2>5. \A t \in srv' : Going(t, srv, <<c>>)
    BY <1>4, <1>7, <2>1, <2>2, CommandFacts
  <2>6. srv' \subseteq Room /\ bound' \in Account \cup {None}
    BY <1>4, <2>1, <2>2, VerdictFacts
  <2> HIDE DEF c, reply
  <2>7. QED
    BY <1>1, <1>2, <1>3, <2>2, <2>3, <2>4, <2>5, <2>6, Served
<1>11. CASE ServeIdentify
  <2>1. c.kind = "IdentifyGroup"
    BY <1>11 DEF ServeIdentify, Serving, Taking
  <2>2. srv' = srv /\ bound' = bound
    BY <1>11 DEF ServeIdentify, session
  <2>3. ~Judges(c) /\ \A k \in Key : ~JudgesKey(c, k)
    BY <2>1 DEF Judges, JudgesKey
  <2>4. \A t \in srv' : Going(t, srv, <<c>>)
    BY <1>4, <1>7, <2>1, <2>2, CommandFacts
  <2>5. PICK reply \in Seq(Answer) : answers' = answers \o reply /\ Silent(reply)
    <3>1. CASE answers' = answers
      BY <1>5, <1>6, <3>1
    <3>2. ASSUME NEW g \in Group, answers' = answers \o <<Identified(g)>>
          PROVE  \E reply \in Seq(Answer) : answers' = answers \o reply /\ Silent(reply)
      <4>1. Identified(g) \in Answer /\ ~Judges(Identified(g))
        BY DEF Identified, Answer, Judges
      <4>2. <<Identified(g)>> \in Seq(Answer) /\ Silent(<<Identified(g)>>)
        BY <4>1, OneElement
      <4>3. QED
        BY <3>2, <4>2
    <3>3. answers' = answers \/ \E g \in Group : answers' = answers \o <<Identified(g)>>
      BY <1>11 DEF ServeIdentify, Reply
    <3>4. QED
      BY <3>1, <3>2, <3>3
  <2>6. srv' \subseteq Room /\ bound' \in Account \cup {None}
    BY <1>4, <2>2
  <2> HIDE DEF c
  <2>7. QED
    BY <1>1, <1>2, <1>3, <2>3, <2>4, <2>5, <2>6, Served
<1>12. CASE RefuseJoin
  <2> DEFINE r == c.room
             k == c.key
             reply == <<Validated(Owner[k]), About("JoinRejected", r)>>
  <2>1. c.kind = "JoinRoom" /\ r \in Room /\ k \in Key /\ c = Join(r, k)
    BY <1>2, <1>12, CommandCases DEF RefuseJoin, Taking
  <2>2. \A t \in Room : c # Leave(t)
    BY <2>1, CommandFacts
  <2>3. Judges(c) /\ \A l \in Key : JudgesKey(c, l) => l = k
    BY <2>1 DEF Judges, JudgesKey
  <2>4. reply \in Seq(Answer) /\ LastIsOf(reply, k)
    BY <2>1, JoinReply
  <2>5. answers' = answers \o reply /\ srv' = srv /\ bound' \in {bound, Owner[k]}
    BY <1>12 DEF RefuseJoin, Reply
  <2> HIDE DEF reply
  <2>6. \A t \in srv' : Going(t, srv, <<c>>)
    BY <1>4, <1>7, <2>2, <2>5
  <2>7. srv' \subseteq Room /\ bound' \in Account \cup {None}
    BY <1>4, <2>1, <2>5, VerdictFacts
  <2> HIDE DEF c
  <2>8. QED
    BY <1>1, <1>2, <1>3, <2>3, <2>4, <2>5, <2>6, <2>7, Served
<1>13. CASE RefuseValidate
  <2> DEFINE reply == <<Validated(None)>>
  <2>1. c.kind = "ValidateApiKey" /\ c.key \in Key
    BY <1>2, <1>13, CommandCases DEF RefuseValidate, Taking
  <2>2. UNCHANGED <<srv, bound>> /\ answers' = answers \o reply
    BY <1>13 DEF RefuseValidate, Reply, session
  <2>3. reply \in Seq(Answer)
    BY DEF Validated, Answer
  <2>4. drops' # 0
    BY <1>13 DEF RefuseValidate, IInv, TypeOK
  <2>5. \A t \in srv' : Going(t, srv, <<c>>)
    BY <1>4, <1>7, <2>1, <2>2, CommandFacts
  <2>6. srv' \subseteq Room /\ bound' \in Account \cup {None}
    BY <1>4, <2>2
  <2> HIDE DEF c, reply
  <2>7. QED
    BY <1>1, <1>2, <1>3, <2>2, <2>3, <2>4, <2>5, <2>6, Served
<1>14. QED
  BY <1>8, <1>9, <1>10, <1>11, <1>12, <1>13 DEF Serve
-----------------------------------------------------------------------------
(* The invariant and what follows from it *)

LEMMA InitIInv == Init => IInv
<1> SUFFICES ASSUME Init PROVE IInv
  OBVIOUS
<1>1. PICK k \in Key \cup {None} :
        m = [state |-> "Connecting", joined |-> {},
             slot |-> [s \in Slot |-> None], suppressed |-> {},
             members |-> {}, pending |-> FALSE, cluster |-> None, auto |-> TRUE,
             key |-> k, status |-> "Unknown", statusFor |-> None,
             out |-> <<>>, forgotten |-> {}, late |-> {}]
  BY DEF Init
<1>2. /\ at = [s \in Tracked |-> None] /\ group = None /\ shape = "squad"
      /\ toServer = <<>> /\ answers = <<>> /\ up = FALSE /\ srv = {} /\ bound = None
      /\ moves = 0 /\ drops = 0
  BY DEF Init
<1>3. <<>> \in Seq(Command) /\ <<>> \in Seq(Answer)
  BY NoElement
<1>4. m \in Manager
  <2> DEFINE sl == [s \in Slot |-> None]
  <2>1. sl \in [Slot -> Room \cup {None}]
    OBVIOUS
  <2> HIDE DEF sl
  <2>2. m = [state |-> "Connecting", joined |-> {}, slot |-> sl, suppressed |-> {},
             members |-> {}, pending |-> FALSE, cluster |-> None, auto |-> TRUE,
             key |-> k, status |-> "Unknown", statusFor |-> None,
             out |-> <<>>, forgotten |-> {}, late |-> {}]
    BY <1>1 DEF sl
  <2>3. QED
    BY <1>3, <2>1, <2>2 DEF Manager
<1>5. /\ m.joined = {} /\ m.pending = FALSE /\ m.out = <<>> /\ m.status = "Unknown"
      /\ \A s \in Slot : m.slot[s] = None
  BY <1>1
<1>6. ManagerOK(m)
  BY <1>4, <1>5, FS_EmptySet DEF ManagerOK
<1>7. TypeOK
  <2>1. at \in [Tracked -> Room \cup {None}] /\ \A s \in Tracked : at[s] = None
    BY <1>2
  <2>2. moves \in 0..MaxMoves /\ drops \in 0..MaxDrops
    BY <1>2, AutoRoomsAssumption
  <2>3. shape \in Shape
    BY <1>2 DEF Shape
  <2>4. toServer \in Seq(Command) /\ answers \in Seq(Answer)
    BY <1>2, <1>3
  <2>5. group = None /\ up = FALSE /\ srv = {} /\ bound = None
    BY <1>2
  <2>6. QED
    BY <1>5, <1>6, <2>1, <2>2, <2>3, <2>4, <2>5 DEF TypeOK
<1>8. RoomsKept(m, srv, toServer) /\ Respected(m)
  BY <1>2, <1>5, NoElement, RoomFacts DEF RoomsKept, Respected
<1>9. VerdictComes(m, answers, toServer) /\ Unheard(m, answers)
  BY <1>2, <1>5, NoElement DEF VerdictComes, Unheard
<1>10. QED
  BY <1>2, <1>6, <1>7, <1>8, <1>9 DEF IInv, Good

LEMMA StepIInv == IInv /\ [Next]_vars => IInv'
<1> SUFFICES ASSUME IInv, [Next]_vars PROVE IInv'
  OBVIOUS
<1>1. ASSUME NEW seen \in BOOLEAN, NEW due \in BOOLEAN, Update(seen, due)
      PROVE  IInv'
  BY <1>1, UpdateStep
<1>2. CASE \/ \E s \in Tracked : \E r \in RoomsOf(s) \cup {None} : Travel(s, r)
           \/ \E g \in Group \cup {None}, kind \in Shape : Regroup(g, kind)
  BY <1>2, PlayerStep
<1>3. CASE MemberUpdated \/ \E a \in Account : MemberJoined(a) \/ MemberLeft(a)
  BY <1>3, MemberStep
<1>4. ASSUME NEW r \in Room, LeaveManual(r) PROVE IInv'
  BY <1>4, LeaveManualStep
<1>5. ASSUME NEW k \in Key \cup {None}, ChangeKey(k) PROVE IInv'
  BY <1>5, ChangeKeyStep
<1>6. CASE SwitchAuto
  BY <1>6, SwitchAutoStep
<1>7. CASE Connect
  BY <1>7, ConnectStep
<1>8. CASE Drop
  BY <1>8, DropStep
<1>9. CASE LoseCommand
  BY <1>9, LoseCommandStep
<1>10. CASE Serve \/ RefuseJoin \/ RefuseValidate
  BY <1>10, ServeStep
<1>11. CASE UNCHANGED vars
  BY <1>11 DEF vars, player, session, IInv, TypeOK, Good
<1>12. QED
  BY <1>1, <1>2, <1>3, <1>4, <1>5, <1>6, <1>7, <1>8, <1>9, <1>10, <1>11 DEF Next

\* The invariant holds of every behaviour: each room that the manager or the server
\* has the player in is in a slot, is being left, or is one of those it lost track
\* of, the group's slot holds no room left by hand, and the last verdict under way
\* is of the present key.
THEOREM Invariance == Spec => []IInv
<1>1. Init => IInv
  BY InitIInv
<1>2. IInv /\ [Next]_vars => IInv'
  BY StepIInv
<1>3. QED
  BY <1>1, <1>2, PTL DEF Spec

\* The server has the player in no room that the client neither follows nor is
\* leaving, apart from those struck from a slot unconfirmed, those confirmed after
\* they were left, and those refused when asked for again or granted before (update,
\* reconcile_group_room, leave_room).
THEOREM NoStrayRoom == Spec => []OnlyOwnRooms
<1>1. IInv => OnlyOwnRooms
  <2> SUFFICES ASSUME IInv, NEW r \in srv
               PROVE  \/ \E s \in Slot : m.slot[s] = r
                      \/ UnderWay(Leave(r))
                      \/ r \in m.forgotten \cup m.late
    BY DEF OnlyOwnRooms
  <2>1. r \in Room /\ RoomsKept(m, srv, toServer)
    BY DEF IInv, TypeOK, Good
  <2>2. CASE Stays(r, toServer)
    BY <2>1, <2>2 DEF RoomsKept, Going, Kept
  <2>3. CASE ~Stays(r, toServer)
    BY <2>3 DEF Stays, UnderWay
  <2>4. QED
    BY <2>2, <2>3
<1>2. QED
  BY <1>1, Invariance, PTL

\* The room of a group that the user has left by hand is not joined again, with the
\* same exceptions (leave_room_manual, reconcile_group_room).
THEOREM LeftStaysLeft == Spec => []LeftByHand
<1>1. IInv => LeftByHand
  <2> SUFFICES ASSUME IInv, NEW r \in srv \cap RoomsOf("group"), r.id \in m.suppressed
               PROVE  UnderWay(Leave(r)) \/ r \in m.forgotten \cup m.late
    BY DEF LeftByHand
  <2>1. /\ r \in Room /\ RoomsKept(m, srv, toServer) /\ Respected(m)
        /\ \A s \in Slot : m.slot[s] \in RoomsOf(s) \cup {None}
    BY DEF IInv, TypeOK, Good, ManagerOK
  <2>2. CASE ~Stays(r, toServer)
    BY <2>2 DEF Stays, UnderWay
  <2>3. CASE Stays(r, toServer)
    <3>1. Kept(m, r)
      BY <2>1, <2>3 DEF RoomsKept, Going
    <3>2. ASSUME NEW s \in Slot, m.slot[s] = r PROVE FALSE
      <4>1. CASE s = "group"
        BY <2>1, <3>2, <4>1, NoneIsNoRoom DEF Respected
      <4>2. CASE s \in Tracked
        BY <2>1, <3>2, <4>2, NoneIsNoRoom, RoomFacts
      <4>3. QED
        BY <4>1, <4>2 DEF Slot
    <3>3. QED
      BY <3>1, <3>2 DEF Kept
  <2>4. QED
    BY <2>2, <2>3
<1>2. QED
  BY <1>1, Invariance, PTL

\* When all has been answered, nothing was lost and no validation was refused for the
\* account's connections, the status shown is what the server found for the present
\* key (revalidate_saved_api_key,
\* apply_api_key_validation_result).
THEOREM VerdictFits == Spec => []VerdictIsOfKey
<1>1. IInv => VerdictIsOfKey
  <2> SUFFICES ASSUME IInv, VerdictIsIn, m.key # None
               PROVE  m.status \in {"Unknown", "Validating", Verdict(Owner[m.key])}
    BY DEF VerdictIsOfKey
  <2>1. VerdictComes(m, <<>>, <<>>)
    BY DEF IInv, Good, VerdictIsIn
  <2>2. QED
    BY <2>1, NoElement DEF VerdictComes
<1>2. QED
  BY <1>1, Invariance, PTL
=============================================================================
