-------------------------- MODULE PeerAudioProofs --------------------------
(***************************************************************************)
(* Proofs about PeerAudio for any number of peers and rooms and of steps.  *)
(* Four queues stand between the server and the engine, so that what is    *)
(* kept is what the engine is going to have played: the outcome, for one   *)
(* peer, of the commands under way on the state it has now.                *)
(***************************************************************************)
EXTENDS PeerAudio, FiniteSetTheorems, SequenceTheorems, TLAPS

Mutes(p)   == SetPeerMuted(p, TRUE)
Unmutes(p) == SetPeerMuted(p, FALSE)

Creators(p) == {UpsertPeer(p), SetPeerPosition(p)} \cup {PushPeerOpus(p, r) : r \in Room}
Removers(p) == {ResetIncoming, RemovePeer(p)} \cup {RemovePeerFromRoom(p, r) : r \in Room}
Fades(p)    == Removers(p) \cup {Unmutes(p)}
\* With a room goes at most the peer, which is heard afresh.
Enders(p)   == {ResetIncoming, RemovePeer(p), Unmutes(p)}

Elems(q) == {q[i] : i \in DOMAIN q}
Free(q, bad) == \A i \in DOMAIN q : q[i] \notin bad
FreeAfter(q, i, bad) == \A j \in DOMAIN q : j > i => q[j] \notin bad

\* Queue q ends in a state that good brings about and bad ends.
Outcome(q, start, good, bad) ==
  \/ start /\ Free(q, bad)
  \/ \E i \in DOMAIN q : q[i] \in good /\ FreeAfter(q, i, bad)

Plays(p) == playing[p] # None
IsSilent(p) == playing[p] # None /\ playing[p].muted

WillPlay(p) == Outcome(chan, Plays(p), Creators(p), Removers(p))
MayBeMuted(p) == Outcome(chan, IsSilent(p), {Mutes(p)}, Enders(p))

\* A peer of which is known that it plays is muted, and stays so.
Muting(q, p, plays, mute) ==
  \/ mute /\ Free(q, Fades(p))
  \/ \E i \in DOMAIN q :
       /\ q[i] = Mutes(p) /\ FreeAfter(q, i, Fades(p))
       /\ \/ plays /\ Free(q, Removers(p))
          \/ \E k \in DOMAIN q : k < i /\ q[k] \in Creators(p) /\ FreeAfter(q, k, Removers(p))

Lost == \E i \in DOMAIN evs : evs[i].kind = "Disconnected"

Wishes ==
  /\ asked \cap Named = mutedAccounts
  /\ ~stale => file = mutedAccounts
  /\ \A p \in Peer : /\ p \in asked \ Named => Listed(p)
                     /\ p \in muted => Listed(p)
                     /\ Listed(p) => (p \in muted <=> p \in asked)

Silenced(p) == MayBeMuted(p) => p \in asked
Lasting(p) ==
  Listed(p) /\ p \notin thinned /\ ~Lost =>
    WillPlay(p) /\ (p \in asked => Muting(chan, p, Plays(p), IsSilent(p)))

Command ==
  [kind : {"ResetIncoming"}]
  \cup [kind : {"UpsertPeer", "RemovePeer", "SetPeerPosition"}, peer : Peer]
  \cup [kind : {"RemovePeerFromRoom", "PushPeerOpus"}, peer : Peer, room : Room]
  \cup [kind : {"SetPeerMuted"}, peer : Peer, muted : BOOLEAN]
RosterMsg == [kind : {"RoomJoined"}, peers : SUBSET Peer, room : Room]
NoteMsg ==
  [kind : {"PeerJoined", "PeerLeft", "PeerAudio", "PeerPosition"}, peer : Peer, room : Room]
EventMsg == RosterMsg \cup NoteMsg \cup [kind : {"Disconnected", "Connected"}]

Queues ==
  /\ direct \in Seq(RosterMsg) /\ bcast \in Seq(NoteMsg)
  /\ evs \in Seq(EventMsg) /\ chan \in Seq(Command)

Each(p) == Silenced(p) /\ Lasting(p)

IInv == TypeOK /\ Queues /\ Wishes /\ \A p \in Peer : Each(p)
-----------------------------------------------------------------------------
(* Sequences *)

LEMMA SetToSeqElements ==
  ASSUME NEW S, IsFiniteSet(S)
  PROVE  SetToSeq(S) \in Seq(S) /\ Elems(SetToSeq(S)) = S
<1> DEFINE n == Cardinality(S)
           f == SetToSeq(S)
<1>1. n \in Nat /\ ExistsBijection(1..n, S)
  BY FS_CardinalityType
<1>2. \E g \in [1..n -> S] : IsInjective(g)
  BY <1>1 DEF ExistsBijection, Bijection, Injection
<1>3. f \in [1..n -> S] /\ IsInjective(f)
  BY <1>2 DEF SetToSeq
<1>4. IsFiniteSet(1..n) /\ Cardinality(1..n) = n
  BY <1>1, FS_Interval
<1>5. f \in Injection(1..n, S)
  BY <1>3 DEF Injection
<1>6. f \in Surjection(1..n, S)
  BY <1>4, <1>5, FS_Injection
<1> HIDE DEF f, n
<1>7. f \in Seq(S)
  BY <1>1, <1>3
<1>8. Elems(f) = S
  BY <1>3, <1>6 DEF Elems, Surjection
<1>9. QED
  BY <1>7, <1>8 DEF f

LEMMA Concatenation ==
  ASSUME NEW S, NEW q \in Seq(S), NEW s \in Seq(S)
  PROVE  /\ q \o s \in Seq(S) /\ Len(q) \in Nat
         /\ DOMAIN q = 1..Len(q) /\ DOMAIN s = 1..Len(s)
         /\ \A i \in DOMAIN q : i \in DOMAIN (q \o s) /\ (q \o s)[i] = q[i]
         /\ \A i \in DOMAIN s : Len(q) + i \in DOMAIN (q \o s) /\ (q \o s)[Len(q) + i] = s[i]
         /\ \A i \in DOMAIN (q \o s) : i \in Nat /\ (i \in DOMAIN q \/ i - Len(q) \in DOMAIN s)
OBVIOUS

LEMMA ElemsConcatenation ==
  ASSUME NEW S, NEW q \in Seq(S), NEW s \in Seq(S)
  PROVE  Elems(q \o s) = Elems(q) \cup Elems(s)
<1> DEFINE t == q \o s
<1>1. /\ \A i \in DOMAIN q : i \in DOMAIN t /\ t[i] = q[i]
      /\ \A i \in DOMAIN s : Len(q) + i \in DOMAIN t /\ t[Len(q) + i] = s[i]
      /\ \A i \in DOMAIN t : i \in DOMAIN q \/ i - Len(q) \in DOMAIN s
      /\ \A i \in DOMAIN t : i \in Nat /\ Len(q) \in Nat
  BY Concatenation
<1> HIDE DEF t
<1>2. \A i \in DOMAIN t : i = Len(q) + (i - Len(q))
  BY <1>1
<1>3. Elems(t) = Elems(q) \cup Elems(s)
  BY <1>1, <1>2 DEF Elems
<1>4. QED
  BY <1>3 DEF t

LEMMA Appending ==
  ASSUME NEW S, NEW q \in Seq(S), NEW c \in S
  PROVE  Append(q, c) = q \o <<c>> /\ <<c>> \in Seq(S) /\ Elems(<<c>>) = {c}
BY DEF Elems

LEMMA TwoMore ==
  ASSUME NEW S, NEW q \in Seq(S), NEW s \in Seq(S), NEW t \in Seq(S)
  PROVE  /\ s \o t \in Seq(S) /\ Elems(s \o t) = Elems(s) \cup Elems(t)
         /\ (q \o s) \o t = q \o (s \o t)
<1>1. s \o t \in Seq(S)
  BY Concatenation
<1>2. Elems(s \o t) = Elems(s) \cup Elems(t)
  BY ElemsConcatenation
<1>3. (q \o s) \o t = q \o (s \o t)
  BY ConcatAssociative
<1>4. QED
  BY <1>1, <1>2, <1>3

LEMMA ElemsEmpty == \A S : <<>> \in Seq(S) /\ Elems(<<>>) = {}
BY DEF Elems
-----------------------------------------------------------------------------
(* Outcomes *)

LEMMA OutcomeConcatenation ==
  ASSUME NEW S, NEW q \in Seq(S), NEW s \in Seq(S), NEW start \in BOOLEAN, NEW good, NEW bad
  PROVE  Outcome(q \o s, start, good, bad) <=> Outcome(s, Outcome(q, start, good, bad), good, bad)
<1> DEFINE t == q \o s
<1>1. /\ \A i \in DOMAIN q : i \in DOMAIN t /\ t[i] = q[i]
      /\ \A i \in DOMAIN s : Len(q) + i \in DOMAIN t /\ t[Len(q) + i] = s[i]
      /\ \A i \in DOMAIN t : i \in Nat /\ (i \in DOMAIN q \/ i - Len(q) \in DOMAIN s)
      /\ Len(q) \in Nat /\ DOMAIN q = 1..Len(q) /\ DOMAIN s = 1..Len(s)
  BY Concatenation
<1> HIDE DEF t
<1>2. \A i \in DOMAIN t : i - Len(q) \in DOMAIN s => t[i] = s[i - Len(q)]
  BY <1>1
<1>3. Free(t, bad) <=> Free(q, bad) /\ Free(s, bad)
  BY <1>1, <1>2 DEF Free
<1>4. ASSUME NEW i \in DOMAIN q
      PROVE  FreeAfter(t, i, bad) <=> FreeAfter(q, i, bad) /\ Free(s, bad)
  <2>1. ASSUME FreeAfter(t, i, bad) PROVE FreeAfter(q, i, bad) /\ Free(s, bad)
    BY <1>1, <2>1 DEF FreeAfter, Free
  <2>2. ASSUME FreeAfter(q, i, bad), Free(s, bad) PROVE FreeAfter(t, i, bad)
    BY <1>1, <1>2, <2>2 DEF FreeAfter, Free
  <2>3. QED
    BY <2>1, <2>2
<1>5. ASSUME NEW i \in DOMAIN s
      PROVE  FreeAfter(t, Len(q) + i, bad) <=> FreeAfter(s, i, bad)
  <2>1. ASSUME FreeAfter(t, Len(q) + i, bad) PROVE FreeAfter(s, i, bad)
    BY <1>1, <2>1 DEF FreeAfter
  <2>2. ASSUME FreeAfter(s, i, bad), NEW j \in DOMAIN t, j > Len(q) + i PROVE t[j] \notin bad
    <3>1. j - Len(q) \in DOMAIN s /\ j - Len(q) > i
      BY <1>1, <2>2
    <3>2. QED
      BY <1>2, <2>2, <3>1 DEF FreeAfter
  <2>3. QED
    BY <2>1, <2>2 DEF FreeAfter
<1>6. ASSUME Outcome(t, start, good, bad)
      PROVE  Outcome(s, Outcome(q, start, good, bad), good, bad)
  <2>1. CASE start /\ Free(t, bad)
    BY <1>3, <2>1 DEF Outcome
  <2>2. ASSUME NEW i \in DOMAIN t, t[i] \in good, FreeAfter(t, i, bad)
        PROVE  Outcome(s, Outcome(q, start, good, bad), good, bad)
    <3>1. CASE i \in DOMAIN q
      BY <1>1, <1>4, <2>2, <3>1 DEF Outcome
    <3>2. CASE i - Len(q) \in DOMAIN s
      <4> DEFINE k == i - Len(q)
      <4>1. i = Len(q) + k
        BY <1>1
      <4> HIDE DEF k
      <4>2. s[k] \in good /\ FreeAfter(s, k, bad)
        BY <1>1, <1>5, <2>2, <3>2, <4>1 DEF k
      <4>3. QED
        BY <3>2, <4>2 DEF Outcome, k
    <3>3. QED
      BY <1>1, <3>1, <3>2
  <2>3. QED
    BY <1>6, <2>1, <2>2 DEF Outcome
<1>7. ASSUME Outcome(s, Outcome(q, start, good, bad), good, bad)
      PROVE  Outcome(t, start, good, bad)
  <2>1. CASE \E i \in DOMAIN s : s[i] \in good /\ FreeAfter(s, i, bad)
    BY <1>1, <1>5, <2>1 DEF Outcome
  <2>2. CASE Outcome(q, start, good, bad) /\ Free(s, bad)
    BY <1>1, <1>3, <1>4, <2>2 DEF Outcome
  <2>3. QED
    BY <1>7, <2>1, <2>2 DEF Outcome
<1>8. QED
  BY <1>6, <1>7 DEF t

LEMMA OutcomeTail ==
  ASSUME NEW S, NEW q \in Seq(S), q # <<>>, NEW start \in BOOLEAN, NEW good, NEW bad
  PROVE  Outcome(q, start, good, bad) <=>
           Outcome(Tail(q), (start /\ Head(q) \notin bad) \/ Head(q) \in good, good, bad)
<1> DEFINE s == Tail(q)
           h == Head(q)
<1>1. /\ DOMAIN q = 1..Len(q) /\ DOMAIN s = 1..(Len(q) - 1) /\ Len(q) \in Nat \ {0}
      /\ h = q[1] /\ \A i \in DOMAIN s : i + 1 \in DOMAIN q /\ q[i + 1] = s[i]
  OBVIOUS
<1> HIDE DEF s, h
<1>2. \A i \in DOMAIN q : i = 1 \/ (i > 1 /\ i - 1 \in DOMAIN s /\ q[i] = s[i - 1])
  BY <1>1
<1>3. (Free(q, bad) <=> h \notin bad /\ Free(s, bad)) /\ (FreeAfter(q, 1, bad) <=> Free(s, bad))
  <2>1. \A i \in DOMAIN s : i + 1 > 1
    BY <1>1
  <2>2. 1 \in DOMAIN q /\ ~(1 > 1)
    BY <1>1
  <2>3. QED
    BY <1>1, <1>2, <2>1, <2>2 DEF Free, FreeAfter
<1>4. ASSUME NEW i \in DOMAIN s PROVE FreeAfter(q, i + 1, bad) <=> FreeAfter(s, i, bad)
  <2>1. \A j \in DOMAIN s : j > i <=> j + 1 > i + 1
    BY <1>1
  <2>2. \A j \in DOMAIN q : j > i + 1 => j > 1 /\ j - 1 > i
    BY <1>1
  <2>3. QED
    BY <1>1, <1>2, <2>1, <2>2 DEF FreeAfter
<1>5. Outcome(q, start, good, bad) <=> Outcome(s, (start /\ h \notin bad) \/ h \in good, good, bad)
  <2>1. (\E i \in DOMAIN q : q[i] \in good /\ FreeAfter(q, i, bad)) <=>
          \/ h \in good /\ Free(s, bad)
          \/ \E i \in DOMAIN s : s[i] \in good /\ FreeAfter(s, i, bad)
    <3>1. ASSUME NEW i \in DOMAIN q, q[i] \in good, FreeAfter(q, i, bad)
          PROVE  \/ h \in good /\ Free(s, bad)
                 \/ \E k \in DOMAIN s : s[k] \in good /\ FreeAfter(s, k, bad)
      <4>1. CASE i = 1
        BY <1>1, <1>3, <3>1, <4>1
      <4>2. CASE i # 1
        <5> DEFINE k == i - 1
        <5>1. k \in DOMAIN s /\ i = k + 1 /\ q[i] = s[k]
          BY <1>1, <1>2, <4>2
        <5> HIDE DEF k
        <5>2. QED
          BY <1>4, <3>1, <5>1
      <4>3. QED
        BY <4>1, <4>2
    <3>2. h \in good /\ Free(s, bad) => 1 \in DOMAIN q /\ q[1] \in good /\ FreeAfter(q, 1, bad)
      BY <1>1, <1>3
    <3>3. ASSUME NEW k \in DOMAIN s, s[k] \in good, FreeAfter(s, k, bad)
          PROVE  \E i \in DOMAIN q : q[i] \in good /\ FreeAfter(q, i, bad)
      BY <1>1, <1>4, <3>3
    <3>4. QED
      BY <3>1, <3>2, <3>3
  <2>2. QED
    BY <1>3, <2>1 DEF Outcome
<1>6. QED
  BY <1>5 DEF s, h

LEMMA FreeElems == \A q, bad : Free(q, bad) <=> Elems(q) \cap bad = {}
BY DEF Free, Elems

\* What more commands do to an outcome.
LEMMA OutcomeMore ==
  ASSUME NEW S, NEW q \in Seq(S), NEW s \in Seq(S), NEW start \in BOOLEAN, NEW good, NEW bad
  PROVE  /\ Elems(s) \cap bad = {} /\ Outcome(q, start, good, bad)
              => Outcome(q \o s, start, good, bad)
         /\ Outcome(q \o s, start, good, bad) /\ Elems(s) \cap good = {}
              => Outcome(q, start, good, bad) /\ Elems(s) \cap bad = {}
         /\ Elems(s) \cap good # {} /\ Elems(s) \cap bad = {}
              => Outcome(q \o s, start, good, bad)
<1>1. Outcome(q \o s, start, good, bad) <=> Outcome(s, Outcome(q, start, good, bad), good, bad)
  BY OutcomeConcatenation
<1>2. (\E i \in DOMAIN s : s[i] \in good) <=> Elems(s) \cap good # {}
  BY DEF Elems
<1>3. Free(s, bad) <=> Elems(s) \cap bad = {}
  BY FreeElems
<1>4. Free(s, bad) => \A i \in DOMAIN s : FreeAfter(s, i, bad)
  BY DEF Free, FreeAfter
<1>5. QED
  BY <1>1, <1>2, <1>3, <1>4 DEF Outcome

LEMMA MutingMore ==
  ASSUME NEW q \in Seq(Command), NEW s \in Seq(Command), NEW p,
         NEW plays \in BOOLEAN, NEW mute \in BOOLEAN, Elems(s) \cap Fades(p) = {}
  PROVE  /\ Muting(q, p, plays, mute) => Muting(q \o s, p, plays, mute)
         /\ Outcome(q, plays, Creators(p), Removers(p)) /\ Mutes(p) \in Elems(s)
              => Muting(q \o s, p, plays, mute)
<1> DEFINE t == q \o s
<1>1. /\ \A i \in DOMAIN q : i \in DOMAIN t /\ t[i] = q[i]
      /\ \A i \in DOMAIN s : Len(q) + i \in DOMAIN t /\ t[Len(q) + i] = s[i]
      /\ \A i \in DOMAIN t : i \in Nat /\ (i \in DOMAIN q \/ i - Len(q) \in DOMAIN s)
      /\ Len(q) \in Nat /\ DOMAIN q = 1..Len(q) /\ DOMAIN s = 1..Len(s)
  BY Concatenation
<1> HIDE DEF t
<1>2. \A i \in DOMAIN t : i - Len(q) \in DOMAIN s => t[i] = s[i - Len(q)]
  BY <1>1
<1>3. Free(s, Fades(p)) /\ Free(s, Removers(p))
  BY FreeElems DEF Fades
<1>4. ASSUME NEW bad, Free(s, bad)
      PROVE  /\ Free(q, bad) => Free(t, bad)
             /\ \A i \in DOMAIN q : FreeAfter(q, i, bad) => FreeAfter(t, i, bad)
             /\ \A i \in DOMAIN s : FreeAfter(t, Len(q) + i, bad)
  <2>1. Free(q, bad) => Free(t, bad)
    BY <1>1, <1>2, <1>4 DEF Free
  <2>2. ASSUME NEW i \in DOMAIN q, FreeAfter(q, i, bad) PROVE FreeAfter(t, i, bad)
    BY <1>1, <1>2, <1>4, <2>2 DEF Free, FreeAfter
  <2>3. ASSUME NEW i \in DOMAIN s, NEW j \in DOMAIN t, j > Len(q) + i PROVE t[j] \notin bad
    <3>1. j - Len(q) \in DOMAIN s
      BY <1>1, <2>3
    <3>2. QED
      BY <1>2, <1>4, <3>1 DEF Free
  <2>4. QED
    BY <2>1, <2>2, <2>3 DEF FreeAfter
<1>5. ASSUME Muting(q, p, plays, mute) PROVE Muting(t, p, plays, mute)
  <2>1. CASE mute /\ Free(q, Fades(p))
    BY <1>3, <1>4, <2>1 DEF Muting
  <2>2. ASSUME NEW i \in DOMAIN q, q[i] = Mutes(p), FreeAfter(q, i, Fades(p)),
               plays /\ Free(q, Removers(p))
        PROVE  Muting(t, p, plays, mute)
    BY <1>1, <1>3, <1>4, <2>2 DEF Muting
  <2>3. ASSUME NEW i \in DOMAIN q, q[i] = Mutes(p), FreeAfter(q, i, Fades(p)),
               NEW k \in DOMAIN q, k < i, q[k] \in Creators(p), FreeAfter(q, k, Removers(p))
        PROVE  Muting(t, p, plays, mute)
    <3>1. i \in DOMAIN t /\ k \in DOMAIN t /\ t[i] = Mutes(p) /\ t[k] \in Creators(p)
      BY <1>1, <2>3
    <3>2. FreeAfter(t, i, Fades(p)) /\ FreeAfter(t, k, Removers(p))
      BY <1>3, <1>4, <2>3
    <3>3. QED
      BY <2>3, <3>1, <3>2 DEF Muting
  <2>4. QED
    BY <1>5, <2>1, <2>2, <2>3 DEF Muting
<1>6. ASSUME Outcome(q, plays, Creators(p), Removers(p)), Mutes(p) \in Elems(s)
      PROVE  Muting(t, p, plays, mute)
  <2>1. PICK n \in DOMAIN s : s[n] = Mutes(p)
    BY <1>6 DEF Elems
  <2> DEFINE i == Len(q) + n
  <2>2. /\ i \in DOMAIN t /\ t[i] = Mutes(p) /\ FreeAfter(t, i, Fades(p))
        /\ \A k \in DOMAIN q : k < i
    BY <1>1, <1>3, <1>4, <2>1
  <2> HIDE DEF i
  <2>3. CASE plays /\ Free(q, Removers(p))
    BY <1>3, <1>4, <2>2, <2>3 DEF Muting
  <2>4. ASSUME NEW k \in DOMAIN q, q[k] \in Creators(p), FreeAfter(q, k, Removers(p))
        PROVE  Muting(t, p, plays, mute)
    <3>1. k \in DOMAIN t /\ t[k] \in Creators(p) /\ FreeAfter(t, k, Removers(p)) /\ k < i
      BY <1>1, <1>3, <1>4, <2>2, <2>4
    <3>2. QED
      BY <2>2, <3>1 DEF Muting
  <2>5. QED
    BY <1>6, <2>3, <2>4 DEF Outcome
<1>7. QED
  BY <1>5, <1>6 DEF t

LEMMA MutingTail ==
  ASSUME NEW q \in Seq(Command), q # <<>>, NEW p,
         NEW plays \in BOOLEAN, NEW mute \in BOOLEAN,
         NEW plays2 \in BOOLEAN, NEW mute2 \in BOOLEAN,
         (plays /\ Head(q) \notin Removers(p)) \/ Head(q) \in Creators(p) => plays2,
         (mute /\ Head(q) \notin Fades(p)) \/ (plays /\ Head(q) = Mutes(p)) => mute2,
         Muting(q, p, plays, mute)
  PROVE  Muting(Tail(q), p, plays2, mute2)
<1> DEFINE s == Tail(q)
           h == Head(q)
<1>1. /\ DOMAIN q = 1..Len(q) /\ DOMAIN s = 1..(Len(q) - 1) /\ Len(q) \in Nat \ {0}
      /\ h = q[1] /\ \A i \in DOMAIN s : i + 1 \in DOMAIN q /\ q[i + 1] = s[i]
  OBVIOUS
<1>2. \A bad : (Free(q, bad) => h \notin bad /\ Free(s, bad))
            /\ (FreeAfter(q, 1, bad) => Free(s, bad))
  <2> HIDE DEF s, h
  <2>1. (\A i \in DOMAIN s : i + 1 > 1) /\ 1 \in DOMAIN q
    BY <1>1
  <2>2. QED
    BY <1>1, <2>1 DEF Free, FreeAfter
<1>3. /\ (plays /\ h \notin Removers(p)) \/ h \in Creators(p) => plays2
      /\ (mute /\ h \notin Fades(p)) \/ (plays /\ h = Mutes(p)) => mute2
  OBVIOUS
<1> HIDE DEF s, h
<1>4. \A i \in DOMAIN q : i # 1 => i - 1 \in DOMAIN s /\ s[i - 1] = q[i]
  BY <1>1
<1>5. ASSUME NEW i \in DOMAIN q, i # 1, NEW bad, FreeAfter(q, i, bad)
      PROVE  FreeAfter(s, i - 1, bad)
  <2>1. \A j \in DOMAIN s : j > i - 1 => j + 1 > i
    BY <1>1
  <2>2. QED
    BY <1>1, <1>5, <2>1 DEF FreeAfter
<1>6. CASE mute /\ Free(q, Fades(p))
  BY <1>2, <1>3, <1>6 DEF Muting, s
<1>7. ASSUME NEW i \in DOMAIN q, q[i] = Mutes(p), FreeAfter(q, i, Fades(p)),
             \/ plays /\ Free(q, Removers(p))
             \/ \E k \in DOMAIN q : k < i /\ q[k] \in Creators(p) /\ FreeAfter(q, k, Removers(p))
      PROVE  Muting(s, p, plays2, mute2)
  <2>1. CASE i = 1
    <3>1. ~\E k \in DOMAIN q : k < 1
      BY <1>1
    <3>2. plays /\ h = Mutes(p) /\ Free(s, Fades(p))
      BY <1>1, <1>2, <1>7, <2>1, <3>1
    <3>3. QED
      BY <1>3, <3>2 DEF Muting
  <2>2. CASE i # 1
    <3>1. i - 1 \in DOMAIN s /\ s[i - 1] = Mutes(p) /\ FreeAfter(s, i - 1, Fades(p))
      BY <1>4, <1>5, <1>7, <2>2
    <3>2. CASE plays /\ Free(q, Removers(p))
      BY <1>2, <1>3, <3>1, <3>2 DEF Muting
    <3>3. ASSUME NEW k \in DOMAIN q, k < i, q[k] \in Creators(p), FreeAfter(q, k, Removers(p))
          PROVE  Muting(s, p, plays2, mute2)
      <4>1. CASE k = 1
        BY <1>1, <1>2, <1>3, <3>1, <3>3, <4>1 DEF Muting
      <4>2. CASE k # 1
        <5>1. k - 1 \in DOMAIN s /\ s[k - 1] \in Creators(p) /\ FreeAfter(s, k - 1, Removers(p))
          BY <1>4, <1>5, <3>3, <4>2
        <5>2. k - 1 < i - 1
          BY <1>1, <3>3
        <5>3. QED
          BY <3>1, <5>1, <5>2 DEF Muting
      <4>3. QED
        BY <4>1, <4>2
    <3>4. QED
      BY <1>7, <3>2, <3>3
  <2>3. QED
    BY <2>1, <2>2
<1>8. QED
  BY <1>6, <1>7 DEF Muting, s
-----------------------------------------------------------------------------
(* Commands and messages *)

LEMMA CommandTypes ==
  /\ ResetIncoming \in Command
  /\ \A p \in Peer : /\ UpsertPeer(p) \in Command /\ RemovePeer(p) \in Command
                     /\ SetPeerPosition(p) \in Command
                     /\ \A b \in BOOLEAN : SetPeerMuted(p, b) \in Command
  /\ \A p \in Peer, r \in Room :
       RemovePeerFromRoom(p, r) \in Command /\ PushPeerOpus(p, r) \in Command
BY DEF Command, ResetIncoming, UpsertPeer, RemovePeer, SetPeerPosition, SetPeerMuted,
  RemovePeerFromRoom, PushPeerOpus

LEMMA CommandKinds ==
  /\ ResetIncoming.kind = "ResetIncoming"
  /\ \A p : /\ UpsertPeer(p).kind = "UpsertPeer" /\ UpsertPeer(p).peer = p
            /\ RemovePeer(p).kind = "RemovePeer" /\ RemovePeer(p).peer = p
            /\ SetPeerPosition(p).kind = "SetPeerPosition" /\ SetPeerPosition(p).peer = p
            /\ \A b : /\ SetPeerMuted(p, b).kind = "SetPeerMuted"
                      /\ SetPeerMuted(p, b).peer = p /\ SetPeerMuted(p, b).muted = b
            /\ \A r : /\ RemovePeerFromRoom(p, r).kind = "RemovePeerFromRoom"
                      /\ RemovePeerFromRoom(p, r).peer = p
                      /\ PushPeerOpus(p, r).kind = "PushPeerOpus"
                      /\ PushPeerOpus(p, r).peer = p
BY DEF ResetIncoming, UpsertPeer, RemovePeer, SetPeerPosition, SetPeerMuted,
  RemovePeerFromRoom, PushPeerOpus

LEMMA MutesKind ==
  \A p : Mutes(p).kind = "SetPeerMuted" /\ Mutes(p).peer = p /\ Mutes(p).muted = TRUE
BY DEF Mutes, SetPeerMuted

\* What a command can be for peer p, by its kind, its peer and the mute.
LEMMA CommandRoles ==
  ASSUME NEW p, NEW c
  PROVE  /\ c \in Creators(p) =>
              c.kind \in {"UpsertPeer", "SetPeerPosition", "PushPeerOpus"} /\ c.peer = p
         /\ c \in Removers(p) =>
              \/ c.kind = "ResetIncoming"
              \/ c.kind \in {"RemovePeer", "RemovePeerFromRoom"} /\ c.peer = p
         /\ c \in Fades(p) =>
              \/ c.kind = "ResetIncoming"
              \/ c.kind \in {"RemovePeer", "RemovePeerFromRoom"} /\ c.peer = p
              \/ c.kind = "SetPeerMuted" /\ c.peer = p /\ c.muted = FALSE
         /\ c = Mutes(p) => c.kind = "SetPeerMuted" /\ c.peer = p /\ c.muted = TRUE
<1>1. c \in Creators(p) =>
        c.kind \in {"UpsertPeer", "SetPeerPosition", "PushPeerOpus"} /\ c.peer = p
  BY CommandKinds DEF Creators
<1>2. c \in Removers(p) =>
        \/ c.kind = "ResetIncoming"
        \/ c.kind \in {"RemovePeer", "RemovePeerFromRoom"} /\ c.peer = p
  BY CommandKinds DEF Removers
<1>3. /\ c = Unmutes(p) => c.kind = "SetPeerMuted" /\ c.peer = p /\ c.muted = FALSE
      /\ c = Mutes(p) => c.kind = "SetPeerMuted" /\ c.peer = p /\ c.muted = TRUE
  BY DEF Unmutes, Mutes, SetPeerMuted
<1>4. QED
  BY <1>1, <1>2, <1>3 DEF Fades

LEMMA MessageTypes ==
  /\ \A m \in EventMsg :
       /\ m.kind = "RoomJoined" => m \in RosterMsg
       /\ m.kind \in {"PeerJoined", "PeerLeft", "PeerAudio", "PeerPosition"} => m \in NoteMsg
  /\ \A m \in RosterMsg : m.peers \in SUBSET Peer /\ m.room \in Room
  /\ \A m \in NoteMsg : /\ m.peer \in Peer /\ m.room \in Room
                        /\ m.kind \in {"PeerJoined", "PeerLeft", "PeerAudio", "PeerPosition"}
  /\ RosterMsg \subseteq EventMsg /\ NoteMsg \subseteq EventMsg
  /\ Disconnected \in EventMsg /\ Connected \in EventMsg
  /\ Disconnected.kind = "Disconnected" /\ Connected.kind = "Connected"
  /\ \A r \in Room, ps \in SUBSET Peer : Roster(r, ps) \in RosterMsg
  /\ \A p \in Peer, r \in Room, k \in {"PeerJoined", "PeerLeft", "PeerAudio", "PeerPosition"} :
       Note(k, p, r) \in NoteMsg
BY DEF EventMsg, RosterMsg, NoteMsg, Disconnected, Connected, Roster, Note

LEMMA ImageFinite ==
  ASSUME NEW S, IsFiniteSet(S), NEW f
  PROVE  IsFiniteSet({f[x] : x \in S})
<1> DEFINE T == {f[x] : x \in S}
           g == [x \in S |-> f[x]]
<1>1. g \in Surjection(S, T)
  BY DEF Surjection
<1> HIDE DEF T, g
<1>2. IsFiniteSet(T)
  BY <1>1, FS_Surjection
<1>3. QED
  BY <1>2 DEF T

LEMMA SetsOfCommands ==
  ASSUME NEW ps \in SUBSET Peer, NEW r \in Room
  PROVE  /\ SetToSeq({UpsertPeer(p) : p \in ps}) \in Seq(Command)
         /\ Elems(SetToSeq({UpsertPeer(p) : p \in ps})) = {UpsertPeer(p) : p \in ps}
         /\ SetToSeq({RemovePeer(p) : p \in ps}) \in Seq(Command)
         /\ Elems(SetToSeq({RemovePeer(p) : p \in ps})) = {RemovePeer(p) : p \in ps}
         /\ SetToSeq({SetPeerMuted(p, TRUE) : p \in ps}) \in Seq(Command)
         /\ Elems(SetToSeq({SetPeerMuted(p, TRUE) : p \in ps}))
              = {SetPeerMuted(p, TRUE) : p \in ps}
         /\ SetToSeq({RemovePeerFromRoom(p, r) : p \in ps}) \in Seq(Command)
         /\ Elems(SetToSeq({RemovePeerFromRoom(p, r) : p \in ps}))
              = {RemovePeerFromRoom(p, r) : p \in ps}
<1>1. IsFiniteSet(ps)
  BY FiniteAssumption, FS_Subset
<1>2. ASSUME NEW T \in SUBSET Command, IsFiniteSet(T)
      PROVE  SetToSeq(T) \in Seq(Command) /\ Elems(SetToSeq(T)) = T
  <2>1. SetToSeq(T) \in Seq(T) /\ Elems(SetToSeq(T)) = T
    BY <1>2, SetToSeqElements
  <2>2. QED
    BY <2>1
<1>3. IsFiniteSet({UpsertPeer(p) : p \in ps})
  <2> DEFINE f == [p \in ps |-> UpsertPeer(p)]
  <2>1. {UpsertPeer(p) : p \in ps} = {f[p] : p \in ps}
    OBVIOUS
  <2> HIDE DEF f
  <2>2. QED
    BY <1>1, <2>1, ImageFinite
<1>4. IsFiniteSet({RemovePeer(p) : p \in ps})
  <2> DEFINE f == [p \in ps |-> RemovePeer(p)]
  <2>1. {RemovePeer(p) : p \in ps} = {f[p] : p \in ps}
    OBVIOUS
  <2> HIDE DEF f
  <2>2. QED
    BY <1>1, <2>1, ImageFinite
<1>5. IsFiniteSet({SetPeerMuted(p, TRUE) : p \in ps})
  <2> DEFINE f == [p \in ps |-> SetPeerMuted(p, TRUE)]
  <2>1. {SetPeerMuted(p, TRUE) : p \in ps} = {f[p] : p \in ps}
    OBVIOUS
  <2> HIDE DEF f
  <2>2. QED
    BY <1>1, <2>1, ImageFinite
<1>6. IsFiniteSet({RemovePeerFromRoom(p, r) : p \in ps})
  <2> DEFINE f == [p \in ps |-> RemovePeerFromRoom(p, r)]
  <2>1. {RemovePeerFromRoom(p, r) : p \in ps} = {f[p] : p \in ps}
    OBVIOUS
  <2> HIDE DEF f
  <2>2. QED
    BY <1>1, <2>1, ImageFinite
<1>7. /\ {UpsertPeer(p) : p \in ps} \subseteq Command
      /\ {RemovePeer(p) : p \in ps} \subseteq Command
      /\ {SetPeerMuted(p, TRUE) : p \in ps} \subseteq Command
      /\ {RemovePeerFromRoom(p, r) : p \in ps} \subseteq Command
  BY CommandTypes
<1>8. QED
  BY <1>2, <1>3, <1>4, <1>5, <1>6, <1>7
-----------------------------------------------------------------------------
(* Types *)

\* The commands that AddTo and DropRoom write.
LEMMA AddToSends ==
  ASSUME Queues, NEW ps \in SUBSET Peer, NEW r \in Room, AddTo(ps, r)
  PROVE  LET new  == {p \in ps : ~Listed(p)}
             mute == new \cap Named \cap mutedAccounts
         IN  \E s \in Seq(Command), t \in Seq(Command) :
               /\ chan' = (chan \o s) \o t
               /\ Elems(s) = {UpsertPeer(p) : p \in new}
               /\ Elems(t) = {SetPeerMuted(p, TRUE) : p \in mute}
<1> DEFINE new  == {p \in ps : ~Listed(p)}
           mute == new \cap Named \cap mutedAccounts
           s == Upserts(new)
           t == SetToSeq({SetPeerMuted(p, TRUE) : p \in mute})
<1>1. new \in SUBSET Peer /\ mute \in SUBSET Peer
  OBVIOUS
<1>2. chan' = (chan \o s) \o t
  BY DEF AddTo
<1> HIDE DEF new, mute
<1>3. /\ s \in Seq(Command) /\ Elems(s) = {UpsertPeer(p) : p \in new}
      /\ t \in Seq(Command) /\ Elems(t) = {SetPeerMuted(p, TRUE) : p \in mute}
  BY <1>1, SetsOfCommands DEF Upserts
<1> HIDE DEF s, t
<1>4. QED
  BY <1>2, <1>3 DEF new, mute

LEMMA DropRoomSends ==
  ASSUME Queues, NEW ps \in SUBSET Peer, NEW r \in Room, DropRoom(ps, r)
  PROVE  LET last  == {p \in ps : roomIds[p] \subseteq {r}}
             reset == joined' = {} /\ joined # {}
         IN  \E s \in Seq(Command) :
               /\ chan' = chan \o s
               /\ Elems(s) = {RemovePeer(p) : p \in last}
                             \cup {RemovePeerFromRoom(p, r) : p \in ps \ last}
                             \cup (IF reset THEN {ResetIncoming} ELSE {})
<1> DEFINE last  == {p \in ps : roomIds[p] \subseteq {r}}
           reset == joined' = {} /\ joined # {}
           s == SetToSeq({RemovePeer(p) : p \in last})
           t == SetToSeq({RemovePeerFromRoom(p, r) : p \in ps \ last})
           u == IF reset THEN <<ResetIncoming>> ELSE <<>>
<1>1. last \in SUBSET Peer /\ ps \ last \in SUBSET Peer
  OBVIOUS
<1>2. chan' = ((chan \o s) \o t) \o u
  BY DEF DropRoom
<1>3. chan \in Seq(Command)
  BY DEF Queues
<1>4. u \in Seq(Command) /\ Elems(u) = IF reset THEN {ResetIncoming} ELSE {}
  BY CommandTypes, ElemsEmpty, Appending
<1> HIDE DEF last, reset, u
<1>5. /\ s \in Seq(Command) /\ Elems(s) = {RemovePeer(p) : p \in last}
      /\ t \in Seq(Command) /\ Elems(t) = {RemovePeerFromRoom(p, r) : p \in ps \ last}
  BY <1>1, SetsOfCommands
<1> HIDE DEF s, t
<1> DEFINE w == s \o t
           v == w \o u
<1>6. w \in Seq(Command) /\ Elems(w) = Elems(s) \cup Elems(t) /\ (chan \o s) \o t = chan \o w
  <2> HIDE DEF w
  <2>1. s \in Seq(Command) /\ t \in Seq(Command)
    BY <1>5
  <2>2. s \o t \in Seq(Command) /\ Elems(s \o t) = Elems(s) \cup Elems(t)
        /\ (chan \o s) \o t = chan \o (s \o t)
    BY <1>3, <2>1, TwoMore
  <2>3. QED
    BY <2>2 DEF w
<1> HIDE DEF w
<1>7. v \in Seq(Command) /\ Elems(v) = Elems(w) \cup Elems(u) /\ (chan \o w) \o u = chan \o v
  BY <1>3, <1>4, <1>6, TwoMore
<1> HIDE DEF v
<1>8. chan' = chan \o v
  BY <1>2, <1>6, <1>7
<1>9. QED
  BY <1>4, <1>5, <1>6, <1>7, <1>8 DEF last, reset

LEMMA EventTypes ==
  ASSUME Queues, NEW kind, Event(kind)
  PROVE  /\ Head(evs) \in EventMsg /\ Head(evs).kind = kind /\ evs' \in Seq(EventMsg)
         /\ kind = "RoomJoined" => Head(evs).peers \in SUBSET Peer /\ Head(evs).room \in Room
         /\ kind \in {"PeerJoined", "PeerLeft", "PeerPosition"}
              => Head(evs).peer \in Peer /\ Head(evs).room \in Room
         /\ kind # "Disconnected" => (Lost => Lost')
<1>1. evs \in Seq(EventMsg) /\ evs # <<>> /\ evs' = Tail(evs) /\ Head(evs).kind = kind
  BY DEF Queues, Event
<1>2. /\ DOMAIN evs = 1..Len(evs) /\ Len(evs) \in Nat \ {0} /\ Head(evs) = evs[1]
      /\ DOMAIN evs' = 1..(Len(evs) - 1) /\ \A i \in DOMAIN evs' : evs'[i] = evs[i + 1]
  BY <1>1
<1>3. Head(evs) \in EventMsg /\ evs' \in Seq(EventMsg)
  BY <1>1
<1>4. \A i \in DOMAIN evs : i = 1 \/ (i - 1 \in DOMAIN evs' /\ evs'[i - 1] = evs[i])
  BY <1>2
<1>5. kind # "Disconnected" => (Lost => Lost')
  BY <1>1, <1>2, <1>4 DEF Lost
<1>6. QED
  BY <1>1, <1>3, <1>5, MessageTypes

LEMMA ServerTypes ==
  ASSUME TypeOK, Queues, NEW p \in Peer, NEW r \in Room,
         \/ PeerEnters(p, r) \/ PeerLeaves(p, r) \/ PeerSends("PeerAudio", p, r)
         \/ PeerSends("PeerPosition", p, r)
  PROVE  TypeOK' /\ Queues'
<1> USE DEF remote, manager, mutes
<1>1. PICK k \in {"PeerJoined", "PeerLeft", "PeerAudio", "PeerPosition"} :
        /\ ToUs(k, p, r) /\ Step
        /\ at' \in [Peer -> SUBSET Room]
        /\ UNCHANGED <<ours, direct, evs, manager, chan, playing>>
  <2>1. CASE PeerEnters(p, r)
    BY <2>1 DEF PeerEnters, TypeOK
  <2>2. CASE PeerLeaves(p, r)
    BY <2>2 DEF PeerLeaves, TypeOK
  <2>3. CASE PeerSends("PeerAudio", p, r)
    BY <2>3 DEF PeerSends, TypeOK
  <2>4. CASE PeerSends("PeerPosition", p, r)
    BY <2>4 DEF PeerSends, TypeOK
  <2>5. QED
    BY <2>1, <2>2, <2>3, <2>4
<1>2. bcast' \in Seq(NoteMsg)
  <2>1. Note(k, p, r) \in NoteMsg
    BY MessageTypes
  <2>2. QED
    BY <1>1, <2>1 DEF ToUs, Queues
<1>3. steps' \in 0..MaxSteps /\ loads' = loads
  BY <1>1, BoundAssumption DEF Step, TypeOK
<1>4. QED
  BY <1>1, <1>2, <1>3 DEF TypeOK, Queues

LEMMA NetworkTypes ==
  ASSUME TypeOK, Queues,
         (\E r \in Room : Join(r)) \/ ReceiveRoster \/ ReceiveNote \/ LinkLost \/ OnConnected
  PROVE  TypeOK' /\ Queues'
<1> USE DEF remote, manager, mutes, wire, bounds
<1>0. /\ direct \in Seq(RosterMsg) /\ bcast \in Seq(NoteMsg)
      /\ evs \in Seq(EventMsg) /\ chan \in Seq(Command)
  BY DEF Queues
<1>1. ASSUME NEW r \in Room, Join(r) PROVE TypeOK' /\ Queues'
  <2>1. Roster(r, In(r)) \in RosterMsg
    BY MessageTypes DEF In
  <2>2. direct' \in Seq(RosterMsg)
    BY <1>0, <1>1, <2>1 DEF Join
  <2>3. steps' \in 0..MaxSteps /\ loads' = loads
    BY <1>1, BoundAssumption DEF Join, Step, TypeOK
  <2>4. QED
    BY <1>0, <1>1, <2>2, <2>3 DEF TypeOK, Queues, Join
<1>2. CASE ReceiveRoster
  <2>1. Head(direct) \in RosterMsg /\ direct' \in Seq(RosterMsg)
    BY <1>0, <1>2 DEF ReceiveRoster
  <2>2. Head(direct) \in EventMsg /\ Head(direct).peers \in SUBSET Peer /\ Head(direct).room \in Room
    BY <2>1, MessageTypes
  <2>3. Upserts(Head(direct).peers) \in Seq(Command)
    BY <2>2, SetsOfCommands DEF Upserts
  <2>4. evs' \in Seq(EventMsg) /\ chan' \in Seq(Command)
    BY <1>0, <1>2, <2>2, <2>3 DEF ReceiveRoster
  <2>5. QED
    BY <1>0, <1>2, <2>1, <2>4 DEF TypeOK, Queues, ReceiveRoster
<1>3. CASE ReceiveNote
  <2> DEFINE m == Head(bcast)
  <2>1. m \in NoteMsg /\ bcast' \in Seq(NoteMsg)
    BY <1>0, <1>3 DEF ReceiveNote
  <2>2. /\ m \in EventMsg /\ m.peer \in Peer /\ m.room \in Room
        /\ m.kind \in {"PeerJoined", "PeerLeft", "PeerAudio", "PeerPosition"}
    BY <2>1, MessageTypes
  <2>3. UpsertPeer(m.peer) \in Command /\ SetPeerPosition(m.peer) \in Command
        /\ PushPeerOpus(m.peer, m.room) \in Command
    BY <2>2, CommandTypes
  <2>4. evs' \in Seq(EventMsg)
    BY <1>0, <1>3, <2>2 DEF ReceiveNote
  <2>5. chan' \in Seq(Command)
    BY <1>0, <1>3, <2>2, <2>3 DEF ReceiveNote
  <2>6. QED
    BY <1>0, <1>3, <2>1, <2>4, <2>5 DEF TypeOK, Queues, ReceiveNote
<1>4. CASE LinkLost
  <2>1. evs' \in Seq(EventMsg) /\ chan' \in Seq(Command)
    BY <1>0, <1>4, MessageTypes, CommandTypes DEF LinkLost
  <2>2. steps' \in 0..MaxSteps /\ loads' = loads
    BY <1>4, BoundAssumption DEF LinkLost, Step, TypeOK
  <2>3. QED
    BY <1>0, <1>4, <2>1, <2>2 DEF TypeOK, Queues, LinkLost
<1>5. CASE OnConnected
  <2> DEFINE new == joined \ ours
             T == {Roster(r, In(r)) : r \in new}
             f == [r \in new |-> Roster(r, In(r))]
  <2>1. IsFiniteSet(new) /\ new \in SUBSET Room
    BY FiniteAssumption, FS_Subset DEF TypeOK
  <2>2. T = {f[r] : r \in new} /\ T \in SUBSET RosterMsg
    BY <2>1, MessageTypes DEF In
  <2> HIDE DEF f
  <2>3. IsFiniteSet(T)
    BY <2>1, <2>2, ImageFinite
  <2>4. direct' = direct \o SetToSeq(T) /\ joined' = {} /\ ours' = ours \cup joined
    BY <1>5 DEF OnConnected
  <2> HIDE DEF T
  <2>5. SetToSeq(T) \in Seq(RosterMsg)
    <3>1. SetToSeq(T) \in Seq(T)
      BY <2>3, SetToSeqElements
    <3>2. QED
      BY <2>2, <3>1
  <2>6. direct' \in Seq(RosterMsg)
    BY <1>0, <2>4, <2>5
  <2>7. evs' \in Seq(EventMsg)
    BY <1>5, EventTypes DEF OnConnected
  <2>8. QED
    BY <1>0, <1>5, <2>4, <2>6, <2>7 DEF TypeOK, Queues, OnConnected
<1>6. QED
  BY <1>1, <1>2, <1>3, <1>4, <1>5

LEMMA AddToTypes ==
  ASSUME TypeOK, Queues, NEW ps \in SUBSET Peer, NEW r \in Room, AddTo(ps, r)
  PROVE  /\ roomIds' \in [Peer -> SUBSET Room] /\ muted' \subseteq Peer
         /\ thinned' \subseteq Peer /\ chan' \in Seq(Command)
<1>1. roomIds' \in [Peer -> SUBSET Room] /\ muted' \subseteq Peer /\ thinned' \subseteq Peer
  BY DEF AddTo, TypeOK
<1>2. chan' \in Seq(Command)
  <2>1. PICK s \in Seq(Command), t \in Seq(Command) : chan' = (chan \o s) \o t
    BY AddToSends
  <2>2. chan \o s \in Seq(Command)
    BY Concatenation DEF Queues
  <2>3. QED
    BY <2>1, <2>2, Concatenation
<1>3. QED
  BY <1>1, <1>2

LEMMA DropRoomTypes ==
  ASSUME TypeOK, Queues, NEW ps \in SUBSET Peer, NEW r \in Room, DropRoom(ps, r)
  PROVE  /\ roomIds' \in [Peer -> SUBSET Room] /\ muted' \subseteq Peer /\ asked' \subseteq Peer
         /\ thinned' \subseteq Peer /\ chan' \in Seq(Command)
<1>1. roomIds' \in [Peer -> SUBSET Room] /\ muted' \subseteq Peer
      /\ asked' \subseteq Peer /\ thinned' \subseteq Peer
  BY DEF DropRoom, Delist, TypeOK
<1>2. chan' \in Seq(Command)
  <2>1. PICK s \in Seq(Command) : chan' = chan \o s
    BY DropRoomSends
  <2>2. QED
    BY <2>1, Concatenation DEF Queues
<1>3. QED
  BY <1>1, <1>2

LEMMA ManagerTypes ==
  ASSUME TypeOK, Queues,
         OnRoomJoined \/ OnPeerJoined \/ OnPeerLeft \/ OnPeerPosition \/ OnDisconnected
  PROVE  TypeOK' /\ Queues'
<1> USE DEF remote, manager, mutes, wire, bounds
<1>0. /\ direct \in Seq(RosterMsg) /\ bcast \in Seq(NoteMsg)
      /\ evs \in Seq(EventMsg) /\ chan \in Seq(Command)
  BY DEF Queues
<1>1. CASE OnRoomJoined
  <2>1. evs' \in Seq(EventMsg) /\ Head(evs).peers \in SUBSET Peer /\ Head(evs).room \in Room
    BY <1>1, EventTypes DEF OnRoomJoined
  <2>2. AddTo(Head(evs).peers, Head(evs).room) /\ joined' = joined \cup {Head(evs).room}
        /\ UNCHANGED <<steps, loads, at, ours, direct, bcast, mutedAccounts, file, stale, asked, playing>>
    BY <1>1 DEF OnRoomJoined
  <2>3. /\ roomIds' \in [Peer -> SUBSET Room] /\ muted' \subseteq Peer
        /\ thinned' \subseteq Peer /\ chan' \in Seq(Command)
    BY <2>1, <2>2, AddToTypes
  <2>4. QED
    BY <1>0, <2>1, <2>2, <2>3 DEF TypeOK, Queues
<1>2. CASE OnPeerJoined
  <2>1. evs' \in Seq(EventMsg) /\ {Head(evs).peer} \in SUBSET Peer /\ Head(evs).room \in Room
    BY <1>2, EventTypes DEF OnPeerJoined
  <2>2. AddTo({Head(evs).peer}, Head(evs).room)
        /\ UNCHANGED <<steps, loads, at, ours, direct, bcast, joined, mutedAccounts, file, stale, asked, playing>>
    BY <1>2 DEF OnPeerJoined
  <2>3. /\ roomIds' \in [Peer -> SUBSET Room] /\ muted' \subseteq Peer
        /\ thinned' \subseteq Peer /\ chan' \in Seq(Command)
    BY <2>1, <2>2, AddToTypes
  <2>4. QED
    BY <1>0, <2>1, <2>2, <2>3 DEF TypeOK, Queues
<1>3. CASE OnPeerLeft
  <2> DEFINE ps == {p \in {Head(evs).peer} : Listed(p)}
  <2>1. evs' \in Seq(EventMsg) /\ ps \in SUBSET Peer /\ Head(evs).room \in Room
    BY <1>3, EventTypes DEF OnPeerLeft
  <2>2. DropRoom(ps, Head(evs).room)
        /\ UNCHANGED <<steps, loads, at, ours, direct, bcast, joined, mutedAccounts, file, stale, playing>>
    BY <1>3 DEF OnPeerLeft
  <2> HIDE DEF ps
  <2>3. /\ roomIds' \in [Peer -> SUBSET Room] /\ muted' \subseteq Peer /\ asked' \subseteq Peer
        /\ thinned' \subseteq Peer /\ chan' \in Seq(Command)
    BY <2>1, <2>2, DropRoomTypes
  <2>4. QED
    BY <1>0, <2>1, <2>2, <2>3 DEF TypeOK, Queues
<1>4. CASE OnPeerPosition
  <2>1. evs' \in Seq(EventMsg) /\ SetPeerPosition(Head(evs).peer) \in Command
    BY <1>4, EventTypes, CommandTypes DEF OnPeerPosition
  <2>2. chan' \in Seq(Command)
    BY <1>0, <1>4, <2>1 DEF OnPeerPosition
  <2>3. QED
    BY <1>0, <1>4, <2>1, <2>2 DEF TypeOK, Queues, OnPeerPosition
<1>5. CASE OnDisconnected
  <2>1. evs' \in Seq(EventMsg) /\ chan' \in Seq(Command)
    BY <1>0, <1>5, EventTypes, CommandTypes DEF OnDisconnected
  <2>2. asked' \subseteq Peer
    BY <1>5 DEF OnDisconnected, Delist, TypeOK
  <2>3. QED
    BY <1>0, <1>5, <2>1, <2>2 DEF TypeOK, Queues, OnDisconnected
<1>6. QED
  BY <1>1, <1>2, <1>3, <1>4, <1>5

LEMMA PlayerTypes ==
  ASSUME TypeOK, Queues,
         \/ \E r \in Room : Leave(r)
         \/ \E p \in Peer, b \in BOOLEAN : Mute(p, b)
         \/ \E ok \in BOOLEAN : Restart(ok)
  PROVE  TypeOK' /\ Queues'
<1> USE DEF remote, manager, mutes, wire, bounds
<1>0. /\ direct \in Seq(RosterMsg) /\ bcast \in Seq(NoteMsg)
      /\ evs \in Seq(EventMsg) /\ chan \in Seq(Command)
  BY DEF Queues
<1>1. ASSUME NEW r \in Room, Leave(r) PROVE TypeOK' /\ Queues'
  <2> DEFINE ps == {p \in Peer : r \in roomIds[p]}
  <2>1. /\ DropRoom(ps, r) /\ joined' = joined \ {r} /\ ours' = ours \ {r} /\ Step
        /\ UNCHANGED <<at, direct, bcast, evs, mutedAccounts, file, stale, playing>>
    BY <1>1 DEF Leave
  <2>2. ps \in SUBSET Peer
    OBVIOUS
  <2> HIDE DEF ps
  <2>3. /\ roomIds' \in [Peer -> SUBSET Room] /\ muted' \subseteq Peer /\ asked' \subseteq Peer
        /\ thinned' \subseteq Peer /\ chan' \in Seq(Command)
    BY <2>1, <2>2, DropRoomTypes
  <2>4. steps' \in 0..MaxSteps /\ loads' = loads
    BY <2>1, BoundAssumption DEF Step, TypeOK
  <2>5. QED
    BY <1>0, <2>1, <2>3, <2>4 DEF TypeOK, Queues
<1>2. ASSUME NEW p \in Peer, NEW b \in BOOLEAN, Mute(p, b) PROVE TypeOK' /\ Queues'
  <2>1. chan' \in Seq(Command)
    BY <1>0, <1>2, CommandTypes DEF Mute
  <2>2. mutedAccounts' \subseteq Named /\ muted' \subseteq Peer /\ asked' \subseteq Peer
    BY <1>2 DEF Mute, Persisted, TypeOK
  <2>3. file' \subseteq Named /\ stale' \in BOOLEAN
    BY <1>2, <2>2 DEF Mute, Save, TypeOK
  <2>4. steps' \in 0..MaxSteps /\ loads' = loads
    BY <1>2, BoundAssumption DEF Mute, Step, TypeOK
  <2>5. QED
    BY <1>0, <1>2, <2>1, <2>2, <2>3, <2>4 DEF TypeOK, Queues, Mute
<1>3. ASSUME NEW ok \in BOOLEAN, Restart(ok) PROVE TypeOK' /\ Queues'
  <2>1. mutedAccounts' \subseteq Named /\ asked' \subseteq Peer
    BY <1>3, NamedAssumption DEF Restart, Load, TypeOK
  <2>2. loads' \in 0..MaxLoads /\ stale' \in BOOLEAN
    BY <1>3, BoundAssumption DEF Restart, TypeOK
  <2>3. Queues' /\ playing' \in [Peer -> Playback \cup {None}]
    BY <1>3 DEF Restart, Shutdown, Queues
  <2>4. QED
    BY <1>3, <2>1, <2>2, <2>3 DEF TypeOK, Restart, Shutdown
<1>4. QED
  BY <1>1, <1>2, <1>3
-----------------------------------------------------------------------------
(* The engine *)

LEMMA CommandShapes ==
  ASSUME NEW c \in Command
  PROVE  \/ c.kind = "ResetIncoming" /\ c = ResetIncoming
         \/ c.kind = "UpsertPeer" /\ c.peer \in Peer /\ c = UpsertPeer(c.peer)
         \/ c.kind = "SetPeerPosition" /\ c.peer \in Peer /\ c = SetPeerPosition(c.peer)
         \/ c.kind = "RemovePeer" /\ c.peer \in Peer /\ c = RemovePeer(c.peer)
         \/ /\ c.kind = "RemovePeerFromRoom" /\ c.peer \in Peer /\ c.room \in Room
            /\ c = RemovePeerFromRoom(c.peer, c.room)
         \/ /\ c.kind = "PushPeerOpus" /\ c.peer \in Peer /\ c.room \in Room
            /\ c = PushPeerOpus(c.peer, c.room)
         \/ /\ c.kind = "SetPeerMuted" /\ c.peer \in Peer /\ c.muted \in BOOLEAN
            /\ c = SetPeerMuted(c.peer, c.muted)
BY DEF Command, ResetIncoming, UpsertPeer, SetPeerPosition, RemovePeer, RemovePeerFromRoom,
  PushPeerOpus, SetPeerMuted

LEMMA PlayTypes ==
  ASSUME TypeOK, Queues, Play
  PROVE  TypeOK' /\ Queues'
<1> DEFINE c == Head(chan)
<1> USE DEF remote, manager, mutes, wire, bounds
<1>1. c \in Command /\ chan' \in Seq(Command)
  BY DEF Play, Queues
<1>2. playing \in [Peer -> Playback \cup {None}] /\ Fresh \in Playback
  BY DEF TypeOK, Fresh, Playback
<1>3. \A v : v \in Playback \cup {None} =>
        [playing EXCEPT ![c.peer] = v] \in [Peer -> Playback \cup {None}]
  BY <1>2
<1>4. /\ c.kind = "ResetIncoming" => playing' = [p \in Peer |-> None]
      /\ c.kind = "UpsertPeer" => playing' = [playing EXCEPT ![c.peer] = Upserted(c.peer)]
      /\ c.kind = "SetPeerPosition" => playing' = [playing EXCEPT ![c.peer] = Ensured(c.peer)]
      /\ c.kind = "RemovePeer" => playing' = [playing EXCEPT ![c.peer] = None]
      /\ c.kind = "RemovePeerFromRoom" =>
           playing' = [playing EXCEPT ![c.peer] = Without(c.peer, c.room)]
      /\ c.kind = "PushPeerOpus" => playing' =
           [playing EXCEPT ![c.peer] = [Ensured(c.peer) EXCEPT !.streams = @ \cup {c.room}]]
      /\ c.kind = "SetPeerMuted" => playing' =
           [playing EXCEPT ![c.peer] = IF playing[c.peer] = None THEN None
                                       ELSE [playing[c.peer] EXCEPT !.muted = c.muted]]
  BY DEF Play
<1> HIDE DEF c
<1>5. playing' \in [Peer -> Playback \cup {None}]
  <2>1. CASE c.kind = "ResetIncoming"
    BY <1>4, <2>1
  <2>2. CASE c.kind = "UpsertPeer" /\ c.peer \in Peer
    BY <1>2, <1>3, <1>4, <2>2 DEF Upserted
  <2>3. CASE c.kind = "SetPeerPosition" /\ c.peer \in Peer
    BY <1>2, <1>3, <1>4, <2>3 DEF Ensured
  <2>4. CASE c.kind = "RemovePeer"
    BY <1>3, <1>4, <2>4
  <2>5. CASE c.kind = "RemovePeerFromRoom" /\ c.peer \in Peer
    <3>1. Without(c.peer, c.room) \in Playback \cup {None}
      BY <1>2, <2>5 DEF Without, Playback
    <3>2. QED
      BY <1>3, <1>4, <2>5, <3>1
  <2>6. CASE c.kind = "PushPeerOpus" /\ c.peer \in Peer /\ c.room \in Room
    <3>1. Ensured(c.peer) \in Playback
      BY <1>2, <2>6 DEF Ensured
    <3>2. [Ensured(c.peer) EXCEPT !.streams = @ \cup {c.room}] \in Playback
      BY <2>6, <3>1 DEF Playback
    <3>3. QED
      BY <1>3, <1>4, <2>6, <3>2
  <2>7. CASE c.kind = "SetPeerMuted" /\ c.peer \in Peer /\ c.muted \in BOOLEAN
    <3>1. playing[c.peer] # None => [playing[c.peer] EXCEPT !.muted = c.muted] \in Playback
      BY <1>2, <2>7 DEF Playback
    <3>2. QED
      BY <1>3, <1>4, <2>7, <3>1
  <2>8. QED
    BY <1>1, <2>1, <2>2, <2>3, <2>4, <2>5, <2>6, <2>7, CommandShapes
<1>6. QED
  BY <1>1, <1>5 DEF Play, TypeOK, Queues

\* The engine does to a peer what the outcome of its commands says.
LEMMA PlayEffect ==
  ASSUME TypeOK, Queues, Play, NEW p \in Peer
  PROVE  LET c == Head(chan)
         IN  /\ (Plays(p) /\ c \notin Removers(p)) \/ c \in Creators(p) => Plays(p)'
             /\ (IsSilent(p) /\ c \notin Fades(p)) \/ (Plays(p) /\ c = Mutes(p)) => IsSilent(p)'
             /\ IsSilent(p)' => (IsSilent(p) /\ c \notin Enders(p)) \/ c = Mutes(p)
<1> DEFINE c == Head(chan)
<1>1. c \in Command
  BY DEF Play, Queues
<1>2. /\ playing \in [Peer -> Playback \cup {None}] /\ playing[p] \in Playback \cup {None}
      /\ Fresh \in Playback /\ Fresh.muted = FALSE
      /\ \A x \in Playback : x # None /\ x \in [muted : BOOLEAN, streams : SUBSET Room]
  BY NoneAssumption DEF TypeOK, Fresh, Playback
<1>4. /\ c.kind = "ResetIncoming" => playing' = [x \in Peer |-> None]
      /\ c.kind = "UpsertPeer" => playing' = [playing EXCEPT ![c.peer] = Upserted(c.peer)]
      /\ c.kind = "SetPeerPosition" => playing' = [playing EXCEPT ![c.peer] = Ensured(c.peer)]
      /\ c.kind = "RemovePeer" => playing' = [playing EXCEPT ![c.peer] = None]
      /\ c.kind = "RemovePeerFromRoom" =>
           playing' = [playing EXCEPT ![c.peer] = Without(c.peer, c.room)]
      /\ c.kind = "PushPeerOpus" => playing' =
           [playing EXCEPT ![c.peer] = [Ensured(c.peer) EXCEPT !.streams = @ \cup {c.room}]]
      /\ c.kind = "SetPeerMuted" => playing' =
           [playing EXCEPT ![c.peer] = IF playing[c.peer] = None THEN None
                                       ELSE [playing[c.peer] EXCEPT !.muted = c.muted]]
  BY DEF Play
<1> HIDE DEF c
<1>5. /\ c \in Creators(p) =>
           c.kind \in {"UpsertPeer", "SetPeerPosition", "PushPeerOpus"} /\ c.peer = p
      /\ c = Mutes(p) => c.kind = "SetPeerMuted" /\ c.peer = p /\ c.muted = TRUE
  BY CommandRoles
<1>6. /\ c = ResetIncoming => c \in Removers(p) /\ c \in Fades(p) /\ c \in Enders(p)
      /\ c = RemovePeer(p) => c \in Removers(p) /\ c \in Fades(p) /\ c \in Enders(p)
      /\ \A r \in Room : c = RemovePeerFromRoom(p, r) => c \in Removers(p) /\ c \in Fades(p)
      /\ c = Unmutes(p) => c \in Fades(p) /\ c \in Enders(p)
  BY DEF Removers, Fades, Enders
<1>7. c \in Enders(p) =>
        \/ c.kind = "ResetIncoming"
        \/ c.kind = "RemovePeer" /\ c.peer = p
        \/ c.kind = "SetPeerMuted" /\ c.peer = p /\ c.muted = FALSE
  BY CommandKinds DEF Enders, Unmutes, SetPeerMuted
<1> DEFINE Effect ==
      /\ (Plays(p) /\ c \notin Removers(p)) \/ c \in Creators(p) => Plays(p)'
      /\ (IsSilent(p) /\ c \notin Fades(p)) \/ (Plays(p) /\ c = Mutes(p)) => IsSilent(p)'
      /\ IsSilent(p)' => (IsSilent(p) /\ c \notin Enders(p)) \/ c = Mutes(p)
<1> USE DEF Plays, IsSilent
<1>8. ASSUME c.kind = "ResetIncoming" /\ c = ResetIncoming
      PROVE  Effect
  BY <1>4, <1>5, <1>6, <1>8
<1>9. ASSUME c.kind # "ResetIncoming", c.peer # p PROVE Effect
  <2>1. playing'[p] = playing[p]
    BY <1>1, <1>2, <1>4, <1>9, CommandShapes
  <2>2. c \notin Creators(p) /\ c \notin Enders(p) /\ c # Mutes(p)
    BY <1>5, <1>7, <1>9
  <2>3. QED
    BY <2>1, <2>2
<1>10. ASSUME c.peer = p /\ c.kind = "UpsertPeer"
      PROVE  Effect
  BY <1>2, <1>4, <1>5, <1>7, <1>10 DEF Upserted
<1>11. ASSUME c.peer = p /\ c.kind = "SetPeerPosition"
      PROVE  Effect
  BY <1>2, <1>4, <1>5, <1>7, <1>11 DEF Ensured
<1>12. ASSUME c.peer = p /\ c.kind = "RemovePeer" /\ c = RemovePeer(c.peer)
      PROVE  Effect
  BY <1>2, <1>4, <1>5, <1>6, <1>12
<1>13. ASSUME c.peer = p /\ c.kind = "RemovePeerFromRoom" /\ c.room \in Room
            /\ c = RemovePeerFromRoom(c.peer, c.room)
      PROVE  Effect
  <2>1. playing'[p] = Without(p, c.room)
    BY <1>2, <1>4, <1>13
  <2>2. playing'[p] # None => playing[p] # None /\ playing'[p].muted = playing[p].muted
    BY <1>2, <2>1 DEF Without
  <2>3. c \in Removers(p) /\ c \in Fades(p) /\ c \notin Creators(p) /\ c # Mutes(p)
        /\ c \notin Enders(p)
    BY <1>5, <1>6, <1>7, <1>13
  <2>4. QED
    BY <2>2, <2>3
<1>14. ASSUME c.peer = p /\ c.kind = "PushPeerOpus" /\ c.room \in Room
      PROVE  Effect
  <2>1. Ensured(p) \in Playback /\ (Plays(p) => Ensured(p) = playing[p])
        /\ (~Plays(p) => Ensured(p) = Fresh)
    BY <1>2 DEF Ensured
  <2>2. playing'[p] = [Ensured(p) EXCEPT !.streams = @ \cup {c.room}]
    BY <1>2, <1>4, <1>14
  <2>3. playing'[p] \in Playback /\ playing'[p].muted = Ensured(p).muted
    BY <1>14, <2>1, <2>2 DEF Playback
  <2>4. c \notin Enders(p) /\ c # Mutes(p)
    BY <1>5, <1>7, <1>14
  <2>5. QED
    BY <1>2, <2>1, <2>3, <2>4
<1>15. ASSUME c.peer = p /\ c.kind = "SetPeerMuted" /\ c.muted \in BOOLEAN
            /\ c = SetPeerMuted(c.peer, c.muted)
      PROVE  Effect
  <2>1. /\ ~Plays(p) => playing'[p] = None
        /\ Plays(p) => playing'[p] = [playing[p] EXCEPT !.muted = c.muted]
    BY <1>2, <1>4, <1>15
  <2>2. Plays(p) => playing'[p] \in Playback /\ playing'[p].muted = c.muted
    BY <1>2, <1>15, <2>1 DEF Playback
  <2>3. c \notin Creators(p) /\ (c.muted => c = Mutes(p) /\ c \notin Enders(p))
        /\ (~c.muted => c = Unmutes(p))
    BY <1>5, <1>7, <1>15 DEF Mutes, Unmutes
  <2>4. Plays(p)' <=> Plays(p)
    BY <1>2, <2>1, <2>2
  <2>5. CASE c.muted = TRUE
    <3>1. c = Mutes(p) /\ (Plays(p) => IsSilent(p)')
      BY <2>2, <2>3, <2>4, <2>5
    <3>2. QED
      BY <2>3, <2>4, <2>5, <3>1
  <2>6. CASE c.muted = FALSE
    <3>1. c = Unmutes(p) /\ ~IsSilent(p)'
      BY <2>2, <2>3, <2>4, <2>6
    <3>2. c # Mutes(p) /\ c \in Fades(p)
      BY <1>5, <1>6, <2>6, <3>1
    <3>3. QED
      BY <2>3, <2>4, <3>1, <3>2
  <2>7. QED
    BY <1>15, <2>5, <2>6
<1>16. QED
  BY <1>1, <1>8, <1>9, <1>10, <1>11, <1>12, <1>13, <1>14, <1>15, CommandShapes DEF c
-----------------------------------------------------------------------------
(* What the commands of a step do to one peer *)

LEMMA Sent ==
  ASSUME chan \in Seq(Command), NEW s \in Seq(Command), chan' = chan \o s,
         playing' = playing, NEW p \in Peer
  PROVE  /\ Elems(s) \cap Removers(p) = {} =>
              /\ WillPlay(p) => WillPlay(p)'
              /\ Elems(s) \cap Creators(p) # {} => WillPlay(p)'
         /\ Elems(s) \cap Fades(p) = {} =>
              /\ Muting(chan, p, Plays(p), IsSilent(p)) => Muting(chan, p, Plays(p), IsSilent(p))'
              /\ WillPlay(p) /\ Mutes(p) \in Elems(s) => Muting(chan, p, Plays(p), IsSilent(p))'
         /\ MayBeMuted(p)' /\ Mutes(p) \notin Elems(s) => MayBeMuted(p) /\ Elems(s) \cap Enders(p) = {}
<1> DEFINE c == chan \o s
           plays == Plays(p)
           silent == IsSilent(p) <=> TRUE
<1>1. (Plays(p)' <=> plays) /\ (IsSilent(p)' <=> silent)
  BY DEF Plays, IsSilent
<1>2. plays \in BOOLEAN /\ silent \in BOOLEAN
  BY DEF Plays
<1> HIDE DEF c, plays
<1>3. /\ WillPlay(p) <=> Outcome(chan, plays, Creators(p), Removers(p))
      /\ MayBeMuted(p) <=> Outcome(chan, silent, {Mutes(p)}, Enders(p))
      /\ Muting(chan, p, Plays(p), IsSilent(p)) <=> Muting(chan, p, plays, silent)
  BY DEF WillPlay, MayBeMuted, Outcome, Muting, plays
<1>4. /\ WillPlay(p)' <=> Outcome(c, plays, Creators(p), Removers(p))
      /\ MayBeMuted(p)' <=> Outcome(c, silent, {Mutes(p)}, Enders(p))
      /\ Muting(chan, p, Plays(p), IsSilent(p))' <=> Muting(c, p, plays, silent)
  BY <1>1 DEF WillPlay, MayBeMuted, Outcome, Muting, Free, FreeAfter, c
<1> HIDE DEF silent
<1>5. Elems(s) \cap Fades(p) = {} => Elems(s) \cap Removers(p) = {}
  BY DEF Fades
<1>6. /\ Elems(s) \cap Removers(p) = {} /\ Outcome(chan, plays, Creators(p), Removers(p))
           => Outcome(c, plays, Creators(p), Removers(p))
      /\ Elems(s) \cap Creators(p) # {} /\ Elems(s) \cap Removers(p) = {}
           => Outcome(c, plays, Creators(p), Removers(p))
  BY <1>2, OutcomeMore DEF c
<1>7. Outcome(c, silent, {Mutes(p)}, Enders(p)) /\ Elems(s) \cap {Mutes(p)} = {}
        => Outcome(chan, silent, {Mutes(p)}, Enders(p)) /\ Elems(s) \cap Enders(p) = {}
  BY <1>2, OutcomeMore DEF c
<1>8. Elems(s) \cap Fades(p) = {} =>
        /\ Muting(chan, p, plays, silent) => Muting(c, p, plays, silent)
        /\ Outcome(chan, plays, Creators(p), Removers(p)) /\ Mutes(p) \in Elems(s)
             => Muting(c, p, plays, silent)
  BY <1>2, MutingMore DEF c
<1>9. QED
  BY <1>3, <1>4, <1>5, <1>6, <1>7, <1>8

\* No command of the step is about the peer.
LEMMA Unconcerned ==
  ASSUME chan \in Seq(Command), NEW s \in Seq(Command), chan' = chan \o s,
         playing' = playing, NEW p \in Peer, Each(p),
         Elems(s) \cap Fades(p) = {}, Mutes(p) \notin Elems(s),
         Listed(p)' => Listed(p), p \in thinned => p \in thinned' \/ ~Listed(p)',
         Lost => Lost', p \in asked' <=> p \in asked
  PROVE  Each(p)'
<1>1. /\ WillPlay(p) => WillPlay(p)'
      /\ Muting(chan, p, Plays(p), IsSilent(p)) => Muting(chan, p, Plays(p), IsSilent(p))'
      /\ MayBeMuted(p)' => MayBeMuted(p)
  BY Sent DEF Fades
<1>2. QED
  BY <1>1 DEF Each, Silenced, Lasting

\* The peer is thinned, gone, or about to be reset.
LEMMA Excused ==
  ASSUME chan \in Seq(Command), NEW s \in Seq(Command), chan' = chan \o s,
         playing' = playing, NEW p \in Peer, Each(p),
         Mutes(p) \notin Elems(s),
         p \in asked => p \in asked' \/ Elems(s) \cap Enders(p) # {},
         p \in thinned' \/ ~Listed(p)' \/ Lost'
  PROVE  Each(p)'
<1>1. MayBeMuted(p)' => MayBeMuted(p) /\ Elems(s) \cap Enders(p) = {}
  BY Sent
<1>2. QED
  BY <1>1 DEF Each, Silenced, Lasting

LEMMA PlayStep ==
  ASSUME TypeOK, Queues, Play, NEW p \in Peer, Each(p)
  PROVE  Each(p)'
<1> DEFINE h == Head(chan)
           s == Tail(chan)
           plays == Plays(p)
           mute == IsSilent(p) <=> TRUE
           plays2 == Plays(p)'
           mute2 == IsSilent(p)' <=> TRUE
<1>1. chan \in Seq(Command) /\ chan # <<>> /\ chan' = s
      /\ UNCHANGED <<evs, roomIds, thinned, asked>>
  BY DEF Play, Queues, manager
<1>2. plays \in BOOLEAN /\ mute \in BOOLEAN /\ plays2 \in BOOLEAN /\ mute2 \in BOOLEAN
  BY DEF Plays
<1>3. /\ (plays /\ h \notin Removers(p)) \/ h \in Creators(p) => plays2
      /\ (mute /\ h \notin Fades(p)) \/ (plays /\ h = Mutes(p)) => mute2
      /\ mute2 => (mute /\ h \notin Enders(p)) \/ h = Mutes(p)
  BY PlayEffect
<1>4. /\ WillPlay(p) <=> Outcome(chan, plays, Creators(p), Removers(p))
      /\ MayBeMuted(p) <=> Outcome(chan, mute, {Mutes(p)}, Enders(p))
      /\ Muting(chan, p, Plays(p), IsSilent(p)) <=> Muting(chan, p, plays, mute)
  BY DEF WillPlay, MayBeMuted, Outcome, Muting
<1>5. /\ WillPlay(p)' <=> Outcome(s, plays2, Creators(p), Removers(p))
      /\ MayBeMuted(p)' <=> Outcome(s, mute2, {Mutes(p)}, Enders(p))
      /\ Muting(chan, p, Plays(p), IsSilent(p))' <=> Muting(s, p, plays2, mute2)
  BY <1>1 DEF WillPlay, MayBeMuted, Outcome, Muting, Free, FreeAfter
<1> HIDE DEF plays, mute, plays2, mute2
<1>6. /\ Outcome(chan, plays, Creators(p), Removers(p)) <=>
           Outcome(Tail(chan), (plays /\ Head(chan) \notin Removers(p)) \/ Head(chan) \in Creators(p),
                   Creators(p), Removers(p))
      /\ Outcome(chan, mute, {Mutes(p)}, Enders(p)) <=>
           Outcome(Tail(chan), (mute /\ Head(chan) \notin Enders(p)) \/ Head(chan) \in {Mutes(p)},
                   {Mutes(p)}, Enders(p))
  BY <1>1, <1>2, OutcomeTail
<1>7. Muting(chan, p, plays, mute) => Muting(Tail(chan), p, plays2, mute2)
  BY <1>1, <1>2, <1>3, MutingTail
<1> HIDE DEF s, h
<1>8. WillPlay(p) => WillPlay(p)'
  BY <1>3, <1>4, <1>5, <1>6 DEF Outcome, s, h
<1>9. MayBeMuted(p)' => MayBeMuted(p)
  BY <1>3, <1>4, <1>5, <1>6 DEF Outcome, s, h
<1>10. Muting(chan, p, Plays(p), IsSilent(p)) => Muting(chan, p, Plays(p), IsSilent(p))'
  BY <1>4, <1>5, <1>7 DEF s
<1>11. QED
  BY <1>1, <1>8, <1>9, <1>10 DEF Each, Silenced, Lasting, Listed, Lost
-----------------------------------------------------------------------------
(* The wishes of the player *)

LEMMA WishesStep ==
  ASSUME TypeOK, Queues, Wishes, [Next]_vars
  PROVE  Wishes'
<1> USE DEF Listed, manager, mutes
<1>0. /\ roomIds \in [Peer -> SUBSET Room] /\ muted \subseteq Peer /\ asked \subseteq Peer
      /\ file \subseteq Named /\ stale \in BOOLEAN /\ mutedAccounts \subseteq Named
  BY DEF TypeOK
<1>1. CASE UNCHANGED <<asked, mutedAccounts, file, stale, muted, roomIds>>
  BY <1>1 DEF Wishes
<1>2. ASSUME NEW ps \in SUBSET Peer, NEW r \in Room, AddTo(ps, r),
             UNCHANGED <<asked, mutedAccounts, file, stale>>
      PROVE  Wishes'
  <2>1. ASSUME NEW p \in Peer
        PROVE  /\ p \in asked' \ Named => Listed(p)'
               /\ p \in muted' => Listed(p)'
               /\ Listed(p)' => (p \in muted' <=> p \in asked')
    <3>1. roomIds'[p] = IF p \in ps THEN roomIds[p] \cup {r} ELSE roomIds[p]
      BY <1>2 DEF AddTo
    <3>2. Listed(p)' <=> Listed(p) \/ p \in ps
      BY <1>0, <3>1
    <3>3. p \in muted' <=> \/ p \in muted /\ ~(p \in ps /\ ~Listed(p))
                           \/ p \in ps /\ ~Listed(p) /\ p \in Named /\ p \in mutedAccounts
      BY <1>2 DEF AddTo
    <3>4. QED
      BY <1>2, <3>2, <3>3 DEF Wishes
  <2>2. QED
    BY <1>2, <2>1 DEF Wishes
<1>3. ASSUME NEW ps \in SUBSET Peer, NEW r \in Room, DropRoom(ps, r),
             UNCHANGED <<mutedAccounts, file, stale>>
      PROVE  Wishes'
  <2> DEFINE last == {p \in ps : roomIds[p] \subseteq {r}}
  <2>1. muted' = muted \ last /\ asked' = asked \ (last \ Named)
    BY <1>3 DEF DropRoom, Delist
  <2>2. ASSUME NEW p \in Peer PROVE Listed(p)' <=> Listed(p) /\ p \notin last
    BY <1>0, <1>3 DEF DropRoom
  <2> HIDE DEF last
  <2>3. asked' \cap Named = mutedAccounts'
    BY <1>3, <2>1 DEF Wishes
  <2>4. ASSUME NEW p \in Peer
        PROVE  /\ p \in asked' \ Named => Listed(p)'
               /\ p \in muted' => Listed(p)'
               /\ Listed(p)' => (p \in muted' <=> p \in asked')
    BY <2>1, <2>2 DEF Wishes
  <2>5. QED
    BY <1>3, <2>3, <2>4 DEF Wishes
<1>4. CASE OnRoomJoined
  <2>1. Head(evs).peers \in SUBSET Peer /\ Head(evs).room \in Room
    BY <1>4, EventTypes DEF OnRoomJoined
  <2>2. QED
    BY <1>2, <1>4, <2>1 DEF OnRoomJoined
<1>5. CASE OnPeerJoined
  <2>1. {Head(evs).peer} \in SUBSET Peer /\ Head(evs).room \in Room
    BY <1>5, EventTypes DEF OnPeerJoined
  <2>2. QED
    BY <1>2, <1>5, <2>1 DEF OnPeerJoined
<1>6. CASE OnPeerLeft
  <2> DEFINE ps == {p \in {Head(evs).peer} : Listed(p)}
  <2>1. ps \in SUBSET Peer /\ Head(evs).room \in Room
    BY <1>6, EventTypes DEF OnPeerLeft
  <2>2. DropRoom(ps, Head(evs).room) /\ UNCHANGED <<mutedAccounts, file, stale>>
    BY <1>6 DEF OnPeerLeft
  <2> HIDE DEF ps
  <2>3. QED
    BY <1>3, <2>1, <2>2
<1>7. ASSUME NEW r \in Room, Leave(r) PROVE Wishes'
  <2> DEFINE ps == {p \in Peer : r \in roomIds[p]}
  <2>1. DropRoom(ps, r) /\ UNCHANGED <<mutedAccounts, file, stale>>
    BY <1>7 DEF Leave
  <2>2. ps \in SUBSET Peer
    OBVIOUS
  <2> HIDE DEF ps
  <2>3. QED
    BY <1>3, <2>1, <2>2
<1>8. CASE OnDisconnected
  BY <1>0, <1>8 DEF OnDisconnected, Delist, Wishes
<1>9. ASSUME NEW p \in Peer, NEW b \in BOOLEAN, Mute(p, b) PROVE Wishes'
  <2>1. /\ Listed(p) /\ roomIds' = roomIds
        /\ muted' = IF b THEN muted \cup {p} ELSE muted \ {p}
        /\ asked' = IF b THEN asked \cup {p} ELSE asked \ {p}
        /\ mutedAccounts' = IF b THEN mutedAccounts \cup ({p} \cap Named)
                            ELSE mutedAccounts \ ({p} \cap Named)
        /\ IF mutedAccounts' # mutedAccounts THEN Save(mutedAccounts') ELSE UNCHANGED <<file, stale>>
    BY <1>9 DEF Mute, Persisted
  <2>2. asked' \cap Named = mutedAccounts'
    BY <2>1 DEF Wishes
  <2>3. ~stale' => file' = mutedAccounts'
    BY <2>1 DEF Wishes, Save
  <2>4. ASSUME NEW x \in Peer
        PROVE  /\ x \in asked' \ Named => Listed(x)'
               /\ x \in muted' => Listed(x)'
               /\ Listed(x)' => (x \in muted' <=> x \in asked')
    <3>1. Listed(x)' <=> Listed(x)
      BY <2>1
    <3>2. CASE x = p
      BY <2>1, <3>1, <3>2
    <3>3. CASE x # p
      BY <2>1, <3>1, <3>3 DEF Wishes
    <3>4. QED
      BY <3>2, <3>3
  <2>5. QED
    BY <2>2, <2>3, <2>4 DEF Wishes
<1>10. ASSUME NEW ok \in BOOLEAN, Restart(ok) PROVE Wishes'
  <2>1. /\ mutedAccounts' = (IF ok THEN file ELSE {}) /\ file' = file
        /\ asked' = IF ok /\ ~stale THEN asked \cap Named ELSE mutedAccounts'
        /\ (~stale' => ~stale /\ ok)
        /\ muted' = {} /\ \A p \in Peer : roomIds'[p] = {}
    BY <1>10 DEF Restart, Shutdown, Load
  <2>2. asked' \subseteq Named /\ asked' = mutedAccounts'
    BY <1>0, <2>1 DEF Wishes
  <2>3. ~stale' => file' = mutedAccounts'
    BY <2>1
  <2>4. QED
    BY <2>1, <2>2, <2>3 DEF Wishes
<1>11. CASE \E p \in Peer, r \in Room : PeerEnters(p, r) \/ PeerLeaves(p, r)
              \/ PeerSends("PeerAudio", p, r) \/ PeerSends("PeerPosition", p, r)
  BY <1>1, <1>11 DEF PeerEnters, PeerLeaves, PeerSends
<1>12. CASE (\E r \in Room : Join(r)) \/ ReceiveRoster \/ ReceiveNote \/ LinkLost
              \/ OnPeerPosition \/ OnConnected \/ Play \/ UNCHANGED vars
  BY <1>1, <1>12 DEF Join, ReceiveRoster, ReceiveNote, LinkLost, OnPeerPosition, OnConnected, Play, vars
<1>13. QED
  BY <1>4, <1>5, <1>6, <1>7, <1>8, <1>9, <1>10, <1>11, <1>12 DEF Next
-----------------------------------------------------------------------------
(* One peer through every step *)

LEMMA IdleStep ==
  ASSUME NEW p \in Peer, Each(p), UNCHANGED <<chan, playing, roomIds, thinned, asked>>, Lost => Lost'
  PROVE  Each(p)'
<1>1. /\ WillPlay(p)' <=> WillPlay(p)
      /\ MayBeMuted(p)' <=> MayBeMuted(p)
      /\ Muting(chan, p, Plays(p), IsSilent(p))' <=> Muting(chan, p, Plays(p), IsSilent(p))
      /\ Listed(p)' <=> Listed(p)
  BY DEF WillPlay, MayBeMuted, Muting, Plays, IsSilent, Outcome, Free, FreeAfter, Listed
<1>2. QED
  BY <1>1 DEF Each, Silenced, Lasting

LEMMA ReceiveStep ==
  ASSUME Queues, ReceiveRoster \/ ReceiveNote, NEW p \in Peer, Each(p)
  PROVE  Each(p)'
<1> USE DEF manager
<1>1. chan \in Seq(Command) /\ evs \in Seq(EventMsg)
  BY DEF Queues
<1>2. UNCHANGED <<playing, roomIds, thinned, asked>>
  BY DEF ReceiveRoster, ReceiveNote
<1>3. Lost => Lost'
  <2>1. evs' = evs \/ \E m : evs' = Append(evs, m)
    BY DEF ReceiveRoster, ReceiveNote
  <2>2. QED
    BY <1>1, <2>1 DEF Lost
<1>4. \E s \in Seq(Command) :
        /\ chan' = chan \o s
        /\ \A c \in Elems(s) : c.kind \in {"UpsertPeer", "SetPeerPosition", "PushPeerOpus"}
  <2>1. CASE ReceiveRoster
    <3> DEFINE ps == Head(direct).peers
               s == Upserts(ps)
    <3>1. Head(direct) \in RosterMsg /\ chan' = chan \o s
      BY <2>1 DEF ReceiveRoster, Queues
    <3>2. ps \in SUBSET Peer /\ Head(direct).room \in Room
      BY <3>1, MessageTypes
    <3> HIDE DEF ps
    <3>3. s \in Seq(Command) /\ Elems(s) = {UpsertPeer(x) : x \in ps}
      BY <3>2, SetsOfCommands DEF Upserts
    <3> HIDE DEF s
    <3>4. QED
      BY <3>1, <3>3, CommandKinds
  <2>2. CASE ReceiveNote
    <3> DEFINE m == Head(bcast)
    <3>1. m \in NoteMsg
      BY <2>2 DEF ReceiveNote, Queues
    <3>2. /\ m.peer \in Peer /\ m.room \in Room
          /\ m.kind \in {"PeerJoined", "PeerLeft", "PeerAudio", "PeerPosition"}
      BY <3>1, MessageTypes
    <3>3. \/ chan' = chan
          \/ \E c \in {UpsertPeer(m.peer), SetPeerPosition(m.peer), PushPeerOpus(m.peer, m.room)} :
               chan' = Append(chan, c)
      BY <2>2, <3>2 DEF ReceiveNote
    <3> HIDE DEF m
    <3>4. CASE chan' = chan
      <4>1. chan' = chan \o <<>>
        BY <1>1, <3>4
      <4>2. QED
        BY <4>1, ElemsEmpty
    <3>5. ASSUME NEW c \in {UpsertPeer(m.peer), SetPeerPosition(m.peer), PushPeerOpus(m.peer, m.room)},
                 chan' = Append(chan, c)
          PROVE  \E s \in Seq(Command) :
                   /\ chan' = chan \o s
                   /\ \A d \in Elems(s) : d.kind \in {"UpsertPeer", "SetPeerPosition", "PushPeerOpus"}
      <4>1. c \in Command /\ c.kind \in {"UpsertPeer", "SetPeerPosition", "PushPeerOpus"}
        BY <3>2, CommandTypes, CommandKinds
      <4>2. chan' = chan \o <<c>> /\ <<c>> \in Seq(Command) /\ Elems(<<c>>) = {c}
        BY <1>1, <3>5, <4>1, Appending
      <4>3. QED
        BY <4>1, <4>2
    <3>6. QED
      BY <3>3, <3>4, <3>5
  <2>3. QED
    BY <2>1, <2>2
<1>5. PICK s \in Seq(Command) :
        /\ chan' = chan \o s
        /\ \A c \in Elems(s) : c.kind \in {"UpsertPeer", "SetPeerPosition", "PushPeerOpus"}
  BY <1>4
<1>6. Elems(s) \cap Fades(p) = {} /\ Mutes(p) \notin Elems(s)
  BY <1>5, CommandRoles
<1>7. QED
  BY <1>1, <1>2, <1>3, <1>5, <1>6, Unconcerned DEF Listed

LEMMA LinkStep ==
  ASSUME Queues, LinkLost \/ OnDisconnected, NEW p \in Peer, Each(p)
  PROVE  Each(p)'
<1> USE DEF manager
<1> DEFINE s == <<ResetIncoming>>
<1>1. chan \in Seq(Command) /\ s \in Seq(Command) /\ Elems(s) = {ResetIncoming}
      /\ Append(chan, ResetIncoming) = chan \o s
  BY CommandTypes, Appending DEF Queues
<1>2. chan' = chan \o s /\ playing' = playing
  BY <1>1 DEF LinkLost, OnDisconnected
<1> HIDE DEF s
<1>3. Mutes(p) \notin Elems(s) /\ Elems(s) \cap Enders(p) # {}
  <2>1. Mutes(p) \notin Elems(s)
    BY <1>1, CommandKinds, MutesKind
  <2>2. ResetIncoming \in Elems(s) /\ ResetIncoming \in Enders(p)
    BY <1>1 DEF Enders
  <2>3. QED
    BY <2>1, <2>2
<1>4. CASE LinkLost
  <2>1. evs \in Seq(EventMsg) /\ evs' = evs \o <<Disconnected, Connected>>
    BY <1>4 DEF LinkLost, Queues
  <2>2. Len(evs) + 1 \in DOMAIN evs' /\ evs'[Len(evs) + 1] = Disconnected
    BY <2>1
  <2>3. Lost'
    BY <2>2, MessageTypes DEF Lost
  <2>4. QED
    BY <1>1, <1>2, <1>3, <2>3, Excused
<1>5. CASE OnDisconnected
  <2>1. ~Listed(p)'
    BY <1>5 DEF OnDisconnected, Listed
  <2>2. QED
    BY <1>1, <1>2, <1>3, <2>1, Excused
<1>6. QED
  BY <1>4, <1>5

LEMMA PositionStep ==
  ASSUME Queues, OnPeerPosition, NEW p \in Peer, Each(p)
  PROVE  Each(p)'
<1> USE DEF manager
<1> DEFINE c == SetPeerPosition(Head(evs).peer)
<1>1. chan \in Seq(Command) /\ c \in Command /\ (Lost => Lost')
  BY EventTypes, CommandTypes DEF OnPeerPosition, Queues
<1>2. (chan' = chan \/ chan' = Append(chan, c)) /\ UNCHANGED <<playing, roomIds, thinned, asked>>
  BY DEF OnPeerPosition
<1>3. c.kind = "SetPeerPosition"
  BY CommandKinds
<1> HIDE DEF c
<1>4. CASE chan' = chan
  BY <1>1, <1>2, <1>4, IdleStep
<1>5. CASE chan' = Append(chan, c)
  <2>1. chan' = chan \o <<c>> /\ <<c>> \in Seq(Command) /\ Elems(<<c>>) = {c}
    BY <1>1, <1>5, Appending
  <2>2. Elems(<<c>>) \cap Fades(p) = {} /\ Mutes(p) \notin Elems(<<c>>)
    BY <1>3, <2>1, CommandRoles
  <2>3. QED
    BY <1>1, <1>2, <2>1, <2>2, Unconcerned DEF Listed
<1>6. QED
  BY <1>2, <1>4, <1>5

\* Who is listed anew is upserted, and then muted when its account is on the list.
LEMMA AddToStep ==
  ASSUME TypeOK, Queues, Wishes, NEW ps \in SUBSET Peer, NEW r \in Room, AddTo(ps, r),
         UNCHANGED <<asked, playing>>, Lost => Lost', NEW p \in Peer, Each(p)
  PROVE  Each(p)'
<1> DEFINE new  == {x \in ps : ~Listed(x)}
           mute == new \cap Named \cap mutedAccounts
<1>1. PICK s \in Seq(Command), t \in Seq(Command) :
        /\ chan' = (chan \o s) \o t
        /\ Elems(s) = {UpsertPeer(x) : x \in new}
        /\ Elems(t) = {SetPeerMuted(x, TRUE) : x \in mute}
  BY AddToSends
<1>2. chan \in Seq(Command)
  BY DEF Queues
<1> DEFINE u == s \o t
<1>3. u \in Seq(Command) /\ Elems(u) = Elems(s) \cup Elems(t) /\ chan' = chan \o u
  <2>1. s \o t \in Seq(Command) /\ Elems(s \o t) = Elems(s) \cup Elems(t)
        /\ (chan \o s) \o t = chan \o (s \o t)
    BY <1>2, TwoMore
  <2>2. QED
    BY <1>1, <2>1
<1> HIDE DEF u
<1>4. thinned' = thinned \ new /\ (Listed(p)' => Listed(p) \/ p \in new)
  BY DEF AddTo, Listed, TypeOK
<1>5. \A c \in Elems(u) :
        \/ c.kind = "UpsertPeer" /\ c.peer \in new
        \/ c.kind = "SetPeerMuted" /\ c.muted = TRUE /\ c.peer \in mute
  <2>1. \A c \in Elems(s) : c.kind = "UpsertPeer" /\ c.peer \in new
    BY <1>1, CommandKinds
  <2>2. \A c \in Elems(t) : c.kind = "SetPeerMuted" /\ c.muted = TRUE /\ c.peer \in mute
    BY <1>1 DEF SetPeerMuted
  <2>3. QED
    BY <1>3, <2>1, <2>2
<1>6. Elems(u) \cap Fades(p) = {} /\ Elems(u) \cap Removers(p) = {}
  <2>1. \A c \in Elems(u) : c \notin Fades(p)
    BY <1>5, CommandRoles
  <2>2. QED
    BY <2>1 DEF Fades
<1>7. CASE p \notin new
  <2>1. Mutes(p) \notin Elems(u)
    BY <1>5, <1>7, MutesKind
  <2>2. QED
    BY <1>2, <1>3, <1>4, <1>6, <1>7, <2>1, Unconcerned
<1>8. CASE p \in new
  <2>1. p \in asked <=> p \in mute
    BY <1>8 DEF Wishes, Listed
  <2>2. WillPlay(p)'
    <3>1. UpsertPeer(p) \in Elems(u) /\ UpsertPeer(p) \in Creators(p)
      BY <1>1, <1>3, <1>8 DEF Creators
    <3>2. Elems(u) \cap Creators(p) # {}
      BY <3>1
    <3>3. QED
      BY <1>2, <1>3, <1>6, <3>2, Sent
  <2>3. CASE p \in mute
    <3> DEFINE c == chan \o s
               plays == Plays(p)
               silent == IsSilent(p) <=> TRUE
    <3>1. c \in Seq(Command) /\ plays \in BOOLEAN /\ silent \in BOOLEAN
      BY <1>2, Concatenation DEF Plays
    <3>2. chan' = c \o t
      BY <1>1
    <3>3. (Plays(p)' <=> plays) /\ (IsSilent(p)' <=> silent)
      BY DEF Plays, IsSilent
    <3> HIDE DEF c, plays, silent
    <3>4. Elems(s) \cap Creators(p) # {} /\ Elems(s) \cap Removers(p) = {}
          /\ Elems(t) \cap Fades(p) = {} /\ Mutes(p) \in Elems(t)
      <4>1. UpsertPeer(p) \in Elems(s) /\ UpsertPeer(p) \in Creators(p)
        BY <1>1, <1>8 DEF Creators
      <4>2. Mutes(p) \in Elems(t)
        BY <1>1, <2>3 DEF Mutes
      <4>3. QED
        BY <1>3, <1>6, <4>1, <4>2
    <3>5. Outcome(c, plays, Creators(p), Removers(p))
      BY <1>2, <3>1, <3>4, OutcomeMore DEF c
    <3>6. Muting(c \o t, p, plays, silent)
      BY <3>1, <3>4, <3>5, MutingMore
    <3>7. Muting(chan, p, Plays(p), IsSilent(p))'
      BY <3>2, <3>3, <3>6 DEF Muting, Free, FreeAfter
    <3>8. QED
      BY <2>1, <2>2, <2>3, <3>7 DEF Each, Silenced, Lasting
  <2>4. CASE p \notin mute
    <3>1. Mutes(p) \notin Elems(u)
      BY <1>5, <2>4, MutesKind
    <3>2. MayBeMuted(p)' => MayBeMuted(p)
      BY <1>2, <1>3, <3>1, Sent
    <3>3. QED
      BY <2>1, <2>2, <2>4, <3>2 DEF Each, Silenced, Lasting
  <2>5. QED
    BY <2>3, <2>4
<1>9. QED
  BY <1>7, <1>8

\* Without a room a peer is gone, or thinned, or not concerned.
LEMMA DropRoomStep ==
  ASSUME TypeOK, Queues, NEW ps \in SUBSET Peer, NEW r \in Room, DropRoom(ps, r),
         playing' = playing, Lost => Lost', NEW p \in Peer, Each(p)
  PROVE  Each(p)'
<1> DEFINE last  == {x \in ps : roomIds[x] \subseteq {r}}
           reset == joined' = {} /\ joined # {}
<1>1. PICK s \in Seq(Command) :
        /\ chan' = chan \o s
        /\ Elems(s) = {RemovePeer(x) : x \in last} \cup {RemovePeerFromRoom(x, r) : x \in ps \ last}
                      \cup (IF reset THEN {ResetIncoming} ELSE {})
  BY DropRoomSends
<1>2. chan \in Seq(Command) /\ roomIds \in [Peer -> SUBSET Room]
  BY DEF Queues, TypeOK
<1>3. /\ roomIds' = [x \in Peer |-> IF x \in ps THEN roomIds[x] \ {r} ELSE roomIds[x]]
      /\ asked' = asked \ (last \ Named)
      /\ thinned' = thinned \cup (IF reset THEN Peer ELSE ps \ last)
  BY DEF DropRoom, Delist
<1> HIDE DEF reset
<1>4. \A c \in Elems(s) :
        \/ c.kind \in {"RemovePeer", "RemovePeerFromRoom"} /\ c.peer \in ps
        \/ c.kind = "ResetIncoming" /\ reset
  BY <1>1, CommandKinds
<1>5. Mutes(p) \notin Elems(s)
  BY <1>4, CommandRoles
<1>6. CASE p \in last
  <2>1. ~Listed(p)'
    BY <1>2, <1>3, <1>6 DEF Listed
  <2>2. RemovePeer(p) \in Elems(s) /\ RemovePeer(p) \in Enders(p)
    BY <1>1, <1>6 DEF Enders
  <2>3. Elems(s) \cap Enders(p) # {}
    BY <2>2
  <2>4. QED
    BY <1>1, <1>2, <1>5, <2>1, <2>3, Excused
<1>7. CASE p \notin last /\ (reset \/ p \in ps)
  <2>1. p \in thinned' /\ (p \in asked => p \in asked')
    BY <1>3, <1>7
  <2>2. QED
    BY <1>1, <1>2, <1>5, <2>1, Excused
<1>8. CASE ~reset /\ p \notin ps
  <2>1. Elems(s) \cap Fades(p) = {}
    <3>1. ASSUME NEW c \in Elems(s) PROVE c \notin Fades(p)
      <4>1. c.kind \in {"RemovePeer", "RemovePeerFromRoom"} /\ c.peer # p
        BY <1>4, <1>8
      <4>2. QED
        BY <4>1, CommandRoles
    <3>2. QED
      BY <3>1
  <2>2. (Listed(p)' => Listed(p)) /\ (p \in thinned => p \in thinned') /\ (p \in asked' <=> p \in asked)
    BY <1>3, <1>8 DEF Listed
  <2>3. QED
    BY <1>1, <1>2, <1>5, <2>1, <2>2, Unconcerned
<1>9. QED
  BY <1>6, <1>7, <1>8

LEMMA MuteStep ==
  ASSUME TypeOK, Queues, NEW x \in Peer, NEW b \in BOOLEAN, Mute(x, b), NEW p \in Peer, Each(p)
  PROVE  Each(p)'
<1> DEFINE c == SetPeerMuted(x, b)
           s == <<c>>
<1>1. chan \in Seq(Command) /\ c \in Command
  BY CommandTypes DEF Queues
<1>2. /\ chan' = Append(chan, c) /\ UNCHANGED <<evs, roomIds, thinned, playing>>
      /\ asked' = IF b THEN asked \cup {x} ELSE asked \ {x}
  BY DEF Mute
<1>3. c.kind = "SetPeerMuted" /\ c.peer = x /\ (c.muted <=> b)
  BY DEF SetPeerMuted
<1> HIDE DEF c
<1>4. chan' = chan \o s /\ s \in Seq(Command) /\ Elems(s) = {c}
  BY <1>1, <1>2, Appending
<1> HIDE DEF s
<1>5. Elems(s) \cap Removers(p) = {}
  BY <1>3, <1>4, CommandRoles
<1>6. (Listed(p)' <=> Listed(p)) /\ (Lost' <=> Lost) /\ playing' = playing
  BY <1>2 DEF Listed, Lost
<1>7. CASE x # p
  <2>1. Elems(s) \cap Fades(p) = {} /\ Mutes(p) \notin Elems(s)
    <3>1. c \notin Fades(p) /\ c # Mutes(p)
      BY <1>3, <1>7, CommandRoles
    <3>2. QED
      BY <1>4, <3>1
  <2>2. (p \in asked' <=> p \in asked) /\ thinned' = thinned
    BY <1>2, <1>7
  <2>3. QED
    BY <1>1, <1>4, <1>6, <2>1, <2>2, Unconcerned
<1>8. CASE x = p /\ b = TRUE
  <2>1. c = Mutes(p)
    BY <1>8 DEF c, Mutes
  <2>2. Elems(s) \cap Fades(p) = {} /\ Mutes(p) \in Elems(s)
    <3>1. c \notin Fades(p)
      BY <1>3, <1>8, CommandRoles
    <3>2. QED
      BY <1>4, <2>1, <3>1
  <2>3. (WillPlay(p) => WillPlay(p)') /\ (WillPlay(p) => Muting(chan, p, Plays(p), IsSilent(p))')
    BY <1>1, <1>4, <1>5, <1>6, <2>2, Sent
  <2>4. p \in asked' /\ thinned' = thinned
    BY <1>2, <1>8
  <2>5. QED
    BY <1>6, <2>3, <2>4 DEF Each, Silenced, Lasting
<1>9. CASE x = p /\ b = FALSE
  <2>1. c = Unmutes(p) /\ c # Mutes(p)
    BY <1>9 DEF c, Mutes, Unmutes, SetPeerMuted
  <2>2. Elems(s) \cap Enders(p) # {} /\ Mutes(p) \notin Elems(s)
    BY <1>4, <2>1 DEF Enders
  <2>3. (WillPlay(p) => WillPlay(p)') /\ ~MayBeMuted(p)'
    BY <1>1, <1>4, <1>5, <1>6, <2>2, Sent
  <2>4. p \notin asked' /\ thinned' = thinned
    BY <1>2, <1>9
  <2>5. QED
    BY <1>6, <2>3, <2>4 DEF Each, Silenced, Lasting
<1>10. QED
  BY <1>7, <1>8, <1>9

LEMMA RestartStep ==
  ASSUME NEW ok \in BOOLEAN, Restart(ok), NEW p \in Peer
  PROVE  Each(p)'
<1>1. chan' = <<>> /\ playing'[p] = None /\ roomIds'[p] = {}
  BY DEF Restart, Shutdown
<1>2. ~MayBeMuted(p)' /\ ~Listed(p)'
  BY <1>1 DEF MayBeMuted, IsSilent, Outcome, Listed
<1>3. QED
  BY <1>2 DEF Each, Silenced, Lasting
-----------------------------------------------------------------------------
LEMMA InitIInv == Init => IInv
<1> SUFFICES ASSUME Init PROVE IInv
  OBVIOUS
<1>1. TypeOK
  <2>1. steps \in 0..MaxSteps /\ loads \in 0..MaxLoads
    BY BoundAssumption DEF Init
  <2>2. /\ at \in [Peer -> SUBSET Room] /\ roomIds \in [Peer -> SUBSET Room]
        /\ playing \in [Peer -> Playback \cup {None}]
    BY DEF Init
  <2>3. QED
    BY <2>1, <2>2 DEF Init, TypeOK
<1>2. Queues
  BY DEF Init, Queues
<1>3. Wishes
  BY DEF Init, Wishes
<1>4. ASSUME NEW p \in Peer PROVE Each(p)
  BY DEF Init, Each, Silenced, Lasting, MayBeMuted, IsSilent, Outcome, Listed
<1>5. QED
  BY <1>1, <1>2, <1>3, <1>4 DEF IInv

LEMMA TypeStep ==
  ASSUME TypeOK, Queues, [Next]_vars
  PROVE  TypeOK' /\ Queues'
<1>1. CASE UNCHANGED vars
  BY <1>1 DEF TypeOK, Queues, vars, bounds, remote, wire, manager, mutes
<1>2. QED
  BY <1>1, ServerTypes, NetworkTypes, ManagerTypes, PlayerTypes, PlayTypes DEF Next

LEMMA EachStep ==
  ASSUME TypeOK, Queues, Wishes, [Next]_vars, NEW p \in Peer, Each(p)
  PROVE  Each(p)'
<1> USE DEF manager
<1>1. CASE \/ \E x \in Peer, r \in Room : PeerEnters(x, r) \/ PeerLeaves(x, r)
                \/ PeerSends("PeerAudio", x, r) \/ PeerSends("PeerPosition", x, r)
           \/ \E r \in Room : Join(r)
           \/ UNCHANGED vars
  <2>1. UNCHANGED <<chan, playing, roomIds, thinned, asked, evs>>
    BY <1>1 DEF PeerEnters, PeerLeaves, PeerSends, Join, vars
  <2>2. QED
    BY <2>1, IdleStep DEF Lost
<1>2. CASE OnConnected
  <2>1. UNCHANGED <<chan, playing, roomIds, thinned, asked>> /\ (Lost => Lost')
    BY <1>2, EventTypes DEF OnConnected
  <2>2. QED
    BY <2>1, IdleStep
<1>3. CASE OnRoomJoined
  <2>1. Head(evs).peers \in SUBSET Peer /\ Head(evs).room \in Room /\ (Lost => Lost')
    BY <1>3, EventTypes DEF OnRoomJoined
  <2>2. AddTo(Head(evs).peers, Head(evs).room) /\ UNCHANGED <<asked, playing>>
    BY <1>3 DEF OnRoomJoined
  <2>3. QED
    BY <2>1, <2>2, AddToStep
<1>4. CASE OnPeerJoined
  <2>1. {Head(evs).peer} \in SUBSET Peer /\ Head(evs).room \in Room /\ (Lost => Lost')
    BY <1>4, EventTypes DEF OnPeerJoined
  <2>2. AddTo({Head(evs).peer}, Head(evs).room) /\ UNCHANGED <<asked, playing>>
    BY <1>4 DEF OnPeerJoined
  <2>3. QED
    BY <2>1, <2>2, AddToStep
<1>5. CASE OnPeerLeft
  <2> DEFINE ps == {x \in {Head(evs).peer} : Listed(x)}
  <2>1. ps \in SUBSET Peer /\ Head(evs).room \in Room /\ (Lost => Lost')
    BY <1>5, EventTypes DEF OnPeerLeft
  <2>2. DropRoom(ps, Head(evs).room) /\ playing' = playing
    BY <1>5 DEF OnPeerLeft
  <2> HIDE DEF ps
  <2>3. QED
    BY <2>1, <2>2, DropRoomStep
<1>6. ASSUME NEW r \in Room, Leave(r) PROVE Each(p)'
  <2> DEFINE ps == {x \in Peer : r \in roomIds[x]}
  <2>1. DropRoom(ps, r) /\ playing' = playing /\ evs' = evs
    BY <1>6 DEF Leave
  <2>2. ps \in SUBSET Peer
    OBVIOUS
  <2> HIDE DEF ps
  <2>3. QED
    BY <2>1, <2>2, DropRoomStep DEF Lost
<1>7. QED
  BY <1>1, <1>2, <1>3, <1>4, <1>5, <1>6, ReceiveStep, LinkStep, PositionStep, MuteStep,
    RestartStep, PlayStep DEF Next

LEMMA StepIInv == IInv /\ [Next]_vars => IInv'
<1> SUFFICES ASSUME IInv, [Next]_vars PROVE IInv'
  OBVIOUS
<1>1. TypeOK' /\ Queues'
  BY TypeStep DEF IInv
<1>2. Wishes'
  BY WishesStep DEF IInv
<1>3. \A p \in Peer : Each(p)'
  BY EachStep DEF IInv
<1>4. QED
  BY <1>1, <1>2, <1>3 DEF IInv
-----------------------------------------------------------------------------
(* The theorems *)

\* What the commands under way are going to make of a peer agrees with what the
\* player wants, at every moment and for queues of any length (add_peer_to_room,
\* mute_peer, handle_command).
THEOREM Invariance == Spec => []IInv
<1>1. QED
  BY InitIInv, StepIInv, PTL DEF Spec

\* The manager's lists, the file of mutes and the engine's peers have their types.
THEOREM TypeCorrect == Spec => []TypeOK
<1>1. IInv => TypeOK
  BY DEF IInv
<1>2. QED
  BY <1>1, Invariance, PTL

\* For any number of peers, rooms, steps and restarts: at rest whom the player sees
\* muted is whom the player wants muted, nobody else is silenced, and who has been in
\* the same rooms as the player since they met is silent (mute_peer,
\* save_muted_accounts, add_peer_to_room, handle_command).
THEOREM MutesHold == Spec => []MuteHolds
<1>1. IInv => MuteHolds
  <2> SUFFICES ASSUME IInv, AtRest, NEW p \in Peer, Listed(p)
               PROVE  /\ p \in muted <=> p \in asked
                      /\ playing[p] # None =>
                           /\ playing[p].muted => p \in asked
                           /\ p \in asked /\ p \notin thinned => playing[p].muted
    BY DEF MuteHolds
  <2>1. chan = <<>> /\ ~Lost
    BY DEF AtRest, Lost
  <2>2. MayBeMuted(p) <=> IsSilent(p)
    BY <2>1 DEF MayBeMuted, Outcome, Free
  <2>3. Muting(chan, p, Plays(p), IsSilent(p)) => IsSilent(p)
    BY <2>1 DEF Muting
  <2>4. p \in muted <=> p \in asked
    BY DEF IInv, Wishes
  <2>5. playing[p] # None /\ playing[p].muted => p \in asked
    BY <2>2 DEF IInv, Each, Silenced, IsSilent
  <2>6. p \in asked /\ p \notin thinned => playing[p].muted
    BY <2>1, <2>3 DEF IInv, Each, Lasting, IsSilent
  <2>7. QED
    BY <2>4, <2>5, <2>6
<1>2. QED
  BY <1>1, Invariance, PTL
=============================================================================
