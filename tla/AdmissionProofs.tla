-------------------------- MODULE AdmissionProofs --------------------------
(***************************************************************************)
(* Proofs about Admission for any number of sessions, keys and worlds and  *)
(* any lifetimes and timeouts.  IInv carries the age of an answer from the *)
(* request to the entry and from the entry to the session that goes by it. *)
(***************************************************************************)
EXTENDS Admission, TLAPS

\* The histories: what holds now was last so now.
Truth ==
  /\ \A k \in Key : answered[k][api[k]] = now
  /\ \A w \in World : match[w] # None => fought[w][match[w]] = now
  /\ \A k \in Key, a \in Answer : answered[k][a] <= now
  /\ \A w \in World, t \in Team : fought[w][t] <= now

\* An entry is no more than a timeout younger than what it says.
Entries ==
  /\ \A k \in Key : accounts[k] # None =>
       LET e == accounts[k]
       IN  /\ e.at <= now /\ answered[k][e.answer] >= 0
           /\ e.at - answered[k][e.answer] <= AccountTimeout
  /\ \A w \in World : matches[w] # None =>
       LET e == matches[w]
       IN  /\ e.at <= now /\ fought[w][e.team] >= 0
           /\ e.at - fought[w][e.team] <= MatchTimeout

\* An answer to the session's key that is at most n ticks old.
AnswerWithin(s, n) ==
  LET t == answered[request[s].key][got[s]]
  IN  t >= 0 /\ now - t < n

TeamWithin(s, t, n) ==
  LET b == fought[got[s].world][t]
  IN  b >= 0 /\ now - b < n

AccountAge == AccountTtl + AccountTimeout

\* What a session at each place of its handler can rely on.
OnAccount(s) ==
  pc[s] \in {"account", "accountAnswer"} =>
    /\ request[s].key \in Key /\ request[s] \in Request
    /\ since[s] <= now /\ now - since[s] <= AccountTimeout
    /\ pc[s] = "accountAnswer" => answered[request[s].key][got[s]] >= since[s]

OnBind(s) ==
  pc[s] = "bind" =>
    /\ request[s] \in Request
    /\ request[s].key # None => AnswerWithin(s, AccountAge)
    /\ request[s].key = None => got[s] = None

OnCheck(s) ==
  pc[s] \in {"check", "team", "teamAnswer", "join"} =>
    /\ request[s] \in Request /\ request[s].type = "join"
    /\ request[s].key \in Key /\ got[s] \in Identity
    /\ pc[s] = "check" => AnswerWithin(s, AccountAge)
    /\ AnswerWithin(s, AccountAge + MatchTimeout)

OnTeam(s) ==
  pc[s] \in {"team", "teamAnswer"} =>
    /\ Claim[request[s].room].kind = "wvw"
    /\ ClaimHolds(Claim[request[s].room], got[s])
    /\ since[s] <= now /\ now - since[s] <= MatchTimeout
    /\ since[s] - answered[request[s].key][got[s]] < AccountAge
    /\ pc[s] = "teamAnswer" =>
         side[s] \in Team /\ fought[got[s].world][side[s]] >= since[s]

OnJoin(s) ==
  pc[s] = "join" /\ Claim[request[s].room].kind = "wvw" =>
    LET c == Claim[request[s].room]
    IN  /\ ClaimHolds(c, got[s])
        /\ TeamWithin(s, c.team, MatchTtl + MatchTimeout)

Call(s) == OnAccount(s) /\ OnBind(s) /\ OnCheck(s) /\ OnTeam(s) /\ OnJoin(s)
Calls == \A s \in Session : Call(s)

IInv == TypeOK /\ Truth /\ Entries /\ Calls
-----------------------------------------------------------------------------
LEMMA Bounds ==
  /\ AccountTtl \in Nat \ {0} /\ MatchTtl \in Nat \ {0}
  /\ AccountTimeout \in Nat /\ MatchTimeout \in Nat
  /\ AccountAge \in Nat \ {0} /\ MaxTime \in Nat /\ MaxChanges \in Nat
BY AdmissionAssumption DEF AccountAge

LEMMA Locals ==
  ASSUME TypeOK, NEW s \in Session
  PROVE  /\ pc[s] \in Places /\ request[s] \in Request \cup {Idle}
         /\ got[s] \in Answer /\ side[s] \in Team \cup {None}
         /\ since[s] \in Nat /\ now \in Nat
         /\ \A k \in Key, a \in Answer : answered[k][a] \in Int
         /\ \A w \in World, t \in Team : fought[w][t] \in Int
BY Bounds DEF TypeOK

LEMMA InitIInv == Init => IInv
<1> SUFFICES ASSUME Init PROVE IInv
  OBVIOUS
<1>1. TypeOK
  <2>1. /\ answered \in [Key -> [Answer -> -1..MaxTime]]
        /\ fought \in [World -> [Team -> -1..MaxTime]]
    <3>1. -1 \in -1..MaxTime /\ 0 \in -1..MaxTime /\ 0 \in 0..MaxTime
      BY Bounds
    <3>2. QED
      BY <3>1 DEF Init
  <2>2. QED
    BY <2>1, Bounds DEF Init, TypeOK, Places, Answer
<1>2. Truth
  BY DEF Init, Truth, Answer
<1>3. Entries /\ Calls
  BY DEF Init, Entries, Calls, Call, OnAccount, OnBind, OnCheck, OnTeam, OnJoin
<1>4. QED
  BY <1>1, <1>2, <1>3 DEF IInv
-----------------------------------------------------------------------------
\* The three ways out of CheckRoom.
LEMMA CheckedSomehow ==
  ASSUME NEW s \in Session, CheckRoom(s),
         Claim[request[s].room].kind \in {"open", "pvp", "wvw"}
  PROVE  \/ Finish(s)
         \/ GoTo(s, "join") /\ UNCHANGED <<request, got, side, since>>
         \/ /\ GoTo(s, "team") /\ since' = [since EXCEPT ![s] = now]
            /\ UNCHANGED <<request, got, side>>
BY DEF CheckRoom

LEMMA ClaimKinds ==
  ASSUME NEW r \in Room
  PROVE  Claim[r].kind \in {"open", "pvp", "wvw"}
<1>1. Claim[r] \in Claims
  BY AdmissionAssumption
<1>2. QED
  BY <1>1 DEF Claims

\* A WvW claim that holds is of the account's own world; its team is one of the
\* known ones or none.
LEMMA HeldClaim ==
  ASSUME NEW r \in Room, NEW id \in Identity, Claim[r].kind = "wvw",
         ClaimHolds(Claim[r], id)
  PROVE  Claim[r].team \in Team /\ Claim[r].world = id.world
<1>1. Claim[r] \in Claims
  BY AdmissionAssumption
<1>2. QED
  BY <1>1 DEF Claims, ClaimHolds

\* Type correctness.
LEMMA TypeStep == TypeOK /\ Calls /\ [Next]_vars => TypeOK'
<1> SUFFICES ASSUME TypeOK, Calls, [Next]_vars PROVE TypeOK'
  OBVIOUS
<1> USE Bounds DEF TypeOK
<1>0. /\ None \in Answer /\ Identity \subseteq Answer
      /\ now \in -1..MaxTime /\ now \in 0..MaxTime /\ 0 \in 0..MaxTime
  BY DEF Answer
<1>1. ASSUME NEW s \in Session, NEW p \in Places, GoTo(s, p)
      PROVE  pc' \in [Session -> Places]
  BY <1>1 DEF GoTo
<1>2. ASSUME NEW s \in Session, Finish(s)
      PROVE  /\ pc' \in [Session -> Places]
             /\ request' \in [Session -> Request \cup {Idle}]
             /\ got' \in [Session -> Answer]
             /\ side' \in [Session -> Team \cup {None}]
             /\ since' \in [Session -> 0..MaxTime]
  BY <1>0, <1>2 DEF Finish, GoTo, Places
<1>3. CASE Tick
  <2>1. now + 1 \in 0..MaxTime /\ now + 1 \in -1..MaxTime
    BY <1>3 DEF Tick
  <2>2. /\ answered' \in [Key -> [Answer -> -1..MaxTime]]
        /\ fought' \in [World -> [Team -> -1..MaxTime]]
    BY <1>3, <2>1 DEF Tick
  <2>3. QED
    BY <1>3, <2>1, <2>2 DEF Tick, worldVars, cacheVars, sessionVars, peerVars
<1>4. ASSUME NEW k \in Key, NEW a \in Answer, KeyChanges(k, a) PROVE TypeOK'
  <2>1. answered' \in [Key -> [Answer -> -1..MaxTime]]
    BY <1>0, <1>4 DEF KeyChanges
  <2>2. QED
    BY <1>4, <2>1 DEF KeyChanges, cacheVars, sessionVars, peerVars
<1>5. ASSUME NEW w \in World, NEW t \in Team \cup {None}, MatchChanges(w, t)
      PROVE  TypeOK'
  <2>1. fought' \in [World -> [Team -> -1..MaxTime]]
    BY <1>0, <1>5 DEF MatchChanges
  <2>2. QED
    BY <1>5, <2>1 DEF MatchChanges, cacheVars, sessionVars, peerVars
<1>6. ASSUME NEW s \in Session, NEW req \in Request, Receive(s, req)
      PROVE  TypeOK'
  <2>1. pc' \in [Session -> Places]
    BY <1>6 DEF Receive, GoTo, Places
  <2>2. got' \in [Session -> Answer]
    <3>1. req.key \in Key \cup {None}
      BY DEF Request
    <3>2. req.key # None /\ FreshAccount(req.key)
            => accounts[req.key].answer \in Answer
      BY <3>1 DEF FreshAccount
    <3>3. QED
      BY <1>0, <1>6, <3>2 DEF Receive
  <2>3. since' \in [Session -> 0..MaxTime]
    BY <1>6 DEF Receive
  <2>4. QED
    BY <1>6, <2>1, <2>2, <2>3 DEF Receive, worldVars, history, cacheVars, peerVars
<1>7. ASSUME NEW s \in Session, Handle(s) PROVE TypeOK'
  <2>1. Call(s)
    BY DEF Calls
  <2>2. CASE AccountAnswered(s)
    <3>1. api[request[s].key] \in Answer
      BY <2>1, <2>2 DEF AccountAnswered, Call, OnAccount
    <3>2. pc' \in [Session -> Places]
      BY <2>2, <1>1 DEF AccountAnswered, Places
    <3>3. QED
      BY <2>2, <3>1, <3>2 DEF AccountAnswered, worldVars, history, cacheVars, peerVars
  <2>3. CASE AccountFailed(s)
    <3>1. answered' \in [Key -> [Answer -> -1..MaxTime]]
      BY <1>0, <2>3 DEF AccountFailed
    <3>2. pc' \in [Session -> Places]
      BY <2>3, <1>1 DEF AccountFailed, Places
    <3>3. QED
      BY <1>0, <2>3, <3>1, <3>2 DEF AccountFailed, worldVars, cacheVars, peerVars
  <2>4. CASE AccountStored(s)
    <3>1. accounts' \in [Key -> [answer : Answer, at : 0..MaxTime] \cup {None}]
      BY <2>4 DEF AccountStored
    <3>2. pc' \in [Session -> Places]
      BY <2>4, <1>1 DEF AccountStored, Places
    <3>3. QED
      BY <1>0, <2>4, <3>1, <3>2 DEF AccountStored, worldVars, history, peerVars
  <2>5. CASE BindJoin(s)
    <3>1. got[s] # None => got[s].name \in Account
      BY DEF Answer, Identity
    <3>2. CASE Finish(s) /\ UNCHANGED bound
      BY <1>2, <2>5, <3>2 DEF BindJoin, worldVars, history, cacheVars
    <3>3. CASE ~(Finish(s) /\ UNCHANGED bound)
      <4>1. /\ bound' = [bound EXCEPT ![s] = got[s].name] /\ got[s] # None
            /\ GoTo(s, "check") /\ UNCHANGED <<request, got, side, since>>
        BY <2>5, <3>3 DEF BindJoin
      <4>2. pc' \in [Session -> Places]
        BY <4>1, <1>1 DEF Places
      <4>3. QED
        BY <2>5, <3>1, <4>1, <4>2 DEF BindJoin, worldVars, history, cacheVars
    <3>4. QED
      BY <3>2, <3>3
  <2>6. CASE BindValidate(s)
    <3>1. (IF got[s] = None THEN None ELSE got[s].name) \in Account \cup {None}
      BY DEF Answer, Identity
    <3>2. bound' \in [Session -> Account \cup {None}]
      BY <2>6, <3>1 DEF BindValidate
    <3>3. QED
      BY <1>2, <2>6, <3>2 DEF BindValidate, worldVars, history, cacheVars
  <2>7. CASE CheckRoom(s)
    <3>1. CASE Finish(s)
      BY <1>2, <2>7, <3>1 DEF CheckRoom, worldVars, history, cacheVars, peerVars
    <3>2. CASE GoTo(s, "join") /\ UNCHANGED <<request, got, side, since>>
      <4>1. pc' \in [Session -> Places]
        BY <3>2, <1>1 DEF Places
      <4>2. QED
        BY <2>7, <3>2, <4>1 DEF CheckRoom, worldVars, history, cacheVars, peerVars
    <3>3. CASE /\ GoTo(s, "team") /\ since' = [since EXCEPT ![s] = now]
               /\ UNCHANGED <<request, got, side>>
      <4>1. pc' \in [Session -> Places]
        BY <3>3, <1>1 DEF Places
      <4>2. QED
        BY <1>0, <2>7, <3>3, <4>1 DEF CheckRoom, worldVars, history, cacheVars, peerVars
    <3>4. QED
      <4>1. request[s].room \in Room
        BY <2>1, <2>7 DEF CheckRoom, Call, OnCheck, Request
      <4>2. QED
        BY <2>7, <3>1, <3>2, <3>3, <4>1, ClaimKinds, CheckedSomehow
  <2>8. CASE TeamAnswered(s)
    <3>1. match[got[s].world] \in Team
      BY <2>1, <2>8 DEF TeamAnswered, Call, OnCheck, Identity
    <3>2. pc' \in [Session -> Places]
      BY <2>8, <1>1 DEF TeamAnswered, Places
    <3>3. QED
      BY <2>8, <3>1, <3>2 DEF TeamAnswered, worldVars, history, cacheVars, peerVars
  <2>9. CASE TeamUnknown(s)
    BY <1>2, <2>9 DEF TeamUnknown, worldVars, history, cacheVars, peerVars
  <2>10. CASE TeamStored(s)
    <3>1. matches' \in [World -> [team : Team, at : 0..MaxTime] \cup {None}]
      BY <2>1, <2>10 DEF TeamStored, Call, OnTeam
    <3>2. CASE Finish(s)
      BY <1>2, <2>10, <3>1, <3>2 DEF TeamStored, worldVars, history, peerVars
    <3>3. CASE ~Finish(s)
      <4>1. /\ GoTo(s, "join") /\ since' = [since EXCEPT ![s] = 0]
            /\ UNCHANGED <<request, got, side>>
        BY <2>10, <3>3 DEF TeamStored
      <4>2. pc' \in [Session -> Places]
        BY <4>1, <1>1 DEF Places
      <4>3. QED
        BY <1>0, <2>10, <3>1, <4>1, <4>2 DEF TeamStored, worldVars, history, peerVars
    <3>4. QED
      BY <3>2, <3>3
  <2>11. CASE Join(s)
    <3>1. request[s].room \in Room
      BY <2>1, <2>11 DEF Join, Call, OnCheck, Request
    <3>2. rooms' \in [Session -> SUBSET Room]
      BY <2>11, <3>1 DEF Join
    <3>3. QED
      BY <1>2, <2>11, <3>2 DEF Join, worldVars, history, cacheVars
  <2>12. QED
    BY <1>7, <2>2, <2>3, <2>4, <2>5, <2>6, <2>7, <2>8, <2>9, <2>10, <2>11 DEF Handle
<1>8. ASSUME NEW s \in Session, NEW left, Leave(s, left) PROVE TypeOK'
  BY <1>8 DEF Leave, worldVars, history, cacheVars, sessionVars
<1>9. ASSUME NEW s \in Session, Close(s) PROVE TypeOK'
  BY <1>9 DEF Close, worldVars, history, cacheVars, sessionVars
<1>10. CASE UNCHANGED vars
  BY <1>10 DEF vars, worldVars, history, cacheVars, sessionVars, peerVars
<1>11. QED
  BY <1>3, <1>4, <1>5, <1>6, <1>7, <1>8, <1>9, <1>10 DEF Next
-----------------------------------------------------------------------------
\* Every step but Tick leaves the clock; an instant in a history stays or
\* becomes now.
Newer ==
  /\ now' = now
  /\ \A k \in Key, a \in Answer : answered'[k][a] \in {answered[k][a], now}
  /\ \A w \in World, t \in Team : fought'[w][t] \in {fought[w][t], now}

LEMMA StepIsNewer ==
  ASSUME TypeOK, Calls, Next, ~Tick
  PROVE  Newer
<1> USE DEF TypeOK
<1>1. ASSUME NEW k \in Key, NEW a \in Answer, KeyChanges(k, a) PROVE Newer
  BY <1>1 DEF KeyChanges, Newer
<1>2. ASSUME NEW w \in World, NEW t \in Team \cup {None}, MatchChanges(w, t)
      PROVE  Newer
  BY <1>2 DEF MatchChanges, Newer
<1>3. ASSUME NEW s \in Session, AccountFailed(s) PROVE Newer
  BY <1>3 DEF AccountFailed, Newer
<1>4. ASSUME NEW s \in Session, Handle(s), ~AccountFailed(s) PROVE Newer
  BY <1>4 DEF Handle, AccountAnswered, AccountStored, BindJoin, BindValidate,
       CheckRoom, TeamAnswered, TeamUnknown, TeamStored, Join, history, Newer
<1>5. ASSUME NEW s \in Session, NEW req \in Request, Receive(s, req) PROVE Newer
  BY <1>5 DEF Receive, history, Newer
<1>6. ASSUME NEW s \in Session, NEW left, Leave(s, left) PROVE Newer
  BY <1>6 DEF Leave, history, Newer
<1>7. ASSUME NEW s \in Session, Close(s) PROVE Newer
  BY <1>7 DEF Close, history, Newer
<1>8. QED
  BY <1>1, <1>2, <1>3, <1>4, <1>5, <1>6, <1>7 DEF Next

LEMMA TruthStep ==
  ASSUME TypeOK, Calls, Truth, [Next]_vars
  PROVE  Truth'
<1> USE DEF TypeOK
<1>1. CASE Tick
  <2>0. now \in Int /\ api' = api /\ match' = match /\ now' = now + 1
    BY <1>1 DEF Tick, worldVars
  <2>1. ASSUME NEW k \in Key, NEW a \in Answer
        PROVE  answered'[k][a] = IF a = api[k] THEN now + 1 ELSE answered[k][a]
    BY <1>1 DEF Tick
  <2>2. ASSUME NEW w \in World, NEW t \in Team
        PROVE  fought'[w][t] = IF match[w] = t THEN now + 1 ELSE fought[w][t]
    BY <1>1 DEF Tick
  <2>3. \A k \in Key : api[k] \in Answer
    OBVIOUS
  <2>4. \A w \in World : match[w] # None => match[w] \in Team
    OBVIOUS
  <2>5. /\ \A k \in Key, a \in Answer : answered[k][a] \in Int
        /\ \A w \in World, t \in Team : fought[w][t] \in Int
    OBVIOUS
  <2> HIDE DEF TypeOK
  <2>6. /\ \A k \in Key : answered'[k][api'[k]] = now'
        /\ \A w \in World : match'[w] # None => fought'[w][match'[w]] = now'
    BY <2>0, <2>1, <2>2, <2>3, <2>4
  <2>7. /\ \A k \in Key, a \in Answer : answered'[k][a] <= now'
        /\ \A w \in World, t \in Team : fought'[w][t] <= now'
    BY <2>0, <2>1, <2>2, <2>5 DEF Truth
  <2>8. QED
    BY <2>6, <2>7 DEF Truth
<1>2. CASE Next /\ ~Tick
  <2>1. Newer
    BY <1>2, StepIsNewer
  <2>2. /\ \A k \in Key, a \in Answer : answered'[k][a] <= now'
        /\ \A w \in World, t \in Team : fought'[w][t] <= now'
    <3>1. now \in Int
      OBVIOUS
    <3> HIDE DEF TypeOK
    <3>2. QED
      BY <2>1, <3>1 DEF Newer, Truth
  <2>3. \A k \in Key : answered'[k][api'[k]] = now'
    <3>1. ASSUME NEW k \in Key, NEW a \in Answer, KeyChanges(k, a)
          PROVE  \A j \in Key : answered'[j][api'[j]] = now'
      BY <3>1 DEF KeyChanges, Truth
    <3>2. CASE UNCHANGED api
      BY <2>1, <3>2 DEF Newer, Truth
    <3>3. \/ UNCHANGED api
          \/ \E k \in Key, a \in Answer : KeyChanges(k, a)
      BY <1>2 DEF Next, MatchChanges, Handle, AccountAnswered, AccountFailed,
           AccountStored, BindJoin, BindValidate, CheckRoom, TeamAnswered,
           TeamUnknown, TeamStored, Join, Receive, Leave, Close, worldVars
    <3>4. QED
      BY <3>1, <3>2, <3>3
  <2>4. \A w \in World : match'[w] # None => fought'[w][match'[w]] = now'
    <3>1. ASSUME NEW w \in World, NEW t \in Team \cup {None}, MatchChanges(w, t)
          PROVE  \A v \in World : match'[v] # None => fought'[v][match'[v]] = now'
      BY <3>1 DEF MatchChanges, Truth
    <3>2. CASE UNCHANGED match
      BY <2>1, <3>2 DEF Newer, Truth
    <3>3. \/ UNCHANGED match
          \/ \E w \in World, t \in Team \cup {None} : MatchChanges(w, t)
      BY <1>2 DEF Next, KeyChanges, Handle, AccountAnswered, AccountFailed,
           AccountStored, BindJoin, BindValidate, CheckRoom, TeamAnswered,
           TeamUnknown, TeamStored, Join, Receive, Leave, Close, worldVars
    <3>4. QED
      BY <3>1, <3>2, <3>3
  <2>5. QED
    BY <2>2, <2>3, <2>4 DEF Truth
<1>3. CASE UNCHANGED vars
  BY <1>3 DEF vars, worldVars, history, Truth
<1>4. QED
  BY <1>1, <1>2, <1>3

LEMMA GrownEntries ==
  ASSUME TypeOK, Entries, UNCHANGED <<accounts, matches>>,
         now' \in Int, now' >= now,
         \A k \in Key, a \in Answer :
           answered'[k][a] \in Int /\ answered'[k][a] >= answered[k][a],
         \A w \in World, t \in Team :
           fought'[w][t] \in Int /\ fought'[w][t] >= fought[w][t]
  PROVE  Entries'
<1>1. ASSUME NEW k \in Key, accounts'[k] # None
      PROVE  LET e == accounts'[k]
             IN  /\ e.at <= now' /\ answered'[k][e.answer] >= 0
                 /\ e.at - answered'[k][e.answer] <= AccountTimeout
  <2> DEFINE e == accounts[k]
  <2>1. e \in [answer : Answer, at : 0..MaxTime] /\ accounts'[k] = e
    BY <1>1 DEF TypeOK
  <2>2. e.answer \in Answer /\ e.at \in Int /\ now \in Int
    BY <2>1 DEF TypeOK
  <2>3. /\ e.at <= now /\ answered[k][e.answer] >= 0
        /\ e.at - answered[k][e.answer] <= AccountTimeout
    BY <1>1, <2>1 DEF Entries
  <2>4. answered[k][e.answer] \in Int
    BY <2>2 DEF TypeOK
  <2>5. answered'[k][e.answer] \in Int /\ answered'[k][e.answer] >= answered[k][e.answer]
    BY <2>2
  <2> HIDE DEF e
  <2>6. QED
    BY <2>1, <2>2, <2>3, <2>4, <2>5, Bounds
<1>2. ASSUME NEW w \in World, matches'[w] # None
      PROVE  LET e == matches'[w]
             IN  /\ e.at <= now' /\ fought'[w][e.team] >= 0
                 /\ e.at - fought'[w][e.team] <= MatchTimeout
  <2> DEFINE e == matches[w]
  <2>1. e \in [team : Team, at : 0..MaxTime] /\ matches'[w] = e
    BY <1>2 DEF TypeOK
  <2>2. e.team \in Team /\ e.at \in Int /\ now \in Int
    BY <2>1 DEF TypeOK
  <2>3. /\ e.at <= now /\ fought[w][e.team] >= 0
        /\ e.at - fought[w][e.team] <= MatchTimeout
    BY <1>2, <2>1 DEF Entries
  <2>4. fought[w][e.team] \in Int
    BY <2>2 DEF TypeOK
  <2>5. fought'[w][e.team] \in Int /\ fought'[w][e.team] >= fought[w][e.team]
    BY <2>2
  <2> HIDE DEF e
  <2>6. QED
    BY <2>1, <2>2, <2>3, <2>4, <2>5, Bounds
<1>3. QED
  BY <1>1, <1>2 DEF Entries

\* An entry keeps its distance to what it says, and a new one is stored within
\* the timeout of its request.
LEMMA EntriesStep ==
  ASSUME TypeOK, Calls, Truth, Entries, [Next]_vars
  PROVE  Entries'
<1>0. TypeOK
  OBVIOUS
<1> USE DEF TypeOK
<1>1. CASE Tick
  <2>0. now \in Int /\ now' = now + 1 /\ UNCHANGED cacheVars
    BY <1>1 DEF Tick
  <2>1. ASSUME NEW k \in Key, NEW a \in Answer
        PROVE  /\ answered'[k][a] = IF a = api[k] THEN now + 1 ELSE answered[k][a]
               /\ answered[k][a] \in Int
    BY <1>1 DEF Tick
  <2>2. ASSUME NEW w \in World, NEW t \in Team
        PROVE  /\ fought'[w][t] = IF match[w] = t THEN now + 1 ELSE fought[w][t]
               /\ fought[w][t] \in Int
    BY <1>1 DEF Tick
  <2> HIDE DEF TypeOK
  <2>3. /\ \A k \in Key, a \in Answer :
             answered'[k][a] \in Int /\ answered'[k][a] >= answered[k][a]
        /\ \A w \in World, t \in Team :
             fought'[w][t] \in Int /\ fought'[w][t] >= fought[w][t]
    BY <2>0, <2>1, <2>2 DEF Truth
  <2>4. QED
    BY <2>0, <2>3, <1>0, GrownEntries DEF cacheVars
<1>2. CASE Next /\ ~Tick
  <2>1. Newer
    BY <1>2, StepIsNewer
  <2>2. CASE UNCHANGED cacheVars
    <3>1. /\ now \in Int /\ now' = now
          /\ \A k \in Key, a \in Answer : answered[k][a] \in Int
          /\ \A w \in World, t \in Team : fought[w][t] \in Int
      BY <2>1 DEF Newer
    <3> HIDE DEF TypeOK
    <3>2. /\ \A k \in Key, a \in Answer :
               answered'[k][a] \in Int /\ answered'[k][a] >= answered[k][a]
          /\ \A w \in World, t \in Team :
               fought'[w][t] \in Int /\ fought'[w][t] >= fought[w][t]
      BY <2>1, <3>1 DEF Newer, Truth
    <3>3. QED
      BY <2>2, <3>1, <3>2, <1>0, GrownEntries DEF cacheVars
  <2>3. ASSUME NEW s \in Session, AccountStored(s) PROVE Entries'
    <3>1. OnAccount(s) /\ pc[s] = "accountAnswer"
      BY <2>3 DEF Calls, Call, AccountStored
    <3> DEFINE k == request[s].key
    <3>2. /\ k \in Key /\ got[s] \in Answer /\ since[s] \in Nat /\ now \in Nat
          /\ answered[k][got[s]] >= since[s] /\ answered[k][got[s]] \in Int
          /\ now - since[s] <= AccountTimeout
      BY <3>1 DEF OnAccount
    <3>3. /\ accounts' = [accounts EXCEPT ![k] = [answer |-> got[s], at |-> now]]
          /\ UNCHANGED <<now, history, matches>>
      BY <2>3 DEF AccountStored
    <3>4. ASSUME NEW j \in Key, accounts'[j] # None
          PROVE  /\ accounts'[j].at <= now' /\ answered'[j][accounts'[j].answer] >= 0
                 /\ accounts'[j].at - answered'[j][accounts'[j].answer] <= AccountTimeout
      <4>1. CASE j = k
        BY <3>2, <3>3, <4>1, Bounds DEF history
      <4>2. CASE j # k
        BY <3>2, <3>3, <3>4, <4>2 DEF history, Entries
      <4>3. QED
        BY <4>1, <4>2
    <3>5. QED
      BY <3>3, <3>4 DEF Entries, history
  <2>4. ASSUME NEW s \in Session, TeamStored(s) PROVE Entries'
    <3>1. OnTeam(s) /\ OnCheck(s) /\ pc[s] = "teamAnswer"
      BY <2>4 DEF Calls, Call, TeamStored
    <3> DEFINE w == got[s].world
    <3>2. /\ w \in World /\ side[s] \in Team /\ since[s] \in Nat /\ now \in Nat
          /\ fought[w][side[s]] >= since[s] /\ fought[w][side[s]] \in Int
          /\ now - since[s] <= MatchTimeout
      BY <3>1 DEF OnTeam, OnCheck, Identity
    <3>3. /\ matches' = [matches EXCEPT ![w] = [team |-> side[s], at |-> now]]
          /\ UNCHANGED <<now, history, accounts>>
      BY <2>4 DEF TeamStored
    <3>4. ASSUME NEW v \in World, matches'[v] # None
          PROVE  /\ matches'[v].at <= now' /\ fought'[v][matches'[v].team] >= 0
                 /\ matches'[v].at - fought'[v][matches'[v].team] <= MatchTimeout
      <4>1. CASE v = w
        BY <3>2, <3>3, <4>1, Bounds DEF history
      <4>2. CASE v # w
        BY <3>2, <3>3, <3>4, <4>2 DEF history, Entries
      <4>3. QED
        BY <4>1, <4>2
    <3>5. QED
      BY <3>3, <3>4 DEF Entries, history
  <2>5. \/ UNCHANGED cacheVars
        \/ \E s \in Session : AccountStored(s) \/ TeamStored(s)
    BY <1>2 DEF Next, KeyChanges, MatchChanges, Handle, AccountAnswered,
         AccountFailed, BindJoin, BindValidate, CheckRoom, TeamAnswered,
         TeamUnknown, Join, Receive, Leave, Close
  <2>6. QED
    BY <2>2, <2>3, <2>4, <2>5
<1>3. CASE UNCHANGED vars
  BY <1>3 DEF vars, history, cacheVars, Entries
<1>4. QED
  BY <1>1, <1>2, <1>3
-----------------------------------------------------------------------------
\* A session whose handler has returned relies on nothing.
LEMMA IdleRelies ==
  ASSUME NEW s, pc'[s] = "idle"
  PROVE  Call(s)'
BY DEF Call, OnAccount, OnBind, OnCheck, OnTeam, OnJoin

Same(s) ==
  /\ pc'[s] = pc[s] /\ request'[s] = request[s] /\ got'[s] = got[s]
  /\ side'[s] = side[s] /\ since'[s] = since[s]

\* The steps of others only make answers newer.
LEMMA Frame ==
  ASSUME TypeOK, Truth, Newer, NEW s \in Session, Call(s), Same(s)
  PROVE  Call(s)'
<1> DEFINE k == request[s].key
           w == got[s].world
<1>1. /\ now \in Int /\ now' = now /\ since[s] \in Int
      /\ got[s] \in Answer
  BY Locals DEF Newer
<1>2. ASSUME k \in Key
      PROVE  /\ answered[k][got[s]] \in Int /\ answered'[k][got[s]] \in Int
             /\ answered'[k][got[s]] >= answered[k][got[s]]
  BY <1>1, <1>2, Locals DEF Newer, Truth
<1>3. ASSUME w \in World, NEW t \in Team
      PROVE  /\ fought[w][t] \in Int /\ fought'[w][t] \in Int
             /\ fought'[w][t] >= fought[w][t]
  BY <1>1, <1>3, Locals DEF Newer, Truth
<1>4. OnAccount(s)'
  BY <1>1, <1>2 DEF Call, OnAccount, Same
<1>5. OnBind(s)'
  <2>1. request[s] \in Request => k \in Key \cup {None}
    BY DEF Request
  <2>2. QED
    BY <1>1, <1>2, <2>1, Bounds DEF Call, OnBind, AnswerWithin, Same
<1>6. OnCheck(s)'
  BY <1>1, <1>2, Bounds DEF Call, OnCheck, AnswerWithin, Same
<1>7. pc[s] \in {"team", "teamAnswer", "join"} => k \in Key /\ w \in World
  BY DEF Call, OnCheck, Identity
<1>8. OnTeam(s)'
  BY <1>1, <1>2, <1>3, <1>7, Bounds DEF Call, OnTeam, Same
<1>9. OnJoin(s)'
  <2>1. SUFFICES ASSUME pc[s] = "join", Claim[request[s].room].kind = "wvw"
                 PROVE  /\ ClaimHolds(Claim[request[s].room], got[s])
                        /\ TeamWithin(s, Claim[request[s].room].team,
                                      MatchTtl + MatchTimeout)'
    BY DEF OnJoin, Same
  <2>2. Claim[request[s].room].team \in Team
    <3>1. request[s].room \in Room
      BY <2>1 DEF Call, OnCheck, Request
    <3>2. QED
      BY <2>1, <3>1, HeldClaim DEF Call, OnCheck, OnJoin
  <2>3. QED
    BY <1>1, <1>3, <1>7, <2>1, <2>2, Bounds DEF Call, OnJoin, TeamWithin, Same
<1>10. QED
  BY <1>4, <1>5, <1>6, <1>8, <1>9 DEF Call

\* Time passes only while a request may still be answered, which bounds the age
\* of what the session had asked before.
LEMMA TickCall ==
  ASSUME TypeOK, Truth, Tick, NEW s \in Session, Call(s)
  PROVE  Call(s)'
<1> DEFINE k == request[s].key
<1>1. /\ Same(s) /\ Patient(s)
      /\ now \in Int /\ now' = now + 1 /\ since[s] \in Int /\ got[s] \in Answer
  BY Locals DEF Tick, sessionVars, Same
<1>2. ASSUME k \in Key
      PROVE  /\ answered[k][got[s]] \in Int /\ answered'[k][got[s]] \in Int
             /\ answered'[k][got[s]] >= answered[k][got[s]]
  <2>1. answered'[k][got[s]]
          = IF got[s] = api[k] THEN now + 1 ELSE answered[k][got[s]]
    BY <1>1, <1>2 DEF Tick, TypeOK
  <2>2. QED
    BY <1>1, <1>2, <2>1, Locals DEF Truth
<1>3. CASE pc[s] = "idle"
  BY <1>1, <1>3, IdleRelies DEF Same
<1>4. CASE pc[s] \in {"account", "accountAnswer"} /\ now - since[s] < AccountTimeout
  <2>1. OnAccount(s)'
    BY <1>1, <1>2, <1>4, Bounds DEF Call, OnAccount, Same
  <2>2. QED
    BY <1>1, <1>4, <2>1 DEF Call, OnBind, OnCheck, OnTeam, OnJoin, Same
<1>5. CASE pc[s] \in {"team", "teamAnswer"} /\ now - since[s] < MatchTimeout
  <2> DEFINE w == got[s].world
  <2>1. ASSUME w \in World, side[s] \in Team
        PROVE  /\ fought[w][side[s]] \in Int /\ fought'[w][side[s]] \in Int
               /\ fought'[w][side[s]] >= fought[w][side[s]]
    <3>1. fought'[w][side[s]]
            = IF match[w] = side[s] THEN now + 1 ELSE fought[w][side[s]]
      BY <2>1 DEF Tick
    <3>2. QED
      BY <1>1, <2>1, <3>1, Locals DEF Truth
  <2>2. k \in Key /\ w \in World
    BY <1>5 DEF Call, OnCheck, Identity
  <2>3. OnTeam(s)'
    BY <1>1, <1>2, <1>5, <2>1, <2>2, Bounds DEF Call, OnTeam, Same
  <2>4. OnCheck(s)'
    BY <1>1, <1>2, <1>5, <2>2, Bounds DEF Call, OnCheck, OnTeam, AnswerWithin, Same
  <2>5. QED
    BY <1>1, <1>5, <2>3, <2>4 DEF Call, OnAccount, OnBind, OnJoin, Same
<1>6. QED
  BY <1>1, <1>3, <1>4, <1>5 DEF Patient

LEMMA ReceiveCall ==
  ASSUME TypeOK, Entries, NEW s \in Session, NEW req \in Request, Receive(s, req)
  PROVE  Call(s)'
<1> DEFINE k == req.key
<1>1. k \in Key \cup {None}
  BY DEF Request
<1>2. /\ request' = [request EXCEPT ![s] = req] /\ now' = now
      /\ answered' = answered /\ now \in Int
  BY Locals DEF Receive, history
<1>3. request'[s] = req
  BY <1>2 DEF TypeOK
<1>4. CASE k # None /\ ~FreshAccount(k)
  <2>1. pc'[s] = "account" /\ since'[s] = now
    BY <1>4 DEF Receive, GoTo, TypeOK
  <2>2. OnAccount(s)'
    BY <1>1, <1>2, <1>3, <1>4, <2>1, Bounds DEF OnAccount
  <2>3. QED
    BY <2>1, <2>2 DEF Call, OnBind, OnCheck, OnTeam, OnJoin
<1>5. CASE ~(k # None /\ ~FreshAccount(k))
  <2>1. /\ pc'[s] = "bind"
        /\ got'[s] = IF k = None THEN None ELSE accounts[k].answer
    BY <1>5 DEF Receive, GoTo, TypeOK
  <2>2. ASSUME k # None
        PROVE  AnswerWithin(s, AccountAge)'
    <3> DEFINE e == accounts[k]
    <3>1. /\ k \in Key /\ e # None /\ now - e.at < AccountTtl
      BY <1>1, <1>5, <2>2 DEF FreshAccount
    <3>2. /\ e.at \in Int /\ e.answer \in Answer
      BY <3>1 DEF TypeOK
    <3>3. /\ answered[k][e.answer] \in Int /\ answered[k][e.answer] >= 0
          /\ e.at - answered[k][e.answer] <= AccountTimeout
      BY <3>1, <3>2, Locals DEF Entries
    <3>4. request'[s].key = k /\ got'[s] = e.answer
      BY <1>3, <2>1, <2>2
    <3> HIDE DEF k, e
    <3>5. now - answered[k][e.answer] < AccountAge
      BY <1>2, <3>1, <3>2, <3>3, Bounds DEF AccountAge
    <3>6. QED
      BY <1>2, <3>3, <3>4, <3>5 DEF AnswerWithin
  <2>3. OnBind(s)'
    BY <1>3, <2>1, <2>2 DEF OnBind
  <2>4. QED
    BY <2>1, <2>3 DEF Call, OnAccount, OnCheck, OnTeam, OnJoin
<1>6. QED
  BY <1>4, <1>5

\* The look-up of an account up to its entry: what came back was so no earlier
\* than the request.
LEMMA AccountCall ==
  ASSUME TypeOK, Truth, NEW s \in Session, Call(s),
         AccountAnswered(s) \/ AccountFailed(s) \/ AccountStored(s)
  PROVE  Call(s)'
<1> DEFINE k == request[s].key
<1>0. /\ OnAccount(s) /\ pc[s] \in {"account", "accountAnswer"}
      /\ k \in Key /\ request[s] \in Request /\ since[s] \in Nat /\ now \in Nat
      /\ got[s] \in Answer /\ api[k] \in Answer /\ k # None
  BY Locals, AdmissionAssumption
  DEF Call, OnAccount, AccountAnswered, AccountFailed, AccountStored, TypeOK
<1>1. CASE AccountAnswered(s)
  <2>1. /\ pc'[s] = "accountAnswer" /\ got'[s] = api[k]
        /\ UNCHANGED <<now, history, request, since>>
    BY <1>1 DEF AccountAnswered, GoTo, TypeOK
  <2>2. answered[k][api[k]] = now
    BY <1>0 DEF Truth
  <2>3. OnAccount(s)'
    BY <1>0, <2>1, <2>2 DEF OnAccount, history
  <2>4. QED
    BY <2>1, <2>3 DEF Call, OnBind, OnCheck, OnTeam, OnJoin
<1>2. CASE AccountFailed(s)
  <2>1. /\ pc'[s] = "accountAnswer" /\ got'[s] = None
        /\ answered'[k][None] = now /\ UNCHANGED <<now, request, since>>
    BY <1>0, <1>2 DEF AccountFailed, GoTo, TypeOK, Answer
  <2>2. OnAccount(s)'
    BY <1>0, <2>1 DEF OnAccount
  <2>3. QED
    BY <2>1, <2>2 DEF Call, OnBind, OnCheck, OnTeam, OnJoin
<1>3. CASE AccountStored(s)
  <2>1. /\ pc[s] = "accountAnswer" /\ pc'[s] = "bind"
        /\ UNCHANGED <<now, history, request, got>>
    BY <1>3 DEF AccountStored, GoTo, TypeOK
  <2>2. answered[k][got[s]] \in Int
    BY <1>0, Locals
  <2>3. OnBind(s)'
    BY <1>0, <2>1, <2>2, Bounds DEF OnAccount, OnBind, AnswerWithin, AccountAge, history
  <2>4. QED
    BY <2>1, <2>3 DEF Call, OnAccount, OnCheck, OnTeam, OnJoin
<1>4. QED
  BY <1>1, <1>2, <1>3

\* The verdict on the answer, and what it takes along into the rooms' checks.
LEMMA BindCall ==
  ASSUME TypeOK, NEW s \in Session, Call(s), BindJoin(s) \/ BindValidate(s)
  PROVE  Call(s)'
<1>1. CASE Finish(s)
  BY <1>1, IdleRelies DEF Finish, GoTo, TypeOK
<1>2. CASE BindJoin(s) /\ ~Finish(s)
  <2>1. /\ OnBind(s) /\ pc[s] = "bind" /\ request[s].type = "join"
        /\ pc'[s] = "check" /\ got[s] # None
        /\ UNCHANGED <<now, history, request, got, side, since>>
    BY <1>2 DEF Call, BindJoin, GoTo, TypeOK
  <2>2. /\ request[s] \in Request /\ request[s].key \in Key /\ got[s] \in Identity
        /\ AnswerWithin(s, AccountAge)
    BY <2>1, Locals DEF OnBind, Request, Answer
  <2>3. answered[request[s].key][got[s]] \in Int /\ now \in Int
    BY <2>2, Locals DEF Answer
  <2>4. OnCheck(s)'
    BY <2>1, <2>2, <2>3, Bounds DEF OnCheck, AnswerWithin, history
  <2>5. QED
    BY <2>1, <2>4 DEF Call, OnAccount, OnBind, OnTeam, OnJoin
<1>3. QED
  BY <1>1, <1>2 DEF BindValidate

\* The rooms' checks up to the request for the team.
LEMMA CheckCall ==
  ASSUME TypeOK, Entries, NEW s \in Session, Call(s), CheckRoom(s)
  PROVE  Call(s)'
<1> DEFINE c == Claim[request[s].room]
           w == got[s].world
           k == request[s].key
<1>1. /\ OnCheck(s) /\ pc[s] = "check" /\ k \in Key /\ got[s] \in Identity
      /\ request[s] \in Request /\ request[s].room \in Room /\ w \in World
      /\ UNCHANGED <<now, history>>
  BY DEF Call, CheckRoom, OnCheck, Request, Identity
<1>2. answered[k][got[s]] \in Int /\ now \in Int
  BY <1>1, Locals DEF Answer
<1>3. AnswerWithin(s, AccountAge) /\ AnswerWithin(s, AccountAge + MatchTimeout)
  BY <1>1 DEF OnCheck
<1>4. CASE Finish(s)
  BY <1>4, IdleRelies DEF Finish, GoTo, TypeOK
<1>5. ASSUME GoTo(s, "join"), UNCHANGED <<request, got, side, since>>,
             c.kind = "wvw" => ClaimHolds(c, got[s]) /\ FreshMatch(w)
                                 /\ matches[w].team = c.team
      PROVE  Call(s)'
  <2>1. pc'[s] = "join"
    BY <1>5 DEF GoTo, TypeOK
  <2>2. OnCheck(s)'
    BY <1>1, <1>3, <1>5, <2>1 DEF OnCheck, AnswerWithin, history
  <2>3. ASSUME c.kind = "wvw"
        PROVE  TeamWithin(s, c.team, MatchTtl + MatchTimeout)
    <3> DEFINE e == matches[w]
    <3>1. e # None /\ now - e.at < MatchTtl /\ e.team = c.team
      BY <1>5, <2>3 DEF FreshMatch
    <3>2. e.at \in Int /\ e.team \in Team
      BY <1>1, <3>1 DEF TypeOK
    <3>3. /\ fought[w][e.team] \in Int /\ fought[w][e.team] >= 0
          /\ e.at - fought[w][e.team] <= MatchTimeout
      BY <1>1, <3>1, <3>2, Locals DEF Entries
    <3> HIDE DEF c, e
    <3>4. QED
      BY <1>2, <3>1, <3>2, <3>3, Bounds DEF TeamWithin
  <2>4. OnJoin(s)'
    BY <1>1, <1>5, <2>3 DEF OnJoin, TeamWithin, history
  <2>5. QED
    BY <2>1, <2>2, <2>4 DEF Call, OnAccount, OnBind, OnTeam
<1>6. ASSUME GoTo(s, "team"), since' = [since EXCEPT ![s] = now],
             UNCHANGED <<request, got, side>>,
             c.kind = "wvw", ClaimHolds(c, got[s])
      PROVE  Call(s)'
  <2>1. pc'[s] = "team" /\ since'[s] = now
    BY <1>6 DEF GoTo, TypeOK
  <2>2. OnCheck(s)'
    BY <1>1, <1>3, <1>6, <2>1 DEF OnCheck, AnswerWithin, history
  <2>3. OnTeam(s)'
    BY <1>1, <1>2, <1>3, <1>6, <2>1, Bounds DEF OnTeam, AnswerWithin, history
  <2>4. QED
    BY <2>1, <2>2, <2>3 DEF Call, OnAccount, OnBind, OnJoin
<1>7. c.kind \in {"open", "pvp", "wvw"}
  BY <1>1, ClaimKinds
<1>8. QED
  <2> HIDE DEF c, w
  <2>1. CASE ~ClaimHolds(c, got[s])
    BY <1>4, <2>1 DEF CheckRoom, c
  <2>2. CASE ClaimHolds(c, got[s]) /\ c.kind # "wvw"
    BY <1>5, <2>2 DEF CheckRoom, c
  <2>3. CASE ClaimHolds(c, got[s]) /\ c.kind = "wvw" /\ FreshMatch(w)
    BY <1>4, <1>5, <2>3 DEF CheckRoom, c, w
  <2>4. CASE ClaimHolds(c, got[s]) /\ c.kind = "wvw" /\ ~FreshMatch(w)
    BY <1>6, <2>4 DEF CheckRoom, c, w
  <2>5. QED
    BY <2>1, <2>2, <2>3, <2>4

\* The look-up of a team: the session goes by what the API said after it asked.
LEMMA TeamCall ==
  ASSUME TypeOK, Truth, NEW s \in Session, Call(s),
         TeamAnswered(s) \/ TeamUnknown(s) \/ TeamStored(s) \/ Join(s)
  PROVE  Call(s)'
<1> DEFINE c == Claim[request[s].room]
           w == got[s].world
           k == request[s].key
<1>1. CASE Finish(s)
  BY <1>1, IdleRelies DEF Finish, GoTo, TypeOK
<1>2. CASE TeamAnswered(s)
  <2>1. /\ OnCheck(s) /\ OnTeam(s) /\ pc[s] = "team" /\ w \in World
        /\ match[w] \in Team
    BY <1>2 DEF Call, OnCheck, TeamAnswered, Identity, TypeOK
  <2>2. /\ pc'[s] = "teamAnswer" /\ side'[s] = match[w]
        /\ UNCHANGED <<now, history, request, got, since>>
    BY <1>2 DEF TeamAnswered, GoTo, TypeOK
  <2>3. fought[w][match[w]] = now /\ match[w] # None
    BY <1>2, <2>1 DEF Truth, TeamAnswered
  <2>4. OnCheck(s)'
    BY <2>1, <2>2 DEF OnCheck, AnswerWithin, history
  <2>5. OnTeam(s)'
    BY <2>1, <2>2, <2>3 DEF OnTeam, history
  <2>6. QED
    BY <2>2, <2>4, <2>5 DEF Call, OnAccount, OnBind, OnJoin
<1>3. CASE TeamStored(s) /\ ~Finish(s)
  <2>1. /\ OnCheck(s) /\ OnTeam(s) /\ pc[s] = "teamAnswer" /\ side[s] = c.team
        /\ GoTo(s, "join") /\ UNCHANGED <<now, history, request, got, side>>
    BY <1>3 DEF Call, TeamStored
  <2>2. pc'[s] = "join"
    BY <2>1 DEF GoTo, TypeOK
  <2>3. /\ w \in World /\ side[s] \in Team /\ fought[w][side[s]] >= since[s]
        /\ now - since[s] <= MatchTimeout /\ since[s] \in Nat /\ now \in Nat
    BY <2>1, Locals DEF OnCheck, OnTeam, Identity
  <2>4. fought[w][side[s]] \in Int
    BY <2>3, Locals
  <2>5. TeamWithin(s, c.team, MatchTtl + MatchTimeout)
    BY <2>1, <2>3, <2>4, Bounds DEF TeamWithin
  <2>6. OnJoin(s)'
    BY <2>1, <2>5 DEF OnTeam, OnJoin, TeamWithin, history
  <2>7. OnCheck(s)'
    BY <2>1, <2>2 DEF OnCheck, AnswerWithin, history
  <2>8. QED
    BY <2>2, <2>6, <2>7 DEF Call, OnAccount, OnBind, OnTeam
<1>4. QED
  BY <1>1, <1>2, <1>3 DEF TeamUnknown, Join
-----------------------------------------------------------------------------
LEMMA CallsStep ==
  ASSUME TypeOK, Truth, Entries, Calls, [Next]_vars
  PROVE  Calls'
<1> SUFFICES ASSUME NEW o \in Session PROVE Call(o)'
  BY DEF Calls
<1>0. Call(o)
  BY DEF Calls
<1>1. CASE Tick
  BY <1>0, <1>1, TickCall
<1>2. CASE UNCHANGED vars
  BY <1>0, <1>2 DEF vars, history, sessionVars, Call, OnAccount, OnBind, OnCheck,
       OnTeam, OnJoin, AnswerWithin, TeamWithin
<1>3. CASE Next /\ ~Tick
  <2>1. Newer
    BY <1>3, StepIsNewer
  <2>2. CASE Same(o)
    BY <1>0, <2>1, <2>2, Frame
  <2>3. ASSUME NEW s \in Session, Handle(s) PROVE Call(o)'
    <3>1. CASE o = s
      BY <1>0, <2>3, <3>1, AccountCall, BindCall, CheckCall, TeamCall DEF Handle
    <3>2. CASE o # s
      <4>1. Same(o)
        <5> USE <3>2 DEF TypeOK, Same, GoTo, Finish
        <5>1. CASE AccountAnswered(s) \/ AccountFailed(s) \/ AccountStored(s)
          BY <5>1 DEF AccountAnswered, AccountFailed, AccountStored
        <5>2. CASE BindJoin(s)
          BY <5>2 DEF BindJoin
        <5>3. CASE BindValidate(s)
          BY <5>3 DEF BindValidate
        <5>4. CASE CheckRoom(s)
          <6>1. request[s].room \in Room
            BY <5>4 DEF Calls, Call, OnCheck, CheckRoom, Request
          <6>2. QED
            BY <5>4, <6>1, ClaimKinds, CheckedSomehow
        <5>5. CASE TeamAnswered(s) \/ TeamUnknown(s)
          BY <5>5 DEF TeamAnswered, TeamUnknown
        <5>6. CASE TeamStored(s)
          BY <5>6 DEF TeamStored
        <5>7. CASE Join(s)
          BY <5>7 DEF Join
        <5>8. QED
          BY <2>3, <5>1, <5>2, <5>3, <5>4, <5>5, <5>6, <5>7 DEF Handle
      <4>2. QED
        BY <2>2, <4>1
    <3>3. QED
      BY <3>1, <3>2
  <2>4. ASSUME NEW s \in Session, NEW req \in Request, Receive(s, req)
        PROVE  Call(o)'
    <3>1. CASE o = s
      BY <2>4, <3>1, ReceiveCall
    <3>2. CASE o # s
      <4>1. Same(o)
        BY <2>4, <3>2 DEF Receive, GoTo, Same, TypeOK
      <4>2. QED
        BY <2>2, <4>1
    <3>3. QED
      BY <3>1, <3>2
  <2>5. \/ Same(o)
        \/ \E s \in Session : Handle(s) \/ \E req \in Request : Receive(s, req)
    BY <1>3 DEF Next, KeyChanges, MatchChanges, Leave, Close, sessionVars, Same
  <2>6. QED
    BY <2>2, <2>3, <2>4, <2>5
<1>4. QED
  BY <1>1, <1>2, <1>3

LEMMA StepIInv == IInv /\ [Next]_vars => IInv'
BY TypeStep, TruthStep, EntriesStep, CallsStep DEF IInv
-----------------------------------------------------------------------------
\* The types, the entries' distance to what they say and what each handler relies
\* on (gw2.rs, wvw.rs, JoinRoom and ValidateApiKey) hold in every state.
THEOREM Invariance == Spec => []IInv
<1>1. Init => IInv
  BY InitIInv
<1>2. IInv /\ [Next]_vars => IInv'
  BY StepIInv
<1>3. QED
  BY <1>1, <1>2, PTL DEF Spec

\* validate_api_key's answer, from the cache or not, is no older than an entry's
\* lifetime and a request's timeout, for any number of sessions that ask at once.
THEOREM AnswersAreRecent == Spec => []AnswerIsRecent
<1>1. IInv => AnswerIsRecent
  BY DEF IInv, Calls, Call, OnBind, AnswerWithin, AccountAge, AnswerIsRecent
<1>2. QED
  BY <1>1, Invariance, PTL

\* JoinRoom lets no one into a WvW team's room whose world verify_team did not
\* see on that team within an entry's lifetime and a request's timeout.
THEOREM TeamsAreRecent == Spec => []TeamIsRecent
<1>1. IInv => TeamIsRecent
  <2> SUFFICES ASSUME IInv, NEW s \in Session, pc[s] = "join",
                      Claim[request[s].room].kind = "wvw"
               PROVE  LET c == Claim[request[s].room]
                          t == fought[got[s].world][c.team]
                          n == answered[request[s].key][got[s]]
                      IN  /\ c.world \in World /\ got[s].world = c.world
                          /\ n >= 0 /\ now - n < AccountTtl + AccountTimeout + MatchTimeout
                          /\ t >= 0 /\ now - t < MatchTtl + MatchTimeout
    BY DEF TeamIsRecent
  <2>1. OnCheck(s) /\ OnJoin(s)
    BY DEF IInv, Calls, Call
  <2>2. request[s].room \in Room /\ got[s] \in Identity /\ got[s].world \in World
    BY <2>1 DEF OnCheck, Request, Identity
  <2>3. Claim[request[s].room].world = got[s].world
    BY <2>1, <2>2, HeldClaim DEF OnJoin
  <2>4. QED
    BY <2>1, <2>2, <2>3 DEF OnCheck, OnJoin, AnswerWithin, TeamWithin, AccountAge
<1>2. QED
  BY <1>1, Invariance, PTL
=============================================================================
