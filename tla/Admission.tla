----------------------------- MODULE Admission -----------------------------
(***************************************************************************)
(* Who gets into a room: the JoinRoom and ValidateApiKey                   *)
(* handlers of server/src/session.rs with the two caches they ask first,   *)
(* gw2.rs (API key -> account and home world) and wvw.rs (world -> team).  *)
(*                                                                         *)
(* An action is a step under one lock, or one end of a request to the GW2  *)
(* API; the handlers of other sessions go on in between, so that an entry  *)
(* that was missing may have been written by the time the answer is in.    *)
(* The directory's own steps are RoomManager's: try_set_account_name and   *)
(* join_room are one step here.                                            *)
(***************************************************************************)
EXTENDS Integers, FiniteSets

CONSTANTS
  Session, Key, Account, World, Team, Room,
  None,                        \* no answer, no key, no name, no entry
  Claim,                       \* what a room's id says of its members
  AccountTtl, AccountTimeout,  \* gw2.rs:  CACHE_TTL, HTTP_TIMEOUT
  MatchTtl, MatchTimeout,      \* wvw.rs:  MATCH_CACHE_TTL, HTTP_TIMEOUT
  Cap,                         \* MAX_CONNECTIONS_PER_ACCOUNT
  MaxTime, MaxChanges          \* bounds on the clock and on the API's changes

Identity == [name : Account, world : World]

\* The claims a room id can make: none, a PvP team (well formed and of a known
\* colour or not), a WvW team (None where it does not parse, or for a colour
\* that is no team's; elsewhere is a world that no account is of).
Claims == [kind : {"open"}]
     \cup [kind : {"pvp"}, team : {"known", None}]
     \cup [kind : {"wvw"}, world : World \cup {"elsewhere", None},
            team : Team \cup {None}]

ASSUME AdmissionAssumption ==
  /\ Claim \in [Room -> Claims]
  /\ None \notin Identity \cup Account \cup Key \cup World \cup Team
  /\ AccountTtl \in Nat \ {0} /\ MatchTtl \in Nat \ {0}
  /\ AccountTimeout \in Nat /\ MatchTimeout \in Nat
  /\ Cap \in Nat /\ MaxTime \in Nat /\ MaxChanges \in Nat

VARIABLES
  now,
  api,        \* what a request for a key would be answered now, None for an error
  match,      \* the team a world is on, None if it is in no match
  changes,    \* bound on the changes of these two
  answered,   \* history: when a key was last answered so, -1 for never
  fought,     \* history: when a world was last on a team
  accounts,   \* Gw2Cache
  matches,    \* WvwMatchCache
  pc, request, got, side, since,  \* per session: the handler that runs, its locals
  bound,      \* Peer::account_name
  rooms       \* Peer::room_ids

worldVars   == <<api, match, changes>>
history     == <<answered, fought>>
cacheVars   == <<accounts, matches>>
sessionVars == <<pc, request, got, side, since>>
peerVars    == <<bound, rooms>>
vars == <<now, worldVars, history, cacheVars, sessionVars, peerVars>>

Answer == Identity \cup {None}
Request == [type : {"join"}, room : Room, key : Key \cup {None}]
      \cup [type : {"validate"}, key : Key \cup {None}]
Idle == [type |-> "none", key |-> None]

Init ==
  /\ now = 0
  /\ api \in [Key -> Answer] /\ match \in [World -> Team \cup {None}]
  /\ changes = 0
  /\ answered = [k \in Key |-> [a \in Answer |-> IF api[k] = a THEN 0 ELSE -1]]
  /\ fought = [w \in World |-> [t \in Team |-> IF match[w] = t THEN 0 ELSE -1]]
  /\ accounts = [k \in Key |-> None] /\ matches = [w \in World |-> None]
  /\ pc = [s \in Session |-> "idle"] /\ request = [s \in Session |-> Idle]
  /\ got = [s \in Session |-> None] /\ side = [s \in Session |-> None]
  /\ since = [s \in Session |-> 0]
  /\ bound = [s \in Session |-> None] /\ rooms = [s \in Session |-> {}]
-----------------------------------------------------------------------------
(* The GW2 API and time *)

\* A key is revoked or made, the API goes down or comes back, an account moves.
KeyChanges(k, a) ==
  /\ changes < MaxChanges /\ changes' = changes + 1
  /\ api' = [api EXCEPT ![k] = a]
  /\ answered' = [answered EXCEPT ![k][a] = now]
  /\ UNCHANGED <<now, match, fought, cacheVars, sessionVars, peerVars>>

\* A new matchup.
MatchChanges(w, t) ==
  /\ changes < MaxChanges /\ changes' = changes + 1
  /\ match' = [match EXCEPT ![w] = t]
  /\ fought' = [fought EXCEPT ![w] = [u \in Team |-> IF u = t THEN now ELSE @[u]]]
  /\ UNCHANGED <<now, api, answered, cacheVars, sessionVars, peerVars>>

\* A request ends within its timeout; the code between two awaits takes no time.
Patient(s) ==
  \/ pc[s] = "idle"
  \/ pc[s] \in {"account", "accountAnswer"} /\ now - since[s] < AccountTimeout
  \/ pc[s] \in {"team", "teamAnswer"} /\ now - since[s] < MatchTimeout

Tick ==
  /\ now < MaxTime
  /\ \A s \in Session : Patient(s)
  /\ now' = now + 1
  /\ answered' = [k \in Key |-> [answered[k] EXCEPT ![api[k]] = now + 1]]
  /\ fought' = [w \in World |->
                  [t \in Team |-> IF match[w] = t THEN now + 1 ELSE fought[w][t]]]
  /\ UNCHANGED <<worldVars, cacheVars, sessionVars, peerVars>>
-----------------------------------------------------------------------------
(* Lookups *)

\* Mutant: an entry is trusted for ever.
KnownAccount(k) == accounts[k] # None
FreshAccount(k) == accounts[k] # None /\ now - accounts[k].at < AccountTtl

KnownMatch(w) == matches[w] # None
FreshMatch(w) == matches[w] # None /\ now - matches[w].at < MatchTtl

GoTo(s, place) == pc' = [pc EXCEPT ![s] = place]

\* The handler returns.
Finish(s) ==
  /\ GoTo(s, "idle")
  /\ request' = [request EXCEPT ![s] = Idle]
  /\ got' = [got EXCEPT ![s] = None] /\ side' = [side EXCEPT ![s] = None]
  /\ since' = [since EXCEPT ![s] = 0]

\* JoinRoom and ValidateApiKey start with validate_api_key, unless the key is
\* empty; a fresh entry answers, be it a name or a refusal.
Receive(s, req) ==
  LET k == req.key
  IN  /\ pc[s] = "idle"
      /\ request' = [request EXCEPT ![s] = req]
      /\ IF k # None /\ ~FreshAccount(k)
         THEN /\ GoTo(s, "account")
              /\ since' = [since EXCEPT ![s] = now]
              /\ UNCHANGED got
         ELSE /\ GoTo(s, "bind")
              /\ got' = [got EXCEPT ![s] = IF k = None THEN None
                                           ELSE accounts[k].answer]
              /\ UNCHANGED since
      /\ UNCHANGED <<now, worldVars, history, cacheVars, side, peerVars>>

\* fetch_account_info: the API answers ...
AccountAnswered(s) ==
  /\ pc[s] = "account" /\ GoTo(s, "accountAnswer")
  /\ got' = [got EXCEPT ![s] = api[request[s].key]]
  /\ UNCHANGED <<now, worldVars, history, cacheVars, request, side, since, peerVars>>

\* ... or this request fails.
AccountFailed(s) ==
  /\ pc[s] = "account" /\ GoTo(s, "accountAnswer")
  /\ got' = [got EXCEPT ![s] = None]
  /\ answered' = [answered EXCEPT ![request[s].key][None] = now]
  /\ UNCHANGED <<now, worldVars, fought, cacheVars, request, side, since, peerVars>>

\* Whatever came back is stored, a failure as well.
AccountStored(s) ==
  /\ pc[s] = "accountAnswer" /\ GoTo(s, "bind")
  /\ accounts' = [accounts EXCEPT ![request[s].key] = [answer |-> got[s], at |-> now]]
  /\ since' = [since EXCEPT ![s] = 0]
  /\ UNCHANGED <<now, worldVars, history, matches, request, got, side, peerVars>>
-----------------------------------------------------------------------------
(* The verdict *)

\* try_set_account_name
AtCap(s, n) ==
  bound[s] # n /\ Cardinality({o \in Session : bound[o] = n}) >= Cap

\* JoinRoom without a valid key, or at the cap, is rejected and changes nothing.
BindJoin(s) ==
  /\ pc[s] = "bind" /\ request[s].type = "join"
  /\ IF got[s] = None \/ (got[s] # None /\ AtCap(s, got[s].name))
     THEN Finish(s) /\ UNCHANGED bound
     ELSE /\ bound' = [bound EXCEPT ![s] = got[s].name]
          /\ GoTo(s, "check")
          /\ UNCHANGED <<request, got, side, since>>
  /\ UNCHANGED <<now, worldVars, history, cacheVars, rooms>>

\* ValidateApiKey binds what it was given, and an invalid key takes the name away.
BindValidate(s) ==
  /\ pc[s] = "bind" /\ request[s].type = "validate"
  /\ LET name == IF got[s] = None THEN None ELSE got[s].name
     IN  bound' = IF name # None /\ AtCap(s, name) THEN bound
                  ELSE [bound EXCEPT ![s] = name]
  /\ Finish(s)
  /\ UNCHANGED <<now, worldVars, history, cacheVars, rooms>>

\* The claims that can be refused or accepted as they stand.  Mutant: the
\* account's own world is not compared.
ClaimHoldsAnywhere(c, id) ==
  CASE c.kind = "open" -> TRUE
    [] c.kind = "pvp"  -> c.team # None
    [] c.kind = "wvw"  -> c.world # None /\ c.team # None
ClaimHolds(c, id) ==
  CASE c.kind = "open" -> TRUE
    [] c.kind = "pvp"  -> c.team # None
    [] c.kind = "wvw"  -> c.world = id.world /\ c.team # None

\* Up to verify_team; a fresh entry of the world's team answers at once.
CheckRoom(s) ==
  LET c == Claim[request[s].room]
      w == got[s].world
  IN  /\ pc[s] = "check"
      /\ CASE ~ClaimHolds(c, got[s]) -> Finish(s)
           [] ClaimHolds(c, got[s]) /\ c.kind # "wvw" ->
                GoTo(s, "join") /\ UNCHANGED <<request, got, side, since>>
           [] ClaimHolds(c, got[s]) /\ c.kind = "wvw" /\ FreshMatch(w) ->
                IF matches[w].team = c.team
                THEN GoTo(s, "join") /\ UNCHANGED <<request, got, side, since>>
                ELSE Finish(s)
           [] ClaimHolds(c, got[s]) /\ c.kind = "wvw" /\ ~FreshMatch(w) ->
                /\ GoTo(s, "team")
                /\ since' = [since EXCEPT ![s] = now]
                /\ UNCHANGED <<request, got, side>>
      /\ UNCHANGED <<now, worldVars, history, cacheVars, peerVars>>

\* fetch_world_team
TeamAnswered(s) ==
  LET w == got[s].world
  IN  /\ pc[s] = "team" /\ match[w] # None
      /\ GoTo(s, "teamAnswer")
      /\ side' = [side EXCEPT ![s] = match[w]]
      /\ UNCHANGED <<now, worldVars, history, cacheVars, request, got, since, peerVars>>

\* No answer, or the world is in none of the lists: rejected, nothing stored.
TeamUnknown(s) ==
  /\ pc[s] = "team"
  /\ Finish(s)
  /\ UNCHANGED <<now, worldVars, history, cacheVars, peerVars>>

\* verify_team stores the answer and goes by it, not by what is stored.
TeamStored(s) ==
  LET c == Claim[request[s].room]
  IN  /\ pc[s] = "teamAnswer"
      /\ matches' = [matches EXCEPT ![got[s].world] = [team |-> side[s], at |-> now]]
      /\ IF side[s] = c.team
         THEN /\ GoTo(s, "join")
              /\ since' = [since EXCEPT ![s] = 0]
              /\ UNCHANGED <<request, got, side>>
         ELSE Finish(s)
      /\ UNCHANGED <<now, worldVars, history, accounts, peerVars>>

Join(s) ==
  /\ pc[s] = "join"
  /\ rooms' = [rooms EXCEPT ![s] = @ \cup {request[s].room}]
  /\ Finish(s)
  /\ UNCHANGED <<now, worldVars, history, cacheVars, bound>>
-----------------------------------------------------------------------------
\* LeaveRoom with a room, and without one.
Leave(s, left) ==
  /\ pc[s] = "idle" /\ rooms[s] \cap left # {}
  /\ rooms' = [rooms EXCEPT ![s] = @ \ left]
  /\ UNCHANGED <<now, worldVars, history, cacheVars, sessionVars, bound>>

\* The connection closes, which its loop sees when no handler runs, and another
\* one takes its place.
Close(s) ==
  /\ pc[s] = "idle" /\ (bound[s] # None \/ rooms[s] # {})
  /\ rooms' = [rooms EXCEPT ![s] = {}]
  /\ bound' = [bound EXCEPT ![s] = None]
  /\ UNCHANGED <<now, worldVars, history, cacheVars, sessionVars>>

Handle(s) ==
  \/ AccountAnswered(s) \/ AccountFailed(s) \/ AccountStored(s)
  \/ BindJoin(s) \/ BindValidate(s) \/ CheckRoom(s)
  \/ TeamAnswered(s) \/ TeamUnknown(s) \/ TeamStored(s) \/ Join(s)

Next ==
  \/ Tick
  \/ \E k \in Key, a \in Answer : KeyChanges(k, a)
  \/ \E w \in World, t \in Team \cup {None} : MatchChanges(w, t)
  \/ \E s \in Session :
       \/ Handle(s)
       \/ \E req \in Request : Receive(s, req)
       \/ \E left \in {{r} : r \in Room} \cup {Room} : Leave(s, left)
       \/ Close(s)

Spec == Init /\ [][Next]_vars
-----------------------------------------------------------------------------
Places == {"idle", "account", "accountAnswer", "bind", "check", "team",
           "teamAnswer", "join"}

TypeOK ==
  /\ now \in 0..MaxTime /\ changes \in 0..MaxChanges
  /\ api \in [Key -> Answer] /\ match \in [World -> Team \cup {None}]
  /\ answered \in [Key -> [Answer -> -1..MaxTime]]
  /\ fought \in [World -> [Team -> -1..MaxTime]]
  /\ accounts \in [Key -> [answer : Answer, at : 0..MaxTime] \cup {None}]
  /\ matches \in [World -> [team : Team, at : 0..MaxTime] \cup {None}]
  /\ pc \in [Session -> Places]
  /\ request \in [Session -> Request \cup {Idle}]
  /\ got \in [Session -> Answer] /\ side \in [Session -> Team \cup {None}]
  /\ since \in [Session -> 0..MaxTime]
  /\ bound \in [Session -> Account \cup {None}]
  /\ rooms \in [Session -> SUBSET Room]

\* What a session goes by, a name or a refusal, is what the API said of that key
\* less than the lifetime of an entry and the timeout of a request ago, whoever
\* asked and however the answers of several requests came in (validate_api_key).
AnswerIsRecent ==
  \A s \in Session : pc[s] = "bind" /\ request[s].key # None =>
    LET t == answered[request[s].key][got[s]]
    IN  t >= 0 /\ now - t < AccountTtl + AccountTimeout

\* Who is let into the room of a WvW team has an account of the world that the
\* room names, by an answer that is at most one request older, and that world
\* was on that team less than an entry's lifetime and a timeout ago.
TeamIsRecent ==
  \A s \in Session : pc[s] = "join" /\ Claim[request[s].room].kind = "wvw" =>
    LET c == Claim[request[s].room]
        t == fought[got[s].world][c.team]
        n == answered[request[s].key][got[s]]
    IN  /\ c.world \in World /\ got[s].world = c.world
        /\ n >= 0 /\ now - n < AccountTtl + AccountTimeout + MatchTimeout
        /\ t >= 0 /\ now - t < MatchTtl + MatchTimeout
=============================================================================
