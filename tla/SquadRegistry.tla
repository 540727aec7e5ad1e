--------------------------- MODULE SquadRegistry ---------------------------
(***************************************************************************)
(* server/src/squad.rs: a session reports the members of its player's GW2  *)
(* group and is answered with the id of a cluster.  identify looks at the  *)
(* clusters one at a time, remembers the best match by id, and goes back   *)
(* to it under a lock of its own; other sessions and the sweeper run       *)
(* between any two of these steps.                                         *)
(*                                                                         *)
(* Init, Next, Spec, vars, TypeOK and Inv have the prefix SR, so that a    *)
(* module can extend this one and RateLimit.                               *)
(***************************************************************************)
EXTENDS Integers, FiniteSets

CONSTANTS
  Session,
  Group,      \* the groups as they are in the game: sets of account names
  ClusterId,  \* the ids that can be minted: fresh uuids, each used once
  MinOverlap, Ttl,
  MaxClock,   \* bound on the clock
  None        \* no cluster

\* A report lists members of one group.  "Two prevents a single shared player
\* from accidentally fusing two unrelated groups": groups share less than
\* MinOverlap players.
ASSUME GroupAssumption ==
  /\ \A g \in Group : IsFiniteSet(g)
  /\ \A g, h \in Group : g # h => Cardinality(g \cap h) < MinOverlap
ASSUME LimitAssumption == MinOverlap \in Nat /\ Ttl \in Nat /\ MaxClock \in Nat
ASSUME NoneAssumption ==
  None \notin ClusterId \cup Group
    \cup [members : SUBSET UNION Group, seen : Nat]
    \cup [id : ClusterId, overlap : Nat]

VARIABLES
  clock,
  clusters,  \* Cluster.members and last_seen behind each id
  scanning,  \* sessions inside identify
  report, started, todo, best,   \* locals of identify
  stale,     \* local of sweep
  of,        \* history: the group each session is in
  owner,     \* history: the group a cluster was minted for
  answer     \* history: the last answer to each session

callVars == <<scanning, report, started, todo, best>>
SRvars == <<clock, clusters, callVars, stale, of, owner, answer>>

Cluster == [members : SUBSET UNION Group, seen : Nat]
Best    == [id : ClusterId, overlap : Nat]
Minted  == {c \in ClusterId : owner[c] # None}

SRInit ==
  /\ clock = 0
  /\ clusters = [c \in ClusterId |-> None]
  /\ scanning = {}
  /\ report   = [s \in Session |-> {}]
  /\ started  = [s \in Session |-> 0]
  /\ todo     = [s \in Session |-> {}]
  /\ best     = [s \in Session |-> None]
  /\ stale    = {}
  /\ of       = [s \in Session |-> None]
  /\ owner    = [c \in ClusterId |-> None]
  /\ answer   = [s \in Session |-> None]

SRTick ==
  /\ clock < MaxClock
  /\ clock' = clock + 1
  /\ UNCHANGED <<clusters, callVars, stale, of, owner, answer>>

-----------------------------------------------------------------------------
\* identify.

\* A client reports only a group of several.  The guard on ids keeps one for
\* each call under way.
Start(s, g, r) ==
  /\ s \notin scanning
  /\ Cardinality(ClusterId \ Minted) > Cardinality(scanning)
  /\ scanning' = scanning \cup {s}
  /\ report'   = [report EXCEPT ![s] = r]
  /\ started'  = [started EXCEPT ![s] = clock]
  /\ todo'     = [todo EXCEPT ![s] = ClusterId]
  /\ best'     = [best EXCEPT ![s] = None]
  /\ of'       = [of EXCEPT ![s] = g]
  /\ answer'   = [answer EXCEPT ![s] = None]
  /\ UNCHANGED <<clock, clusters, stale, owner>>

Overlap(s, c) == Cardinality(report[s] \cap clusters[c].members)

\* Mutant: one shared player is enough.
EligibleByOne(s, c) ==
  /\ clusters[c] # None
  /\ started[s] - clusters[c].seen <= Ttl
  /\ Overlap(s, c) >= MinOverlap - 1
Eligible(s, c) ==
  /\ clusters[c] # None
  /\ started[s] - clusters[c].seen <= Ttl
  /\ Overlap(s, c) >= MinOverlap

Visit(s, c) ==
  /\ s \in scanning
  /\ c \in todo[s]
  /\ todo' = [todo EXCEPT ![s] = @ \ {c}]
  /\ best' = IF Eligible(s, c)
                /\ (best[s] = None \/ Overlap(s, c) > best[s].overlap)
             THEN [best EXCEPT ![s] = [id |-> c, overlap |-> Overlap(s, c)]]
             ELSE best
  /\ UNCHANGED <<clock, clusters, scanning, report, started, stale,
                 of, owner, answer>>

Found(s) == best[s] # None /\ clusters[best[s].id] # None

\* The cluster becomes what the report says, as of the start of the call.
Store(s, c) ==
  /\ clusters' = [clusters EXCEPT
                    ![c] = [members |-> report[s], seen |-> started[s]]]
  /\ answer'   = [answer EXCEPT ![s] = c]
  /\ scanning' = scanning \ {s}
  /\ UNCHANGED <<clock, report, started, todo, best, stale, of>>

Match(s) ==
  /\ s \in scanning
  /\ todo[s] = {}
  /\ Found(s)
  /\ Store(s, best[s].id)
  /\ UNCHANGED owner

\* Nothing overlaps, or the best match was swept meanwhile.
Mint(s) ==
  /\ s \in scanning
  /\ todo[s] = {}
  /\ ~Found(s)
  /\ \E c \in ClusterId \ Minted :
       /\ Store(s, c)
       /\ owner' = [owner EXCEPT ![c] = of[s]]

-----------------------------------------------------------------------------
\* sweep: collect the ids, then remove them.

Expired(c) == clusters[c] # None /\ clock - clusters[c].seen > Ttl

SweepCollect ==
  /\ stale = {}
  /\ stale' = {c \in ClusterId : Expired(c)}
  /\ UNCHANGED <<clock, clusters, callVars, of, owner, answer>>

SweepRemove(c) ==
  /\ c \in stale
  /\ stale' = stale \ {c}
  /\ clusters' = [clusters EXCEPT ![c] = None]
  /\ UNCHANGED <<clock, callVars, of, owner, answer>>

SRNext ==
  \/ SRTick
  \/ \E s \in Session :
       \/ \E g \in Group : \E r \in SUBSET g :
            Cardinality(r) > 1 /\ Start(s, g, r)
       \/ \E c \in ClusterId : Visit(s, c)
       \/ Match(s)
       \/ Mint(s)
  \/ SweepCollect
  \/ \E c \in ClusterId : SweepRemove(c)

SRSpec == SRInit /\ [][SRNext]_SRvars
-----------------------------------------------------------------------------
SRTypeOK ==
  /\ clock \in Nat
  /\ clusters \in [ClusterId -> Cluster \cup {None}]
  /\ scanning \subseteq Session
  /\ report   \in [Session -> SUBSET UNION Group]
  /\ started  \in [Session -> Nat]
  /\ todo     \in [Session -> SUBSET ClusterId]
  /\ best     \in [Session -> Best \cup {None}]
  /\ stale    \subseteq ClusterId
  /\ of       \in [Session -> Group \cup {None}]
  /\ owner    \in [ClusterId -> Group \cup {None}]
  /\ answer   \in [Session -> ClusterId \cup {None}]

\* Sessions that are told the same cluster are in the same group, although a
\* match may by then have been overwritten by another report, or swept and
\* minted anew (identify).
NoFusion ==
  \A s, t \in Session :
    answer[s] # None /\ answer[s] = answer[t] => of[s] = of[t]
-----------------------------------------------------------------------------
\* What makes NoFusion hold: the group a cluster was minted for goes through every
\* step of identify.  What a cluster lists never leaves that group,
Owned ==
  \A c \in ClusterId : clusters[c] # None =>
    owner[c] \in Group /\ clusters[c].members \subseteq owner[c]

\* a match remembered by id stays one of the report's group, even if it is overwritten
\* or swept before the session comes back to it,
Calls ==
  \A s \in scanning :
    /\ of[s] \in Group /\ report[s] \subseteq of[s]
    /\ best[s] # None => owner[best[s].id] = of[s]

\* and an answer is a cluster of the session's group.
Answers ==
  \A s \in Session : answer[s] # None =>
    of[s] \in Group /\ owner[answer[s]] = of[s]

SRInv == SRTypeOK /\ Owned /\ Calls /\ Answers
=============================================================================
