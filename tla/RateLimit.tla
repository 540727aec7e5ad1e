----------------------------- MODULE RateLimit -----------------------------
(***************************************************************************)
(* server/src/rate_limit.rs and the inbound loop of session.rs that uses   *)
(* it: one token bucket per kind of message, refilled lazily when it is    *)
(* next asked, and a count of refusals that closes the connection.         *)
(*                                                                         *)
(* Time is a discrete clock.  Tokens are counted in fractions: Unit of     *)
(* them admit one message, and each tick refills Rate[k] of them.          *)
(***************************************************************************)
EXTENDS Integers

CONSTANTS
  Kind,              \* the limited kinds: join_room, audio, ...
  Unit,
  Rate, Burst,       \* per kind: refill_per_sec and capacity
  OverageWindow, OverageThreshold,
  MaxTime            \* bound on the clock

ASSUME RateAssumption ==
  /\ Unit \in Nat \ {0}
  /\ Rate  \in [Kind -> Nat]
  /\ Burst \in [Kind -> Nat]
  /\ OverageWindow \in Nat
  /\ OverageThreshold \in Nat \ {0}
  /\ MaxTime \in Nat

VARIABLES
  now,
  tokens, last,      \* TokenBucket, per kind
  windowStart, overage,  \* overage_window_start, overage_count
  open,              \* the session has not been closed
  mark, admitted,    \* history: messages admitted since a past instant
  full, sinceFull,   \* history: ... since the bucket was last full
  refusedMark, refused   \* history: refusals since a past instant

bucketVars  == <<tokens, last>>
overageVars == <<windowStart, overage, open>>
history     == <<mark, admitted, full, sinceFull, refusedMark, refused>>
vars == <<now, bucketVars, overageVars, history>>

Capacity(k) == Burst[k] * Unit

\* What the bucket holds when it is asked at time t.
RefilledAt(k, t) ==
  LET sum == tokens[k] + Rate[k] * (t - last[k])
  IN  IF sum < Capacity(k) THEN sum ELSE Capacity(k)

\* Mutant: one message more than the bucket holds.
EnoughStrict(n) == n > Unit
Enough(n) == n >= Unit

Init ==
  /\ now = 0
  /\ tokens = [k \in Kind |-> Capacity(k)]
  /\ last   = [k \in Kind |-> 0]
  /\ windowStart = 0 /\ overage = 0 /\ open = TRUE
  /\ mark = [k \in Kind |-> 0] /\ admitted  = [k \in Kind |-> 0]
  /\ full = [k \in Kind |-> 0] /\ sinceFull = [k \in Kind |-> 0]
  /\ refusedMark = 0 /\ refused = 0

\* Time passes; a bucket that is full by then starts a new account.
Tick ==
  /\ now < MaxTime
  /\ now' = now + 1
  /\ LET isFull(k) == RefilledAt(k, now + 1) = Capacity(k)
     IN  /\ full' = [k \in Kind |-> IF isFull(k) THEN now + 1 ELSE full[k]]
         /\ sinceFull' = [k \in Kind |-> IF isFull(k) THEN 0 ELSE sinceFull[k]]
  /\ UNCHANGED <<bucketVars, overageVars, mark, admitted, refusedMark, refused>>

\* The instants from which the histories count are any instants.
Mark(k) ==
  /\ mark'     = [mark EXCEPT ![k] = now]
  /\ admitted' = [admitted EXCEPT ![k] = 0]
  /\ UNCHANGED <<now, bucketVars, overageVars, full, sinceFull,
                 refusedMark, refused>>

MarkRefusals ==
  /\ refusedMark' = now
  /\ refused' = 0
  /\ UNCHANGED <<now, bucketVars, overageVars, mark, admitted, full, sinceFull>>

\* try_take refills in either case.  Mutant: from a time that never moves.
TakeForgets(k, n) == tokens' = [tokens EXCEPT ![k] = n] /\ UNCHANGED last
Take(k, n) ==
  /\ tokens' = [tokens EXCEPT ![k] = n]
  /\ last'   = [last EXCEPT ![k] = now]

\* A message of kind k is handled ...
Admit(k) ==
  LET n == RefilledAt(k, now)
  IN  /\ open
      /\ Enough(n)
      /\ Take(k, n - Unit)
      /\ admitted'  = [admitted EXCEPT ![k] = @ + 1]
      /\ sinceFull' = [sinceFull EXCEPT ![k] = @ + 1]
      /\ UNCHANGED <<now, overageVars, mark, full, refusedMark, refused>>

\* record_overage.  Mutant: the count starts over, the window does not.
RecordOverageOnce ==
  /\ overage' = (IF now - windowStart > OverageWindow THEN 0 ELSE overage) + 1
  /\ UNCHANGED windowStart
RecordOverage ==
  IF now - windowStart > OverageWindow
  THEN windowStart' = now /\ overage' = 1
  ELSE overage' = overage + 1 /\ UNCHANGED windowStart

\* ... or dropped, and the one too many closes the connection.
Refuse(k) ==
  LET n == RefilledAt(k, now)
  IN  /\ open
      /\ ~Enough(n)
      /\ Take(k, n)
      /\ RecordOverage
      /\ open'    = (overage' < OverageThreshold)
      /\ refused' = refused + 1
      /\ UNCHANGED <<now, mark, admitted, full, sinceFull, refusedMark>>

Next ==
  \/ Tick
  \/ MarkRefusals
  \/ \E k \in Kind : Mark(k) \/ Admit(k) \/ Refuse(k)

Spec == Init /\ [][Next]_vars
-----------------------------------------------------------------------------
TypeOK ==
  /\ now \in 0..MaxTime
  /\ tokens \in [Kind -> Nat] /\ last \in [Kind -> 0..MaxTime]
  /\ windowStart \in 0..MaxTime /\ overage \in Nat /\ open \in BOOLEAN
  /\ mark \in [Kind -> 0..MaxTime] /\ admitted \in [Kind -> Nat]
  /\ full \in [Kind -> 0..MaxTime] /\ sinceFull \in [Kind -> Nat]
  /\ refusedMark \in 0..MaxTime /\ refused \in Nat

\* Over any interval a bucket admits at most its burst plus what its rate
\* yields in that interval (TokenBucket: capacity caps what idling saves up).
AdmissionBound ==
  \A k \in Kind :
    admitted[k] * Unit <= Capacity(k) + Rate[k] * (now - mark[k])

\* No message is refused that the burst and the rate leave room for: when one
\* is, what was admitted since the bucket was last full, and one more, is over
\* the bound (lazy refill loses nothing).
RefusalIsDue ==
  [][\A k \in Kind : Refuse(k) =>
       (sinceFull[k] + 1) * Unit > Capacity(k) + Rate[k] * (now - full[k])]_vars

\* An open connection was refused less than twice the threshold in any
\* interval as long as the window, although the window is a fixed one that
\* starts over (record_overage).
RefusalBound ==
  open /\ now - refusedMark <= OverageWindow
    => refused <= 2 * (OverageThreshold - 1)

\* Refilling when asked is the same as refilling all the time: what a bucket
\* would hold if it were asked now (try_take) goes through the steps of one
\* that is refilled at every tick, in any order of calls and pauses.
Eager == INSTANCE EagerBucket
           WITH level <- [k \in Kind |-> RefilledAt(k, now)]
IsEager == Eager!Spec
=============================================================================
