-------------------------- MODULE ConnectionProofs --------------------------
(***************************************************************************)
(* Proofs about RateLimit for any rates, bursts, window and threshold.     *)
(* IInv says of each bucket what its level has to do with what it          *)
(* admitted (Level from above, Exact from below), and of the overage count *)
(* how many fixed windows an interval of refusals can have met (Windows).  *)
(*                                                                         *)
(* And about SquadRegistry, for any family of groups that share less than  *)
(* MinOverlap players, any number of sessions, and sweeps and clocks at    *)
(* any pace; and about Session, for any number of connections and any      *)
(* intervals: SeInv says how far a silence can have got by the sweeper's   *)
(* next walk, and how old the silence is that a permit was left for.       *)
(***************************************************************************)
EXTENDS RateLimit, SquadRegistry, Session, FiniteSetTheorems, TLAPS

\* What was admitted since mark and what is left never exceed the bound.
Level(k) ==
  admitted[k] * Unit + RefilledAt(k, now)
    <= Capacity(k) + Rate[k] * (now - mark[k])

\* Nothing is lost since the bucket was last full.
Exact(k) ==
  sinceFull[k] * Unit + RefilledAt(k, now)
    >= Capacity(k) + Rate[k] * (now - full[k])

BucketInv ==
  \A k \in Kind :
    /\ tokens[k] <= Capacity(k)
    /\ last[k] <= now /\ mark[k] <= now /\ full[k] <= now
    /\ Level(k) /\ Exact(k)

\* An interval of refusals lies in the current window, or began in the one
\* before it, or is longer than a window.
Windows ==
  /\ windowStart <= now /\ refusedMark <= now
  /\ open => overage < OverageThreshold
  /\ open => \/ refused <= overage
             \/ /\ refusedMark <= windowStart
                /\ refused <= overage + OverageThreshold - 1
             \/ windowStart - refusedMark > OverageWindow

IInv == TypeOK /\ BucketInv /\ Windows
-----------------------------------------------------------------------------
LEMMA Constants ==
  /\ Unit \in Nat \ {0}
  /\ \A k \in Kind : Rate[k] \in Nat /\ Capacity(k) \in Nat
  /\ OverageWindow \in Nat /\ OverageThreshold \in Nat \ {0}
  /\ MaxTime \in Nat
<1>1. \A a, b \in Nat : a * b \in Nat
  OBVIOUS
<1>2. QED
  BY <1>1, RateAssumption DEF Capacity

\* One tick is worth one Rate.
LEMMA OneTick ==
  ASSUME NEW a \in Nat, NEW s \in Int, NEW t \in Int
  PROVE  a * ((t + 1) - s) = a * (t - s) + a
OBVIOUS

LEMMA Product ==
  ASSUME NEW a \in Nat, NEW s \in Nat, NEW t \in Nat, s <= t
  PROVE  a * (t - s) \in Nat
OBVIOUS

LEMMA OneMore ==
  ASSUME NEW a \in Nat, NEW u \in Nat
  PROVE  (a + 1) * u = a * u + u /\ a * u \in Nat /\ 0 * u = 0
OBVIOUS

\* What a bucket is refilled to, now and a tick later.
LEMMA Refill ==
  ASSUME TypeOK, NEW k \in Kind, last[k] <= now
  PROVE  /\ RefilledAt(k, now) \in Nat
         /\ RefilledAt(k, now) <= Capacity(k)
         /\ RefilledAt(k, now + 1) \in Nat
         /\ RefilledAt(k, now + 1) <= Capacity(k)
         /\ RefilledAt(k, now + 1) <= RefilledAt(k, now) + Rate[k]
         /\ \/ RefilledAt(k, now + 1) = Capacity(k)
            \/ RefilledAt(k, now + 1) = RefilledAt(k, now) + Rate[k]
<1>1. /\ tokens[k] \in Nat /\ last[k] \in Nat /\ now \in Nat
      /\ Rate[k] \in Nat /\ Capacity(k) \in Nat
  BY Constants DEF TypeOK
<1>2. Rate[k] * (now - last[k]) \in Nat
  BY <1>1, Product
<1>3. Rate[k] * ((now + 1) - last[k])
        = Rate[k] * (now - last[k]) + Rate[k]
  <2>1. now \in Int /\ last[k] \in Int
    BY <1>1
  <2>2. QED
    BY <1>1, <2>1, OneTick, Zenon
<1> DEFINE worth == Rate[k] * (now - last[k])
<1>4. Rate[k] * ((now + 1) - last[k]) = worth + Rate[k] /\ worth \in Nat
  BY <1>2, <1>3
<1>5. RefilledAt(k, now)
        = IF tokens[k] + worth < Capacity(k) THEN tokens[k] + worth
          ELSE Capacity(k)
  BY DEF RefilledAt
<1>6. RefilledAt(k, now + 1)
        = IF tokens[k] + (worth + Rate[k]) < Capacity(k)
          THEN tokens[k] + (worth + Rate[k]) ELSE Capacity(k)
  BY <1>4 DEF RefilledAt
<1> HIDE DEF worth
<1>7. QED
  <2>1. CASE tokens[k] + worth < Capacity(k)
    BY <1>1, <1>4, <1>5, <1>6, <2>1
  <2>2. CASE ~(tokens[k] + worth < Capacity(k))
    BY <1>1, <1>4, <1>5, <1>6, <2>2
  <2>3. QED
    BY <2>1, <2>2

\* A bucket that was just asked holds what it was left with.
LEMMA Taken ==
  ASSUME TypeOK, NEW k \in Kind, NEW n \in Nat, n <= Capacity(k),
         Take(k, n), now' = now
  PROVE  /\ RefilledAt(k, now)' = n
         /\ \A j \in Kind \ {k} : RefilledAt(j, now)' = RefilledAt(j, now)
<1>0. /\ tokens \in [Kind -> Nat] /\ last \in [Kind -> 0..MaxTime]
      /\ now \in Nat /\ Capacity(k) \in Nat /\ Rate[k] \in Nat
  BY Constants DEF TypeOK
<1>1. tokens'[k] = n /\ last'[k] = now
  BY <1>0 DEF Take
<1>2. Rate[k] * (now' - last'[k]) = 0
  <2>1. now' - last'[k] = 0
    BY <1>0, <1>1
  <2>2. QED
    BY <1>0, <2>1
<1>3. RefilledAt(k, now)' = n
  BY <1>0, <1>1, <1>2 DEF RefilledAt, Capacity
<1>4. ASSUME NEW j \in Kind \ {k}
      PROVE  RefilledAt(j, now)' = RefilledAt(j, now)
  <2>1. tokens'[j] = tokens[j] /\ last'[j] = last[j]
    BY <1>0 DEF Take
  <2>2. QED
    BY <2>1 DEF RefilledAt, Capacity
<1>5. QED
  BY <1>3, <1>4

LEMMA InitIInv == Init => IInv
<1> SUFFICES ASSUME Init PROVE IInv
  OBVIOUS
<1>1. TypeOK
  BY Constants DEF Init, TypeOK
<1>2. ASSUME NEW k \in Kind
      PROVE  /\ tokens[k] <= Capacity(k) /\ last[k] <= now
             /\ mark[k] <= now /\ full[k] <= now /\ Level(k) /\ Exact(k)
  <2>1. /\ tokens[k] = Capacity(k) /\ now = 0 /\ last[k] = 0 /\ mark[k] = 0
        /\ full[k] = 0 /\ admitted[k] = 0 /\ sinceFull[k] = 0
    BY <1>2 DEF Init
  <2>2. /\ Capacity(k) \in Nat /\ Rate[k] * (0 - 0) = 0 /\ 0 * Unit = 0
    BY Constants
  <2>3. RefilledAt(k, now) = Capacity(k)
    BY <2>1, <2>2 DEF RefilledAt
  <2>4. QED
    BY <2>1, <2>2, <2>3 DEF Level, Exact
<1>3. Windows
  BY Constants DEF Init, Windows
<1>4. QED
  BY <1>1, <1>2, <1>3 DEF IInv, BucketInv

LEMMA TypeStep ==
  ASSUME TypeOK, BucketInv, Next
  PROVE  TypeOK'
<1>0. /\ \A k \in Kind : RefilledAt(k, now) \in Nat
      /\ Unit \in Nat \ {0} /\ MaxTime \in Nat
  BY Refill, Constants DEF BucketInv
<1> USE DEF bucketVars, overageVars, history
<1>1. CASE Tick
  BY <1>0, <1>1 DEF Tick, TypeOK
<1>2. CASE MarkRefusals
  BY <1>0, <1>2 DEF MarkRefusals, TypeOK
<1>3. ASSUME NEW k \in Kind, Mark(k) PROVE TypeOK'
  BY <1>0, <1>3 DEF Mark, TypeOK
<1>4. ASSUME NEW k \in Kind, Admit(k) PROVE TypeOK'
  BY <1>0, <1>4 DEF Admit, Enough, Take, TypeOK
<1>5. ASSUME NEW k \in Kind, Refuse(k) PROVE TypeOK'
  BY <1>0, <1>5 DEF Refuse, Take, RecordOverage, TypeOK
<1>6. QED
  BY <1>1, <1>2, <1>3, <1>4, <1>5 DEF Next

\* What one bucket's histories and its level say of each other.
LevelsOf(k) ==
  /\ tokens[k] <= Capacity(k)
  /\ last[k] <= now /\ mark[k] <= now /\ full[k] <= now
  /\ Level(k) /\ Exact(k)

\* Two equal instants, and one tick between them.
LEMMA NoTick ==
  ASSUME NEW a \in Nat, NEW s \in Int
  PROVE  a * (s - s) = 0
<1>1. s - s = 0
  OBVIOUS
<1>2. QED
  BY <1>1

\* A step that leaves bucket k and its histories alone, but for the clock.
LEMMA TickStep ==
  ASSUME TypeOK, NEW k \in Kind, LevelsOf(k), Tick
  PROVE  LevelsOf(k)'
<1>1. /\ now' = now + 1
      /\ UNCHANGED <<tokens, last, mark, admitted>>
      /\ full'[k] = IF RefilledAt(k, now + 1) = Capacity(k) THEN now + 1
                    ELSE full[k]
      /\ sinceFull'[k] = IF RefilledAt(k, now + 1) = Capacity(k) THEN 0
                         ELSE sinceFull[k]
  BY DEF Tick, bucketVars
<1>2. /\ now \in Nat /\ Rate[k] \in Nat /\ Capacity(k) \in Nat
      /\ mark[k] \in Nat /\ full[k] \in Nat /\ last[k] \in Nat
      /\ now \in Int /\ mark[k] \in Int /\ full[k] \in Int
      /\ now + 1 \in Int /\ Unit \in Nat
      /\ admitted[k] \in Nat /\ sinceFull[k] \in Nat
  BY Constants DEF TypeOK
<1>3. RefilledAt(k, now)' = RefilledAt(k, now + 1) /\ Capacity(k)' = Capacity(k)
  BY <1>1 DEF RefilledAt, Capacity
<1>4. last[k] <= now /\ mark[k] <= now /\ full[k] <= now
  BY DEF LevelsOf
<1>5. /\ Rate[k] * ((now + 1) - mark[k]) = Rate[k] * (now - mark[k]) + Rate[k]
      /\ Rate[k] * ((now + 1) - full[k]) = Rate[k] * (now - full[k]) + Rate[k]
      /\ Rate[k] * ((now + 1) - (now + 1)) = 0
  BY <1>2, OneTick, NoTick, Zenon
<1>6. /\ Rate[k] * (now - mark[k]) \in Nat /\ Rate[k] * (now - full[k]) \in Nat
      /\ admitted[k] * Unit \in Nat /\ sinceFull[k] * Unit \in Nat
      /\ 0 * Unit = 0
  BY <1>2, <1>4, Product, OneMore
<1> DEFINE ofMark == Rate[k] * (now - mark[k])
           ofFull == Rate[k] * (now - full[k])
           taken  == admitted[k] * Unit
           kept   == sinceFull[k] * Unit
<1>7. Level(k)'
  <2>1. taken + RefilledAt(k, now) <= Capacity(k) + ofMark
    BY DEF LevelsOf, Level
  <2>2. /\ Rate[k] * ((now + 1) - mark[k]) = ofMark + Rate[k]
        /\ ofMark \in Nat /\ taken \in Nat
    BY <1>5, <1>6
  <2> HIDE DEF ofMark, taken
  <2>3. taken + RefilledAt(k, now + 1) <= Capacity(k) + (ofMark + Rate[k])
    BY <1>2, <1>4, <2>1, <2>2, Refill
  <2> USE DEF taken
  <2>4. QED
    BY <1>1, <1>3, <2>2, <2>3 DEF Level
<1>8. Exact(k)'
  <2>1. kept + RefilledAt(k, now) >= Capacity(k) + ofFull
    BY DEF LevelsOf, Exact
  <2>2. /\ Rate[k] * ((now + 1) - full[k]) = ofFull + Rate[k]
        /\ ofFull \in Nat /\ kept \in Nat
    BY <1>5, <1>6
  <2>3. CASE RefilledAt(k, now + 1) = Capacity(k)
    <3>1. /\ sinceFull'[k] * Unit = 0
          /\ Rate[k] * (now' - full'[k]) = 0
      BY <1>1, <1>5, <1>6, <2>3
    <3>2. QED
      BY <1>2, <1>3, <2>3, <3>1 DEF Exact
  <2>4. CASE RefilledAt(k, now + 1) # Capacity(k)
    <3> HIDE DEF ofFull, kept
    <3>1. kept + RefilledAt(k, now + 1) >= Capacity(k) + (ofFull + Rate[k])
      BY <1>2, <1>4, <2>1, <2>2, <2>4, Refill
    <3> USE DEF kept
    <3>2. QED
      BY <1>1, <1>3, <2>2, <2>4, <3>1 DEF Exact
  <2>5. QED
    BY <2>3, <2>4
<1>9. QED
  BY <1>1, <1>2, <1>3, <1>4, <1>7, <1>8 DEF LevelsOf

LEMMA AdmitStep ==
  ASSUME TypeOK, NEW k \in Kind, LevelsOf(k), NEW j \in Kind, Admit(j)
  PROVE  LevelsOf(k)'
<1>1. /\ UNCHANGED <<now, mark, full>>
      /\ admitted' = [admitted EXCEPT ![j] = @ + 1]
      /\ sinceFull' = [sinceFull EXCEPT ![j] = @ + 1]
      /\ Take(j, RefilledAt(j, now) - Unit)
      /\ RefilledAt(j, now) >= Unit
  BY DEF Admit, Enough
<1>2. /\ admitted \in [Kind -> Nat] /\ sinceFull \in [Kind -> Nat]
      /\ tokens \in [Kind -> Nat] /\ last \in [Kind -> 0..MaxTime]
      /\ Unit \in Nat /\ Rate[k] \in Nat /\ Capacity(k) \in Nat
      /\ now \in Nat /\ mark[k] \in Nat /\ full[k] \in Nat
  BY Constants DEF TypeOK
<1>3. Capacity(k)' = Capacity(k)
  BY DEF Capacity
<1>4. CASE j # k
  <2>1. /\ tokens'[k] = tokens[k] /\ last'[k] = last[k]
        /\ admitted'[k] = admitted[k] /\ sinceFull'[k] = sinceFull[k]
    BY <1>1, <1>2, <1>4 DEF Take
  <2>2. RefilledAt(k, now)' = RefilledAt(k, now)
    BY <1>1, <1>3, <2>1 DEF RefilledAt
  <2>3. QED
    BY <1>1, <1>3, <2>1, <2>2 DEF LevelsOf, Level, Exact
<1>5. CASE j = k
  <2>1. /\ RefilledAt(k, now) \in Nat /\ RefilledAt(k, now) <= Capacity(k)
        /\ last[k] <= now /\ mark[k] <= now /\ full[k] <= now
    BY Refill DEF LevelsOf
  <2>2. /\ RefilledAt(k, now) - Unit \in Nat
        /\ RefilledAt(k, now) - Unit <= Capacity(k)
    BY <1>1, <1>2, <1>5, <2>1
  <2>3. RefilledAt(k, now)' = RefilledAt(k, now) - Unit
    BY <1>1, <1>5, <2>2, Taken
  <2>4. tokens'[k] = RefilledAt(k, now) - Unit /\ last'[k] = now
    BY <1>1, <1>2, <1>5 DEF Take
  <2>5. /\ admitted'[k] * Unit = admitted[k] * Unit + Unit
        /\ sinceFull'[k] * Unit = sinceFull[k] * Unit + Unit
    <3>1. admitted'[k] = admitted[k] + 1 /\ sinceFull'[k] = sinceFull[k] + 1
      BY <1>1, <1>2, <1>5
    <3>2. admitted[k] \in Nat /\ sinceFull[k] \in Nat /\ Unit \in Nat
      BY <1>2
    <3>3. QED
      BY <3>1, <3>2, OneMore
  <2>6. /\ admitted[k] * Unit \in Nat /\ sinceFull[k] * Unit \in Nat
        /\ Rate[k] * (now - mark[k]) \in Nat
        /\ Rate[k] * (now - full[k]) \in Nat
    BY <1>2, <2>1, OneMore, Product
  <2> DEFINE ofMark == Rate[k] * (now - mark[k])
             ofFull == Rate[k] * (now - full[k])
             taken  == admitted[k] * Unit
             kept   == sinceFull[k] * Unit
  <2>7. Level(k)'
    <3>1. taken + RefilledAt(k, now) <= Capacity(k) + ofMark
      BY DEF LevelsOf, Level
    <3>2. /\ admitted'[k] * Unit = taken + Unit /\ taken \in Nat
          /\ Rate[k] * (now' - mark'[k]) = ofMark /\ ofMark \in Nat
      BY <1>1, <2>5, <2>6
    <3> HIDE DEF ofMark, taken
    <3>3. (taken + Unit) + (RefilledAt(k, now) - Unit) <= Capacity(k) + ofMark
      BY <1>2, <2>1, <3>1, <3>2
    <3>4. QED
      BY <1>3, <2>3, <3>2, <3>3 DEF Level
  <2>8. Exact(k)'
    <3>1. kept + RefilledAt(k, now) >= Capacity(k) + ofFull
      BY DEF LevelsOf, Exact
    <3>2. /\ sinceFull'[k] * Unit = kept + Unit /\ kept \in Nat
          /\ Rate[k] * (now' - full'[k]) = ofFull /\ ofFull \in Nat
      BY <1>1, <2>5, <2>6
    <3> HIDE DEF ofFull, kept
    <3>3. (kept + Unit) + (RefilledAt(k, now) - Unit) >= Capacity(k) + ofFull
      BY <1>2, <2>1, <3>1, <3>2
    <3>4. QED
      BY <1>3, <2>3, <3>2, <3>3 DEF Exact
  <2>9. QED
    BY <1>1, <1>2, <1>3, <2>1, <2>2, <2>4, <2>7, <2>8 DEF LevelsOf
<1>6. QED
  BY <1>4, <1>5

LEMMA RefuseStep ==
  ASSUME TypeOK, NEW k \in Kind, LevelsOf(k), NEW j \in Kind, LevelsOf(j),
         Refuse(j)
  PROVE  LevelsOf(k)'
<1>1. /\ UNCHANGED <<now, mark, admitted, full, sinceFull>>
      /\ Take(j, RefilledAt(j, now))
  BY DEF Refuse
<1>2. /\ RefilledAt(j, now) \in Nat /\ RefilledAt(j, now) <= Capacity(j)
      /\ RefilledAt(k, now) \in Nat /\ RefilledAt(k, now) <= Capacity(k)
  BY Refill DEF LevelsOf
<1>3. Capacity(k)' = Capacity(k)
  BY DEF Capacity
<1>4. RefilledAt(k, now)' = RefilledAt(k, now)
  BY <1>1, <1>2, Taken
<1>5. tokens'[k] <= Capacity(k) /\ last'[k] <= now
  <2>1. tokens \in [Kind -> Nat] /\ last \in [Kind -> 0..MaxTime] /\ now \in Nat
    BY DEF TypeOK
  <2>2. QED
    BY <1>1, <1>2, <2>1 DEF Take, LevelsOf
<1>6. QED
  BY <1>1, <1>3, <1>4, <1>5 DEF LevelsOf, Level, Exact

LEMMA MarkStep ==
  ASSUME TypeOK, NEW k \in Kind, LevelsOf(k), NEW j \in Kind, Mark(j)
  PROVE  LevelsOf(k)'
<1>1. /\ UNCHANGED <<now, tokens, last, full, sinceFull>>
      /\ mark' = [mark EXCEPT ![j] = now]
      /\ admitted' = [admitted EXCEPT ![j] = 0]
  BY DEF Mark, bucketVars
<1>2. /\ mark \in [Kind -> 0..MaxTime] /\ admitted \in [Kind -> Nat]
      /\ now \in Nat /\ now \in Int /\ Rate[k] \in Nat /\ Capacity(k) \in Nat
      /\ Unit \in Nat
  BY Constants DEF TypeOK
<1>3. RefilledAt(k, now)' = RefilledAt(k, now) /\ Capacity(k)' = Capacity(k)
  BY <1>1 DEF RefilledAt, Capacity
<1>4. Exact(k)'
  BY <1>1, <1>3 DEF LevelsOf, Exact
<1>5. mark'[k] <= now' /\ Level(k)'
  <2>1. CASE j = k
    <3>1. mark'[k] = now /\ admitted'[k] = 0
      BY <1>1, <1>2, <2>1
    <3>2. admitted'[k] * Unit = 0 /\ Rate[k] * (now' - mark'[k]) = 0
      BY <1>1, <1>2, <3>1, OneMore
    <3>3. RefilledAt(k, now) \in Nat /\ RefilledAt(k, now) <= Capacity(k)
      BY Refill DEF LevelsOf
    <3>4. QED
      BY <1>1, <1>2, <1>3, <3>1, <3>2, <3>3 DEF Level
  <2>2. CASE j # k
    <3>1. mark'[k] = mark[k] /\ admitted'[k] = admitted[k]
      BY <1>1, <1>2, <2>2
    <3>2. QED
      BY <1>1, <1>3, <3>1 DEF LevelsOf, Level
  <2>3. QED
    BY <2>1, <2>2
<1>6. QED
  BY <1>1, <1>3, <1>4, <1>5 DEF LevelsOf

\* A fixed window that starts over is later than the interval's first
\* refusal, and the one after it is too late to matter.
LEMMA WindowsStep ==
  ASSUME TypeOK, Windows, Next
  PROVE  Windows'
<1>0. /\ now \in Nat /\ windowStart \in Nat /\ refusedMark \in Nat
      /\ overage \in Nat /\ refused \in Nat
      /\ OverageWindow \in Nat /\ OverageThreshold \in Nat \ {0}
  BY Constants DEF TypeOK
<1>1. CASE Tick
  BY <1>0, <1>1 DEF Tick, Windows, overageVars
<1>2. CASE MarkRefusals
  BY <1>0, <1>2 DEF MarkRefusals, Windows, overageVars
<1>3. ASSUME NEW k \in Kind, Mark(k) PROVE Windows'
  BY <1>0, <1>3 DEF Mark, Windows, overageVars
<1>4. ASSUME NEW k \in Kind, Admit(k) PROVE Windows'
  BY <1>0, <1>4 DEF Admit, Windows, overageVars
<1>5. ASSUME NEW k \in Kind, Refuse(k) PROVE Windows'
  <2>1. /\ open /\ now' = now /\ refusedMark' = refusedMark
        /\ RecordOverage /\ open' = (overage' < OverageThreshold)
        /\ refused' = refused + 1
    BY <1>5 DEF Refuse
  <2>2. open' => overage' < OverageThreshold
    BY <2>1
  <2>3. /\ windowStart <= now /\ refusedMark <= now
        /\ overage < OverageThreshold
        /\ \/ refused <= overage
           \/ /\ refusedMark <= windowStart
              /\ refused <= overage + OverageThreshold - 1
           \/ windowStart - refusedMark > OverageWindow
    BY <2>1 DEF Windows
  <2>4. /\ windowStart' <= now' /\ refusedMark' <= now'
        /\ \/ refused' <= overage'
           \/ /\ refusedMark' <= windowStart'
              /\ refused' <= overage' + OverageThreshold - 1
           \/ windowStart' - refusedMark' > OverageWindow
    <3>1. CASE now - windowStart > OverageWindow
      <4>1. windowStart' = now /\ overage' = 1
        BY <2>1, <3>1 DEF RecordOverage
      <4>2. QED
        BY <1>0, <2>1, <2>3, <3>1, <4>1
    <3>2. CASE ~(now - windowStart > OverageWindow)
      <4>1. windowStart' = windowStart /\ overage' = overage + 1
        BY <2>1, <3>2 DEF RecordOverage
      <4>2. QED
        BY <1>0, <2>1, <2>3, <4>1
    <3>3. QED
      BY <3>1, <3>2
  <2>5. QED
    BY <2>2, <2>4 DEF Windows
<1>6. QED
  BY <1>1, <1>2, <1>3, <1>4, <1>5 DEF Next

LEMMA StepIInv == IInv /\ [Next]_vars => IInv'
<1> SUFFICES ASSUME IInv, [Next]_vars PROVE IInv'
  OBVIOUS
<1>1. CASE UNCHANGED vars
  BY <1>1 DEF IInv, vars, bucketVars, overageVars, history, TypeOK, BucketInv,
       Level, Exact, RefilledAt, Capacity, Windows
<1>2. CASE Next
  <2>1. TypeOK /\ BucketInv /\ Windows /\ \A k \in Kind : LevelsOf(k)
    BY DEF IInv, BucketInv, LevelsOf
  <2>2. TypeOK' /\ Windows'
    BY <1>2, <2>1, TypeStep, WindowsStep
  <2>3. ASSUME NEW k \in Kind PROVE LevelsOf(k)'
    <3>1. CASE MarkRefusals
      BY <2>1, <3>1 DEF MarkRefusals, bucketVars, LevelsOf, Level, Exact,
           RefilledAt, Capacity
    <3>2. QED
      BY <1>2, <2>1, <3>1, TickStep, AdmitStep, RefuseStep, MarkStep DEF Next
  <2>4. QED
    BY <2>2, <2>3 DEF IInv, BucketInv, LevelsOf
<1>3. QED
  BY <1>1, <1>2

THEOREM Invariance == Spec => []IInv
BY InitIInv, StepIInv, PTL DEF Spec
-----------------------------------------------------------------------------
\* A bucket admits at most its burst and what its rate yields, over any
\* interval (TokenBucket::try_take).
THEOREM BucketsLimit == Spec => []AdmissionBound
<1>1. IInv => AdmissionBound
  <2> SUFFICES ASSUME IInv, NEW k \in Kind
               PROVE  admitted[k] * Unit
                        <= Capacity(k) + Rate[k] * (now - mark[k])
    BY DEF AdmissionBound
  <2>1. TypeOK /\ last[k] <= now /\ mark[k] <= now /\ Level(k)
    BY DEF IInv, BucketInv
  <2>2. RefilledAt(k, now) \in Nat
    BY <2>1, Refill
  <2>3. /\ now \in Nat /\ mark[k] \in Nat /\ admitted[k] \in Nat
        /\ Unit \in Nat /\ Rate[k] \in Nat /\ Capacity(k) \in Nat
    BY <2>1, Constants DEF TypeOK
  <2>4. admitted[k] * Unit \in Nat /\ Rate[k] * (now - mark[k]) \in Nat
    BY <2>1, <2>3, Product, OneMore
  <2> DEFINE ofMark == Rate[k] * (now - mark[k])
             taken  == admitted[k] * Unit
  <2>5. /\ taken + RefilledAt(k, now) <= Capacity(k) + ofMark
        /\ taken \in Nat /\ ofMark \in Nat
    BY <2>1, <2>4 DEF Level
  <2> HIDE DEF ofMark, taken
  <2>6. taken <= Capacity(k) + ofMark
    BY <2>2, <2>3, <2>5
  <2>7. QED
    BY <2>6 DEF taken, ofMark
<1>2. QED
  BY <1>1, Invariance, PTL

\* An interval as long as the window sees less than twice the threshold of
\* refusals while the connection is open (record_overage).
THEOREM RefusalsAreBounded == Spec => []RefusalBound
<1>1. IInv => RefusalBound
  <2> SUFFICES ASSUME IInv, open, now - refusedMark <= OverageWindow
               PROVE  refused <= 2 * (OverageThreshold - 1)
    BY DEF RefusalBound
  <2>1. /\ now \in Nat /\ windowStart \in Nat /\ refusedMark \in Nat
        /\ overage \in Nat /\ refused \in Nat
        /\ OverageWindow \in Nat /\ OverageThreshold \in Nat \ {0}
    BY Constants DEF IInv, TypeOK
  <2>2. QED
    BY <2>1 DEF IInv, Windows
<1>2. QED
  BY <1>1, Invariance, PTL

\* A message is refused only when the burst and the rate have been used up
\* since the bucket was last full (TokenBucket::try_take).
THEOREM RefusalsAreDue == Spec => RefusalIsDue
<1>1. ASSUME IInv, NEW k \in Kind, Refuse(k)
      PROVE  (sinceFull[k] + 1) * Unit
               > Capacity(k) + Rate[k] * (now - full[k])
  <2>1. TypeOK /\ last[k] <= now /\ full[k] <= now /\ Exact(k)
    BY <1>1 DEF IInv, BucketInv
  <2>2. RefilledAt(k, now) \in Nat
    BY <2>1, Refill
  <2>3. /\ now \in Nat /\ full[k] \in Nat /\ sinceFull[k] \in Nat
        /\ Unit \in Nat /\ Rate[k] \in Nat /\ Capacity(k) \in Nat
    BY <2>1, Constants DEF TypeOK
  <2>4. /\ (sinceFull[k] + 1) * Unit = sinceFull[k] * Unit + Unit
        /\ sinceFull[k] * Unit \in Nat
        /\ Rate[k] * (now - full[k]) \in Nat
    BY <2>1, <2>3, Product, OneMore
  <2>5. RefilledAt(k, now) < Unit
    BY <1>1, <2>2, <2>3 DEF Refuse, Enough
  <2> DEFINE ofFull == Rate[k] * (now - full[k])
             kept   == sinceFull[k] * Unit
  <2>6. /\ kept + RefilledAt(k, now) >= Capacity(k) + ofFull
        /\ kept \in Nat /\ ofFull \in Nat
    BY <2>1, <2>4 DEF Exact
  <2> HIDE DEF ofFull, kept
  <2>7. kept + Unit > Capacity(k) + ofFull
    BY <2>2, <2>3, <2>5, <2>6
  <2>8. QED
    BY <2>4, <2>7 DEF kept, ofFull
<1>2. IInv /\ [Next]_vars
        => [\A k \in Kind : Refuse(k) =>
              (sinceFull[k] + 1) * Unit
                > Capacity(k) + Rate[k] * (now - full[k])]_vars
  BY <1>1
<1>3. QED
  BY <1>2, Invariance, PTL DEF Spec, RefusalIsDue

\* A bucket refilled when it is asked (TokenBucket::try_take) goes through the
\* steps of one refilled at every tick.
THEOREM LazyIsEager == Spec => IsEager
<1> DEFINE lvl == [k \in Kind |-> RefilledAt(k, now)]
<1>1. Init => Eager!Init
  <2> SUFFICES ASSUME Init, NEW k \in Kind
               PROVE  RefilledAt(k, now) = Capacity(k)
    BY DEF Eager!Init, Eager!Full, Capacity
  <2>1. /\ tokens[k] = Capacity(k) /\ now = 0 /\ last[k] = 0
        /\ Rate[k] \in Nat /\ Capacity(k) \in Nat
    BY Constants DEF Init
  <2>2. Rate[k] * (now - last[k]) = 0
    BY <2>1
  <2>3. QED
    BY <2>1, <2>2 DEF RefilledAt
<1>2. ASSUME IInv, [Next]_vars PROVE [Eager!Next]_lvl
  <2>1. TypeOK /\ \A k \in Kind : last[k] <= now
    BY <1>2 DEF IInv, BucketInv
  <2>2. CASE Tick
    <3>1. ASSUME NEW k \in Kind
          PROVE  RefilledAt(k, now)' = Eager!Raised(k)
      <4>1. RefilledAt(k, now)' = RefilledAt(k, now + 1)
        BY <2>2 DEF Tick, bucketVars, RefilledAt, Capacity
      <4>2. /\ RefilledAt(k, now) \in Nat /\ RefilledAt(k, now + 1) \in Nat
            /\ RefilledAt(k, now + 1) <= Capacity(k)
            /\ RefilledAt(k, now + 1) <= RefilledAt(k, now) + Rate[k]
            /\ \/ RefilledAt(k, now + 1) = Capacity(k)
               \/ RefilledAt(k, now + 1) = RefilledAt(k, now) + Rate[k]
        BY <2>1, Refill
      <4>3. Rate[k] \in Nat /\ Capacity(k) \in Nat
        BY Constants
      <4>4. Eager!Raised(k)
              = IF RefilledAt(k, now) + Rate[k] < Capacity(k)
                THEN RefilledAt(k, now) + Rate[k] ELSE Capacity(k)
        BY DEF Eager!Raised, Eager!Full, Capacity
      <4>5. QED
        BY <4>1, <4>2, <4>3, <4>4
    <3>2. Eager!Drip
      BY <3>1 DEF Eager!Drip
    <3>3. QED
      BY <3>2 DEF Eager!Next
  <2>3. ASSUME NEW k \in Kind, Admit(k) PROVE Eager!Pay(k)
    <3> DEFINE n == RefilledAt(k, now)
    <3>1. n \in Nat /\ n <= Capacity(k) /\ Unit \in Nat
      BY <2>1, Refill, Constants
    <3>2. n >= Unit /\ Take(k, n - Unit) /\ now' = now
      BY <2>3 DEF Admit, Enough
    <3>3. n - Unit \in Nat /\ n - Unit <= Capacity(k)
      <4> HIDE DEF n
      <4>1. Capacity(k) \in Nat
        BY Constants
      <4>2. QED
        BY <3>1, <3>2, <4>1
    <3>4. /\ RefilledAt(k, now)' = n - Unit
          /\ \A j \in Kind \ {k} : RefilledAt(j, now)' = RefilledAt(j, now)
      <4> HIDE DEF n
      <4>1. QED
        BY <2>1, <3>2, <3>3, Taken
    <3>5. QED
      BY <3>2, <3>4 DEF Eager!Pay
  <2>4. ASSUME NEW k \in Kind, Refuse(k) PROVE UNCHANGED lvl
    <3> DEFINE n == RefilledAt(k, now)
    <3>1. n \in Nat /\ n <= Capacity(k)
      BY <2>1, Refill
    <3>2. Take(k, n) /\ now' = now
      BY <2>4 DEF Refuse
    <3>3. /\ RefilledAt(k, now)' = n
          /\ \A j \in Kind \ {k} : RefilledAt(j, now)' = RefilledAt(j, now)
      <4> HIDE DEF n
      <4>1. QED
        BY <2>1, <3>1, <3>2, Taken
    <3>4. QED
      BY <3>3
  <2>5. CASE MarkRefusals \/ (\E k \in Kind : Mark(k)) \/ UNCHANGED vars
    BY <2>5 DEF MarkRefusals, Mark, vars, bucketVars, RefilledAt, Capacity
  <2>6. QED
    BY <1>2, <2>2, <2>3, <2>4, <2>5 DEF Next, Eager!Next
<1>3. QED
  BY <1>1, <1>2, Invariance, PTL DEF Spec, IsEager, Eager!Spec
-----------------------------------------------------------------------------
(* The squad registry *)

LEMMA RegistryInit == SRInit => SRInv
BY LimitAssumption DEF SRInit, SRInv, SRTypeOK, Owned, Calls, Answers

\* A report and a cluster with MinOverlap players in common are of one group.
LEMMA SameGroup ==
  ASSUME SRInv, NEW s \in scanning, NEW c \in ClusterId, Eligible(s, c)
  PROVE  owner[c] = of[s]
<1>1. /\ of[s] \in Group /\ owner[c] \in Group
      /\ report[s] \subseteq of[s] /\ clusters[c].members \subseteq owner[c]
  BY DEF SRInv, Calls, Owned, Eligible
<1> DEFINE shared == report[s] \cap clusters[c].members
<1>2. shared \subseteq of[s] \cap owner[c]
  BY <1>1
<1>3. IsFiniteSet(of[s] \cap owner[c])
  BY <1>1, GroupAssumption, FS_Intersection
<1>4. /\ Cardinality(shared) <= Cardinality(of[s] \cap owner[c])
      /\ Cardinality(shared) \in Nat
      /\ Cardinality(of[s] \cap owner[c]) \in Nat
  BY <1>2, <1>3, FS_Subset, FS_CardinalityType
<1>5. Cardinality(shared) >= MinOverlap
  BY DEF Eligible, Overlap
<1>6. QED
  BY <1>1, <1>4, <1>5, GroupAssumption, LimitAssumption

LEMMA OverlapType ==
  ASSUME SRInv, NEW s \in scanning, NEW c \in ClusterId, clusters[c] # None
  PROVE  Overlap(s, c) \in Nat
<1>1. of[s] \in Group /\ report[s] \subseteq of[s]
  BY DEF SRInv, Calls
<1>2. IsFiniteSet(report[s] \cap clusters[c].members)
  BY <1>1, GroupAssumption, FS_Subset
<1>3. QED
  BY <1>2, FS_CardinalityType DEF Overlap

LEMMA ReportStep ==
  ASSUME SRInv, NEW s \in Session, NEW g \in Group, NEW r \in SUBSET g,
         Start(s, g, r)
  PROVE  SRInv'
<1>1. SRTypeOK'
  <2>1. r \in SUBSET UNION Group
    OBVIOUS
  <2>2. QED
    BY <2>1 DEF SRInv, SRTypeOK, Start
<1>2. Owned' /\ Calls' /\ Answers'
  BY NoneAssumption DEF SRInv, SRTypeOK, Owned, Calls, Answers, Start
<1>3. QED
  BY <1>1, <1>2 DEF SRInv

LEMMA VisitStep ==
  ASSUME SRInv, NEW s \in Session, NEW c \in ClusterId, Visit(s, c)
  PROVE  SRInv'
<1>1. s \in scanning
  BY DEF Visit
<1>2. CASE best' = best
  BY <1>2 DEF SRInv, SRTypeOK, Owned, Calls, Answers, Visit
<1>3. CASE best' # best
  <2>1. /\ Eligible(s, c)
        /\ best' = [best EXCEPT ![s] = [id |-> c, overlap |-> Overlap(s, c)]]
    BY <1>3 DEF Visit
  <2>2. owner[c] = of[s] /\ Overlap(s, c) \in Nat
    BY <1>1, <2>1, SameGroup, OverlapType DEF Eligible
  <2>3. [id |-> c, overlap |-> Overlap(s, c)] \in Best
    BY <2>2 DEF Best
  <2>4. SRTypeOK'
    BY <2>1, <2>3 DEF SRInv, SRTypeOK, Visit
  <2>5. Owned' /\ Answers'
    BY DEF SRInv, Owned, Answers, Visit
  <2>6. Calls'
    <3>1. /\ best \in [Session -> Best \cup {None}]
          /\ scanning \subseteq Session
      BY DEF SRInv, SRTypeOK
    <3>2. UNCHANGED <<scanning, report, of, owner>>
      BY DEF Visit
    <3>3. QED
      BY <2>1, <2>2, <3>1, <3>2 DEF SRInv, Calls
  <2>7. QED
    BY <2>4, <2>5, <2>6 DEF SRInv
<1>4. QED
  BY <1>2, <1>3

\* Storing a report in a cluster of its own group, old or new.
LEMMA StoreStep ==
  ASSUME SRInv, NEW s \in scanning, NEW c \in ClusterId, Store(s, c),
         owner' \in [ClusterId -> Group \cup {None}], owner'[c] = of[s],
         \A d \in ClusterId : owner[d] # None => owner'[d] = owner[d]
  PROVE  SRInv'
<1>0. /\ clusters \in [ClusterId -> Cluster \cup {None}]
      /\ answer \in [Session -> ClusterId \cup {None}]
      /\ best \in [Session -> Best \cup {None}]
      /\ scanning \subseteq Session
      /\ report[s] \in SUBSET UNION Group /\ started[s] \in Nat
      /\ of[s] \in Group /\ report[s] \subseteq of[s]
      /\ None \notin Group
  BY NoneAssumption DEF SRInv, SRTypeOK, Calls
<1>1. [members |-> report[s], seen |-> started[s]] \in Cluster
  BY <1>0 DEF Cluster
<1>2. SRTypeOK'
  BY <1>1 DEF SRInv, SRTypeOK, Store
<1>3. Owned'
  BY <1>0 DEF SRInv, Owned, Store
<1>4. Calls'
  <2>1. ASSUME NEW t \in scanning, best[t] # None
        PROVE  owner'[best[t].id] = of[t]
    <3>1. best[t].id \in ClusterId /\ owner[best[t].id] = of[t] /\ of[t] \in Group
      BY <1>0, <2>1 DEF SRInv, Calls, Best
    <3>2. QED
      BY <1>0, <3>1
  <2>2. QED
    BY <2>1 DEF SRInv, Calls, Store
<1>5. Answers'
  BY <1>0 DEF SRInv, Answers, Store
<1>6. QED
  BY <1>2, <1>3, <1>4, <1>5 DEF SRInv

LEMMA RegistryStep == SRInv /\ [SRNext]_SRvars => SRInv'
<1> SUFFICES ASSUME SRInv, [SRNext]_SRvars PROVE SRInv'
  OBVIOUS
<1>1. CASE UNCHANGED SRvars
  BY <1>1 DEF SRvars, callVars, SRInv, SRTypeOK, Owned, Calls, Answers
<1>2. CASE SRTick
  BY <1>2 DEF SRTick, callVars, SRInv, SRTypeOK, Owned, Calls, Answers
<1>3. ASSUME NEW s \in Session, Match(s) PROVE SRInv'
  <2>1. /\ s \in scanning /\ best[s] # None /\ Store(s, best[s].id)
        /\ owner' = owner
    BY <1>3 DEF Match, Found
  <2>2. /\ best[s].id \in ClusterId /\ owner[best[s].id] = of[s]
        /\ owner \in [ClusterId -> Group \cup {None}]
    BY <2>1 DEF SRInv, SRTypeOK, Best, Calls
  <2>3. QED
    BY <2>1, <2>2, StoreStep
<1>4. ASSUME NEW s \in Session, Mint(s) PROVE SRInv'
  <2>1. PICK c \in ClusterId \ Minted :
          Store(s, c) /\ owner' = [owner EXCEPT ![c] = of[s]]
    BY <1>4 DEF Mint
  <2>2. s \in scanning /\ owner[c] = None
    BY <1>4, <2>1 DEF Mint, Minted
  <2>3. /\ owner \in [ClusterId -> Group \cup {None}]
        /\ of[s] \in Group \cup {None}
    BY <1>4 DEF SRInv, SRTypeOK
  <2>4. QED
    BY <2>1, <2>2, <2>3, StoreStep
<1>5. CASE SweepCollect
  BY <1>5 DEF SweepCollect, callVars, SRInv, SRTypeOK, Owned, Calls, Answers
<1>6. ASSUME NEW c \in ClusterId, SweepRemove(c) PROVE SRInv'
  BY <1>6 DEF SweepRemove, callVars, SRInv, SRTypeOK, Owned, Calls, Answers
<1>7. QED
  BY <1>1, <1>2, <1>3, <1>4, <1>5, <1>6, ReportStep, VisitStep DEF SRNext

\* What reports and sweeps leave behind: every cluster lists members of the
\* group it was minted for, and a scan's best match is of the report's group.
THEOREM ClustersAreOwned == SRSpec => []SRInv
BY RegistryInit, RegistryStep, PTL DEF SRSpec

\* Two groups are never given one cluster, however reports and sweeps
\* interleave (identify, sweep).
THEOREM GroupsAreNotFused == SRSpec => []NoFusion
<1>1. SRInv => NoFusion
  BY DEF SRInv, Answers, NoFusion
<1>2. QED
  BY <1>1, RegistryInit, RegistryStep, PTL DEF SRSpec
-----------------------------------------------------------------------------
(* Session *)

LEMMA SessionBounds ==
  /\ IdleTimeout \in Nat /\ SweepInterval \in Nat /\ SweepInterval > 0
  /\ RequestTime \in Nat /\ RequestTime <= IdleTimeout /\ Nobody \notin Conn
  /\ Limit \in Nat /\ Limit = IdleTimeout + SweepInterval + 1
  /\ Never \in Nat /\ Never = RequestTime + 1
BY SessionAssumption DEF Limit, Never

LEMMA SessionInit == SeInit => SeInv
<1> SUFFICES ASSUME SeInit PROVE SeInv
  OBVIOUS
<1>1. SeTypeOK
  BY SessionBounds DEF SeInit, SeTypeOK
<1>2. Walking /\ \A c \in Conn : EachConn(c)
  BY SessionBounds DEF SeInit, Walking, EachConn, Registered, Unknown
<1>3. QED
  BY <1>1, <1>2 DEF SeInv

LEMMA SessionTypes == SeTypeOK /\ [SeNext]_Sevars => SeTypeOK'
<1> SUFFICES ASSUME SeTypeOK, [SeNext]_Sevars PROVE SeTypeOK'
  OBVIOUS
<1> USE SessionBounds DEF SeTypeOK, connVars, sweeperVars
<1>1. CASE SeTick
  <2>1. /\ \A t \in 0..Limit : Older(t, Limit) \in 0..Limit
        /\ \A t \in 0..Never : Older(t, Never) \in 0..Never
    BY DEF Older
  <2>2. /\ lastSeen' \in [Conn -> 0..Limit] /\ silent' \in [Conn -> 0..Limit]
        /\ spared' \in [Conn -> 0..Never]
    BY <1>1, <2>1 DEF SeTick
  <2>3. busy' \in [Conn -> 0..RequestTime]
    BY <1>1 DEF SeTick, Waits
  <2>4. QED
    BY <1>1, <2>2, <2>3 DEF SeTick
<1>2. CASE Sweeper
  <2>1. CASE StartWalk
    BY <2>1 DEF StartWalk, Registered
  <2>2. CASE Notify
    BY <2>2 DEF Notify
  <2>3. ASSUME NEW c \in Conn, Look(c) PROVE SeTypeOK'
    BY <2>3 DEF Look
  <2>4. QED
    BY <1>2, <2>1, <2>2, <2>3 DEF Sweeper
<1>3. ASSUME NEW c \in Conn, Task(c) PROVE SeTypeOK'
  <2>1. CASE Read(c)
    <3>1. wire[c] \in Frame
      BY <2>1 DEF Read
    <3>2. place' \in [Conn -> {"none", "loop", "handler", "kicked", "left", "gone"}]
      BY <2>1, <3>1 DEF Read, Frame
    <3>3. lastSeen' \in [Conn -> 0..Limit] /\ silent' \in [Conn -> 0..Limit]
      BY <2>1 DEF Read, Seen
    <3>4. QED
      BY <2>1, <3>2, <3>3 DEF Read
  <2>2. CASE Kick(c) \/ KickEnds(c)
    BY <2>2 DEF Kick, KickEnds
  <2>3. CASE Return(c)
    BY <2>3 DEF Return
  <2>4. CASE Unregister(c)
    BY <2>4 DEF Unregister
  <2>5. QED
    BY <1>3, <2>1, <2>2, <2>3, <2>4 DEF Task
<1>4. ASSUME NEW c \in Conn,
             Connect(c) \/ FallSilent(c) \/ \E f \in Frame : Send(c, f)
      PROVE  SeTypeOK'
  <2>1. CASE Connect(c)
    BY <2>1 DEF Connect
  <2>2. CASE FallSilent(c)
    BY <2>2 DEF FallSilent
  <2>3. ASSUME NEW f \in Frame, Send(c, f) PROVE SeTypeOK'
    BY <2>3 DEF Send
  <2>4. QED
    BY <1>4, <2>1, <2>2, <2>3
<1>5. CASE UNCHANGED Sevars
  BY <1>5 DEF Sevars
<1>6. QED
  BY <1>1, <1>2, <1>3, <1>4, <1>5 DEF SeNext

LEMMA SessionWalking == SeTypeOK /\ Walking /\ [SeNext]_Sevars => Walking'
<1> SUFFICES ASSUME SeTypeOK, Walking, [SeNext]_Sevars PROVE Walking'
  OBVIOUS
<1>1. CASE SeTick
  BY <1>1 DEF SeTick, Walking
<1>2. CASE Sweeper
  BY <1>2 DEF Sweeper, StartWalk, Look, Notify, Walking
<1>3. CASE UNCHANGED sweeperVars
  BY <1>3 DEF sweeperVars, Walking
<1>4. QED
  BY <1>1, <1>2, <1>3 DEF SeNext, Task, Kick, KickEnds, Read, Return, Unregister,
     Connect, FallSilent, Send, Sevars
-----------------------------------------------------------------------------
\* What a step can do to one connection.
LEMMA SessionEach ==
  ASSUME SeInv, [SeNext]_Sevars, NEW c \in Conn
  PROVE  EachConn(c)'
<1> DEFINE OfConn == <<place[c], lastSeen[c], busy[c], permit[c],
                       silent[c], spared[c]>>
<1>0. /\ SeTypeOK /\ Walking /\ EachConn(c)
      /\ lastSeen[c] \in Nat /\ silent[c] \in 0..Limit /\ spared[c] \in 0..Never
      /\ busy[c] \in 0..RequestTime /\ due \in 0..SweepInterval
      /\ place[c] \in {"none", "loop", "handler", "kicked", "left", "gone"}
      /\ permit[c] \in BOOLEAN
  BY SessionBounds DEF SeInv, SeTypeOK
<1>1. CASE SeTick
  <2>1. /\ place' = place /\ permit' = permit /\ walk' = walk /\ idle' = idle
        /\ walk = {} /\ idle = Nobody /\ due' = due - 1 /\ Waits(c)
        /\ Registered' = Registered
    BY <1>1 DEF SeTick, Registered
  <2>2. SUFFICES ASSUME c \in Registered PROVE (Clocks(c) /\ Swept(c) /\ Earned(c))'
    BY <1>0, <1>1, <2>1 DEF EachConn, Unknown, SeTick
  <2>3. /\ lastSeen'[c] = Older(lastSeen[c], Limit)
        /\ silent'[c] = Older(silent[c], Limit)
        /\ spared'[c] = IF silent'[c] > IdleTimeout THEN 0 ELSE Older(spared[c], Never)
        /\ busy'[c] = IF place[c] = "handler" THEN busy[c] + 1 ELSE busy[c]
    BY <1>1, <2>2 DEF SeTick
  <2>4. \/ place[c] = "loop" /\ ~permit[c]
        \/ place[c] = "handler" /\ busy[c] < RequestTime
    BY <2>1, <2>2 DEF Waits, Registered
  <2>5. Clocks(c) /\ Swept(c) /\ Earned(c)
    BY <1>0, <2>2 DEF EachConn
  <2>6. c # idle
    BY <2>1, SessionBounds
  <2>7. silent[c] <= IdleTimeout + SweepInterval
    BY <2>5 DEF Swept
  <2>8. silent'[c] = silent[c] + 1 /\ lastSeen'[c] = lastSeen[c] + 1
    BY <1>0, <2>3, <2>5, <2>7, SessionBounds DEF Older, Clocks
  <2>9. Clocks(c)'
    <3>1. /\ place'[c] = place[c] /\ busy[c] \in Nat /\ silent[c] \in Nat
          /\ Clocks(c)
      BY <1>0, <2>1, <2>5, SessionBounds
    <3>2. QED
      BY <2>3, <2>8, <3>1 DEF Clocks
  <2>10. Swept(c)'
    <3>1. /\ silent[c] \in Nat /\ due \in Nat /\ due' = due - 1 /\ c \notin walk
          /\ busy[c] \in Nat /\ silent'[c] = silent[c] + 1
      BY <1>0, <2>1, <2>8, SessionBounds
    <3>2. CASE place[c] = "loop" /\ ~permit[c]
      <4>1. silent[c] <= IdleTimeout + (SweepInterval - due)
        BY <2>5, <2>6, <3>1, <3>2 DEF Swept
      <4>2. due > 0 /\ due <= SweepInterval
        BY <1>0, <1>1, SessionBounds DEF SeTick
      <4>3. QED
        BY <3>1, <4>1, <4>2, SessionBounds DEF Swept
    <3>3. CASE place[c] = "handler" /\ busy[c] < RequestTime
      <4>1. silent[c] <= busy[c]
        BY <2>5, <3>3 DEF Clocks
      <4>2. place'[c] = "handler"
        BY <2>1, <3>3
      <4>3. QED
        BY <1>0, <3>1, <3>3, <4>1, <4>2, SessionBounds DEF Swept
    <3>4. QED
      BY <2>4, <3>2, <3>3
  <2>11. Earned(c)'
    BY <1>0, <2>1, <2>3, <2>4, <2>5, <2>6, <2>8, SessionBounds DEF Earned, Clocks, Older
  <2>12. QED
    BY <2>9, <2>10, <2>11
<1>2. CASE StartWalk
  <2>1. /\ walk' = Registered /\ due' = SweepInterval /\ idle' = idle
        /\ UNCHANGED <<place, lastSeen, busy, permit, silent, spared>>
    BY <1>2 DEF StartWalk, connVars
  <2>2. QED
    BY <1>0, <2>1, SessionBounds DEF EachConn, Registered, Clocks, Swept, Earned, Unknown
<1>3. ASSUME NEW d \in Conn, Look(d) PROVE EachConn(c)'
  <2>1. /\ walk' = walk \ {d} /\ idle = Nobody /\ d \in walk /\ due' = due
        /\ idle' = IF lastSeen[d] > IdleTimeout THEN d ELSE Nobody
        /\ UNCHANGED <<place, lastSeen, busy, permit, silent, spared>>
    BY <1>3 DEF Look, connVars, TooLong
  <2>2. due = SweepInterval
    BY <1>0, <2>1 DEF Walking
  <2>3. QED
    BY <1>0, <2>1, <2>2, SessionBounds DEF EachConn, Registered, Clocks, Swept, Earned, Unknown
<1>4. CASE Notify
  <2>1. /\ idle' = Nobody /\ idle \in Conn
        /\ permit' = [permit EXCEPT ![idle] = TRUE]
        /\ UNCHANGED <<place, lastSeen, busy, walk, due, silent, spared>>
    BY <1>0, <1>4 DEF Notify, SeTypeOK
  <2>2. CASE c = idle
    <3>1. permit'[c] = TRUE
      BY <1>0, <2>1, <2>2 DEF SeTypeOK
    <3>2. QED
      BY <1>0, <2>1, <2>2, <3>1, SessionBounds DEF EachConn, Registered, Clocks, Swept, Earned, Unknown
  <2>3. CASE c # idle
    <3>1. permit'[c] = permit[c]
      BY <1>0, <2>1, <2>3 DEF SeTypeOK
    <3>2. QED
      BY <1>0, <2>1, <2>3, <3>1, SessionBounds DEF EachConn, Registered, Clocks, Swept, Earned, Unknown
  <2>4. QED
    BY <2>2, <2>3
<1>5. CASE Task(c)
  <2> USE <1>0, SessionBounds DEF EachConn, Registered, Clocks, Swept, Earned, Unknown
  <2>1. CASE Kick(c)
    <3>1. /\ place[c] = "loop" /\ permit[c] /\ place'[c] = "kicked" /\ ~permit'[c]
          /\ UNCHANGED <<lastSeen, busy, walk, idle, due, silent, spared>>
      BY <2>1 DEF Kick, SeTypeOK, sweeperVars
    <3>2. QED
      BY <3>1
  <2>2. CASE KickEnds(c)
    <3>1. /\ place[c] = "kicked" /\ place'[c] = "left"
          /\ UNCHANGED <<lastSeen, busy, permit, walk, idle, due, silent, spared>>
      BY <2>2 DEF KickEnds, SeTypeOK, sweeperVars
    <3>2. QED
      BY <3>1
  <2>3. CASE Read(c)
    <3>1. /\ place[c] = "loop" /\ ~permit[c] /\ lastSeen'[c] = 0 /\ silent'[c] = 0
          /\ UNCHANGED <<busy, permit, walk, idle, due, spared>>
      BY <2>3 DEF Read, Seen, SeTypeOK, sweeperVars
    <3>2. place'[c] \in {"loop", "handler", "left"}
      BY <2>3 DEF Read, Frame, SeTypeOK
    <3>3. QED
      BY <3>1, <3>2
  <2>4. CASE Return(c)
    <3>1. /\ place[c] = "handler" /\ place'[c] = "loop" /\ busy'[c] = 0
          /\ UNCHANGED <<lastSeen, permit, walk, idle, due, silent, spared>>
      BY <2>4 DEF Return, SeTypeOK, sweeperVars
    <3>2. QED
      BY <3>1
  <2>5. CASE Unregister(c)
    <3>1. place'[c] = "gone"
      BY <2>5 DEF Unregister, SeTypeOK
    <3>2. QED
      BY <3>1
  <2>6. QED
    BY <1>5, <2>1, <2>2, <2>3, <2>4, <2>5 DEF Task
<1>6. CASE Connect(c)
  <2>1. /\ place[c] = "none" /\ place'[c] = "loop" /\ lastSeen'[c] = 0 /\ silent'[c] = 0
        /\ UNCHANGED <<busy, permit, walk, idle, due, spared>>
    BY <1>0, <1>6 DEF Connect, SeTypeOK, sweeperVars
  <2>2. QED
    BY <1>0, <2>1, SessionBounds DEF EachConn, Registered, Clocks, Swept, Earned, Unknown
<1>7. CASE OfConn' = OfConn /\ UNCHANGED sweeperVars
  <2>1. /\ place'[c] = place[c] /\ lastSeen'[c] = lastSeen[c] /\ busy'[c] = busy[c]
        /\ permit'[c] = permit[c] /\ silent'[c] = silent[c] /\ spared'[c] = spared[c]
        /\ walk' = walk /\ idle' = idle /\ due' = due
    BY <1>7 DEF sweeperVars
  <2>2. QED
    BY <1>0, <2>1 DEF EachConn, Registered, Clocks, Swept, Earned, Unknown
<1>8. ASSUME NEW d \in Conn, d # c, Task(d) \/ Connect(d)
      PROVE  OfConn' = OfConn /\ UNCHANGED sweeperVars
  <2> USE <1>0, <1>8 DEF SeTypeOK, sweeperVars
  <2>1. CASE Kick(d) \/ KickEnds(d)
    BY <2>1 DEF Kick, KickEnds
  <2>2. CASE Read(d)
    BY <2>2 DEF Read, Seen
  <2>3. CASE Return(d) \/ Unregister(d)
    BY <2>3 DEF Return, Unregister
  <2>4. CASE Connect(d)
    BY <2>4 DEF Connect
  <2>5. QED
    BY <1>8, <2>1, <2>2, <2>3, <2>4 DEF Task
<1>9. QED
  <2>1. ASSUME NEW d \in Conn,
               FallSilent(d) \/ \E f \in Frame : Send(d, f)
        PROVE  EachConn(c)'
    <3>1. /\ UNCHANGED <<place, lastSeen, busy, permit, silent, spared>>
          /\ UNCHANGED sweeperVars
      BY <2>1 DEF FallSilent, Send, sweeperVars
    <3>2. QED
      BY <3>1, <1>0 DEF sweeperVars, EachConn, Registered, Clocks, Swept, Earned, Unknown
  <2>2. CASE UNCHANGED Sevars
    BY <2>2, <1>7 DEF Sevars, connVars
  <2>3. QED
    BY <1>1, <1>2, <1>3, <1>4, <1>5, <1>6, <1>7, <1>8, <2>1, <2>2 DEF SeNext, Sweeper
-----------------------------------------------------------------------------
\* The bounds that the sweeper and the sessions keep together, in every state.
THEOREM SessionInvariance == SeSpec => []SeInv
<1>1. SeInit => SeInv
  BY SessionInit
<1>2. SeInv /\ [SeNext]_Sevars => SeInv'
  BY SessionTypes, SessionWalking, SessionEach DEF SeInv
<1>3. QED
  BY <1>1, <1>2, PTL DEF SeSpec

\* The sweeper (sweep_once) and the sessions' loops let no silence last longer
\* than the idle timeout and one sweep, however many connections there are.
THEOREM SilenceEnds == SeSpec => []DroppedInTime
<1>1. SeInv => DroppedInTime
  BY DEF SeInv, EachConn, Swept, DroppedInTime, Registered
<1>2. QED
  BY <1>1, SessionInvariance, PTL

\* The kick of handle_socket hits no connection that has been alive for longer
\* than one handler's await.
THEOREM KicksAreEarned == SeSpec => []KickIsEarned
<1>1. SeInv => KickIsEarned
  BY DEF SeInv, EachConn, Earned, KickIsEarned, Registered
<1>2. QED
  BY <1>1, SessionInvariance, PTL
=============================================================================
