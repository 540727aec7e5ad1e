---------------------------- MODULE AudioProofs ----------------------------
(***************************************************************************)
(* Proofs about the two ways of sound in the client: Playback, from the    *)
(* network to the loudspeaker, and Speaking, from the microphone to the    *)
(* network.                                                                *)
(***************************************************************************)
EXTENDS Playback, Speaking, WellFoundedInduction, TLAPS
-----------------------------------------------------------------------------
(* Playback: numbers *)

LEMMA Constants ==
  /\ Frame \in Nat /\ Frame > 0 /\ Ahead \in Nat /\ Ahead > 0 /\ Burst \in Nat /\ Burst > 0
  /\ Target \in Nat /\ Target > 0 /\ JitterMax \in Nat /\ JitterMax > 0
  /\ ChannelCap \in Nat /\ BufferCap \in Nat /\ BufferCap > 0 /\ InFlight \in Nat /\ InFlight > 0
  /\ Offset \in Nat /\ Offset < Frame /\ MaxSleep \in Nat /\ MaxSleep > 0 /\ MaxHold \in Nat
  /\ Far \in Nat /\ (Ahead + Burst) * Frame <= Far
  /\ Ahead <= Burst /\ MaxSleep + MaxHold < Ahead * Frame
  /\ Burst * (MaxHold + 1) <= ChannelCap /\ Ahead + Burst < BufferCap
  /\ Target - 1 + Burst <= JitterMax
<1>1. ASSUME NEW n \in {Frame, Ahead, Burst, Target, JitterMax, ChannelCap, BufferCap, InFlight}
      PROVE  n \in Nat /\ n > 0
  BY PlaybackAssumption
<1>2. Offset \in 0..(Frame - 1) /\ MaxSleep \in Nat /\ MaxSleep > 0 /\ MaxHold \in Nat
  BY PlaybackAssumption
<1>3. Far \in Nat
  BY PlaybackAssumption
<1>4. Frame \in Nat /\ Frame > 0 /\ Ahead \in Nat /\ Ahead > 0 /\ Burst \in Nat /\ Burst > 0
  BY <1>1
<1>5. Target \in Nat /\ Target > 0 /\ JitterMax \in Nat /\ JitterMax > 0
  BY <1>1
<1>6. ChannelCap \in Nat /\ BufferCap \in Nat /\ BufferCap > 0 /\ InFlight \in Nat /\ InFlight > 0
  BY <1>1
<1>7. Offset \in Nat /\ Offset < Frame
  BY <1>2, <1>4
<1>8. QED
  BY <1>2, <1>3, <1>4, <1>5, <1>6, <1>7, SizeAssumption

LEMMA Products ==
  /\ Ahead * Frame \in Nat /\ Burst * Frame \in Nat /\ Ahead * Frame <= Burst * Frame
  /\ Frame <= Ahead * Frame /\ Burst * Frame + Ahead * Frame + Frame <= BufferCap * Frame
  /\ (Ahead + Burst) * Frame = Ahead * Frame + Burst * Frame
  /\ Burst * Frame + Ahead * Frame <= Far /\ Far \in Nat
<1>1. Frame \in Nat /\ Ahead \in Nat /\ Burst \in Nat /\ BufferCap \in Nat /\ Ahead > 0 /\ Frame > 0
  BY Constants
<1>2. ASSUME NEW a \in Nat, NEW b \in Nat, a <= b PROVE a * Frame <= b * Frame /\ a * Frame \in Nat
  BY <1>1, <1>2
<1>3. Ahead <= Burst /\ Ahead + Burst + 1 <= BufferCap /\ 1 <= Ahead
  BY Constants
<1>4. Ahead * Frame <= Burst * Frame /\ Ahead * Frame \in Nat
  BY <1>1, <1>2, <1>3
<1>5. Burst * Frame \in Nat
  BY <1>1
<1>6. (Ahead + Burst + 1) * Frame <= BufferCap * Frame
  BY <1>1, <1>2, <1>3
<1>7. Frame <= Ahead * Frame
  BY <1>1, <1>2, <1>3
<1>8. (Ahead + Burst) * Frame = Ahead * Frame + Burst * Frame
  BY <1>1
<1>9. (Ahead + Burst + 1) * Frame = Ahead * Frame + Burst * Frame + Frame
  BY <1>1
<1>10. QED
  BY <1>4, <1>5, <1>6, <1>7, <1>8, <1>9, Constants

\* Min and Max of two numbers.
LEMMA MinOfTwo ==
  ASSUME NEW a \in Int, NEW b \in Int
  PROVE  Min({a, b}) = IF a <= b THEN a ELSE b
BY DEF Min

LEMMA MaxOfTwo ==
  ASSUME NEW a \in Int, NEW b \in Int
  PROVE  Max({a, b}) = IF a <= b THEN b ELSE a
BY DEF Max

\* Short of the lead, the loop of process() runs until its bound; with the lead and the
\* mixing clock ahead it does not run.
LEMMA DueShort ==
  ASSUME NEW next \in Int, NEW ahead \in Int, ahead < Ahead * Frame
  PROVE  Due(next, ahead) = Burst
<1>1. Burst \in Nat /\ Ahead * Frame \in Int
  BY Constants
<1>2. {k \in 0..Burst : k = Burst \/ (next + k * Frame > 0 /\ ahead >= Ahead * Frame)} = {Burst}
  BY <1>1
<1>3. QED
  BY <1>2, MinOfTwo, <1>1 DEF Due, Min

LEMMA DueAhead ==
  ASSUME NEW next \in Int, NEW ahead \in Int, ahead >= Ahead * Frame, next > 0
  PROVE  Due(next, ahead) = 0
<1> DEFINE S == {k \in 0..Burst : k = Burst \/ (next + k * Frame > 0 /\ ahead >= Ahead * Frame)}
<1>1. Burst \in Nat /\ Frame \in Nat /\ 0 * Frame = 0
  BY Constants
<1>2. 0 \in S /\ \A k \in S : k \in Nat
  BY <1>1
<1> HIDE DEF S
<1>3. Min(S) = 0
  BY <1>2 DEF Min
<1>4. QED
  BY <1>3 DEF Due, S

LEMMA PushedValue ==
  ASSUME NEW n \in 0..JitterMax
  PROVE  Pushed(n) = IF n = JitterMax THEN n ELSE n + 1
BY Constants, MinOfTwo DEF Pushed

\* The jitter buffer after any number of pops, and after a burst.
LEMMA PoppedValue ==
  ASSUME NEW n \in 0..JitterMax, NEW k \in Nat
  PROVE  /\ Popped(n, k) \in 0..n
         /\ k = Burst => Popped(n, k) <= JitterMax - Burst
<1>1. Min({n, Target - 1}) = IF n <= Target - 1 THEN n ELSE Target - 1
  BY Constants, MinOfTwo
<1>2. Min({n, Target - 1}) \in Int /\ n - k \in Int
  BY <1>1, Constants
<1> DEFINE m == Min({n, Target - 1})
<1>3. Popped(n, k) = IF m <= n - k THEN n - k ELSE m
  BY <1>2, MaxOfTwo DEF Popped
<1>4. m = IF n <= Target - 1 THEN n ELSE Target - 1
  BY <1>1
<1> HIDE DEF m
<1>5. QED
  BY <1>3, <1>4, Constants

LEMMA InitIInv == Init => IInv
<1> SUFFICES ASSUME Init PROVE IInv
  OBVIOUS
<1> USE DEF Init
<1>1. TypeOK
  <2>1. nextMix \in (-(Burst * Frame) - 1)..Far /\ lead \in -1..((Ahead + Burst) * Frame)
    BY Products
  <2>2. phase \in 0..(Frame - 1) /\ deafFor \in 0..(MaxSleep + MaxHold + 2)
    BY Constants
  <2>3. /\ active \in BOOLEAN /\ device \in {"none", "sender", "playing"} /\ deafened \in BOOLEAN
        /\ primed \in BOOLEAN /\ gap \in BOOLEAN /\ (device # "none" => active)
    OBVIOUS
  <2>4. /\ net \in 0..InFlight /\ jitter \in 0..JitterMax /\ asleep \in 0..MaxSleep
        /\ waited \in 0..MaxHold /\ lost \in 0..JitterMax /\ buffer \in 0..BufferCap
        /\ channel \in 0..ChannelCap /\ orphans \in Nat /\ escaped \in Nat
    BY Constants
  <2>5. QED
    BY <2>1, <2>2, <2>3, <2>4 DEF TypeOK
<1>2. NoGap /\ Silenced /\ Ebbing /\ Supplied /\ Paced
  BY DEF NoGap, Silenced, Ebbing, Supplied, Paced, Waiting
<1>3. Backlog
  BY Constants DEF Backlog, Turns
<1>4. Clocked
  BY Constants, Products DEF Clocked
<1>5. Fed
  BY Constants DEF Fed
<1>6. QED
  BY <1>1, <1>2, <1>3, <1>4, <1>5 DEF IInv
-----------------------------------------------------------------------------
(* Commands *)

LEMMA StartStep == ASSUME IInv, Start PROVE IInv'
<1> USE DEF Start, Started, ResetTiming, Others, output
<1>1. TypeOK'
  <2>1. nextMix' \in (-(Burst * Frame) - 1)..Far /\ lead' \in -1..((Ahead + Burst) * Frame)
    BY Products
  <2>2. /\ active' \in BOOLEAN /\ device' \in {"none", "sender", "playing"} /\ deafened' \in BOOLEAN
        /\ primed' \in BOOLEAN /\ gap' \in BOOLEAN /\ (device' # "none" => active')
    BY DEF IInv, TypeOK
  <2>3. lost' \in 0..JitterMax
    BY Constants
  <2>4. QED
    BY <2>1, <2>2, <2>3 DEF IInv, TypeOK
<1>2. NoGap' /\ Silenced'
  BY Constants DEF IInv, NoGap, Silenced, Waiting, TypeOK
<1>3. Backlog'
  BY DEF IInv, Backlog, Turns
<1>4. Clocked'
  BY Constants, Products DEF IInv, Clocked, TypeOK
<1>5. Ebbing'
  BY Constants DEF IInv, Ebbing, Silenced, TypeOK
<1>6. Supplied'
  BY Constants DEF IInv, Supplied, TypeOK
<1>7. Paced'
  BY Constants DEF IInv, Paced, Silenced, Waiting, TypeOK
<1>8. Fed'
  BY Constants DEF IInv, Fed, Silenced, TypeOK
<1>9. QED
  BY <1>1, <1>2, <1>3, <1>4, <1>5, <1>6, <1>7, <1>8 DEF IInv

LEMMA SinceRange == TypeOK => Since \in 0..(Frame - 1)
BY Constants DEF TypeOK, Since

LEMMA NotPositive ==
  ASSUME NEW n \in Int, n <= 0
  PROVE  n * Frame \in Int /\ n * Frame <= 0
<1>1. Frame \in Nat
  BY Constants
<1>2. n * Frame \in Int
  BY <1>1
<1>3. (-n) * Frame >= 0 /\ (-n) * Frame = -(n * Frame)
  BY <1>1
<1>4. QED
  BY <1>2, <1>3

LEMMA ResetType ==
  ASSUME ResetTiming
  PROVE  /\ nextMix' \in (-(Burst * Frame) - 1)..Far /\ lead' \in -1..((Ahead + Burst) * Frame)
         /\ lost' \in 0..JitterMax /\ primed' \in BOOLEAN
<1>1. nextMix' \in (-(Burst * Frame) - 1)..Far /\ lead' \in -1..((Ahead + Burst) * Frame)
  BY Products DEF ResetTiming
<1>2. lost' \in 0..JitterMax
  BY Constants DEF ResetTiming
<1>3. primed' \in BOOLEAN
  BY DEF ResetTiming
<1>4. QED
  BY <1>1, <1>2, <1>3

\* With the channel, and what was in it left behind, anything can be stopped.
LEMMA StopStep == ASSUME IInv, Stop PROVE IInv'
<1> USE DEF Stop, StopOutput, ClearBuffer, Others
<1>1. TypeOK'
  <2>1. /\ active' \in BOOLEAN /\ device' \in {"none", "sender", "playing"} /\ deafened' \in BOOLEAN
        /\ gap' \in BOOLEAN /\ (device' # "none" => active')
    BY DEF IInv, TypeOK
  <2>2. escaped' \in Nat /\ orphans' \in Nat
    BY DEF IInv, TypeOK
  <2>3. QED
    BY <2>1, <2>2, ResetType, Constants DEF IInv, TypeOK
<1> USE DEF ResetTiming
<1>2. NoGap' /\ Silenced'
  BY Constants DEF IInv, NoGap, Silenced, Waiting, TypeOK
<1>3. Backlog'
  <2>1. Turns' = Turns /\ Turns \in Nat
    BY Constants DEF IInv, Turns, TypeOK
  <2>2. Burst * Turns >= 0
    BY <2>1, Constants
  <2>3. QED
    BY <2>1, <2>2, Constants DEF Backlog
<1>4. Clocked'
  BY Constants, Products DEF IInv, Clocked, TypeOK
<1>5. Ebbing' /\ Supplied' /\ Paced' /\ Fed'
  BY DEF Ebbing, Supplied, Paced, Fed
<1>6. QED
  BY <1>1, <1>2, <1>3, <1>4, <1>5 DEF IInv

LEMMA SetOutputDeviceStep == ASSUME IInv, SetOutputDevice PROVE IInv'
<1> USE DEF SetOutputDevice, StopOutput, ClearBuffer, Others, Started
<1>1. TypeOK'
  <2>1. /\ active' \in BOOLEAN /\ device' \in {"none", "sender", "playing"} /\ deafened' \in BOOLEAN
        /\ gap' \in BOOLEAN /\ (device' # "none" => active')
    BY DEF IInv, TypeOK
  <2>2. escaped' \in Nat /\ orphans' \in Nat
    BY DEF IInv, TypeOK
  <2>3. QED
    BY <2>1, <2>2, ResetType, Constants DEF IInv, TypeOK
<1> USE DEF ResetTiming
<1>2. NoGap' /\ Silenced'
  BY Constants DEF IInv, NoGap, Silenced, Waiting, TypeOK
<1>3. Backlog'
  <2>1. Turns' = Turns /\ Turns \in Nat
    BY Constants DEF IInv, Turns, TypeOK
  <2>2. Burst * Turns >= 0
    BY <2>1, Constants
  <2>3. QED
    BY <2>1, <2>2, Constants DEF Backlog
<1>4. Clocked'
  BY Constants, Products DEF IInv, Clocked, TypeOK
<1>5. Ebbing'
  BY Constants DEF IInv, Ebbing, TypeOK
<1>6. Supplied' /\ Fed'
  BY Constants DEF Supplied, Fed
<1>7. Paced'
  BY Constants DEF IInv, TypeOK, Paced, Waiting
<1>8. QED
  BY <1>1, <1>2, <1>3, <1>4, <1>5, <1>6, <1>7 DEF IInv

LEMMA MoreFrames ==
  ASSUME NEW a \in Int, NEW b \in Int, a <= b
  PROVE  a * Frame \in Int /\ b * Frame \in Int /\ a * Frame <= b * Frame
<1>1. b = a + (b - a) /\ b - a \in Nat /\ Frame \in Nat
  BY Constants
<1>2. b * Frame = a * Frame + (b - a) * Frame /\ (b - a) * Frame \in Nat /\ a * Frame \in Int
  BY <1>1
<1>3. QED
  BY <1>2

LEMMA MoreTurns ==
  ASSUME NEW a \in Nat, NEW b \in Nat, a <= b
  PROVE  Burst * a \in Nat /\ Burst * b \in Nat /\ Burst * a <= Burst * b
<1>1. b = a + (b - a) /\ b - a \in Nat /\ Burst \in Nat
  BY Constants
<1>2. Burst * b = Burst * a + Burst * (b - a) /\ Burst * (b - a) \in Nat /\ Burst * a \in Nat
  BY <1>1
<1>3. QED
  BY <1>2

\* What a cleared buffer, with the clocks reset and the jitter buffer empty, keeps.
LEMMA Cleared ==
  ASSUME IInv, ResetTiming, ClearBuffer, jitter' = 0,
         UNCHANGED <<active, device, channel, orphans, net, phase, gap>>,
         deafened' \in BOOLEAN, asleep' \in {0, asleep}, waited' = waited,
         deafFor' \in 0..deafFor, deafened' => deafened \/ deafFor' = 0
  PROVE  IInv'
<1> USE DEF ClearBuffer
<1>0. waited \in Nat /\ asleep \in Nat /\ asleep' \in Nat /\ asleep' <= asleep
  BY DEF IInv, TypeOK
<1>1. TypeOK'
  <2>1. /\ active' \in BOOLEAN /\ device' \in {"none", "sender", "playing"} /\ deafened' \in BOOLEAN
        /\ gap' \in BOOLEAN /\ (device' # "none" => active')
    BY DEF IInv, TypeOK
  <2>2. escaped' \in Nat /\ orphans' \in Nat
    BY DEF IInv, TypeOK
  <2>3. QED
    BY <2>1, <2>2, ResetType, Constants DEF IInv, TypeOK
<1> USE DEF ResetTiming
<1>2. NoGap' /\ Silenced'
  BY Constants DEF IInv, NoGap, Silenced, Waiting, TypeOK
<1>3. Backlog'
  <2>1. Turns' \in Nat /\ Turns \in Nat /\ Turns <= Turns'
    BY <1>0 DEF Turns
  <2>2. Burst * Turns \in Nat /\ Burst * Turns' \in Nat /\ Burst * Turns <= Burst * Turns'
    BY <2>1, MoreTurns
  <2>3. channel \in Nat /\ channel <= Burst * Turns /\ (channel = 0 \/ channel >= Burst)
    BY DEF IInv, Backlog, TypeOK
  <2>4. QED
    BY <2>2, <2>3 DEF Backlog
<1>4. Clocked'
  <2>1. 0 < (Ahead + Burst) * Frame
    BY Products, Constants
  <2>2. CASE asleep' = 0
    BY <2>1, <2>2 DEF Clocked
  <2>3. CASE asleep' = asleep
    BY <1>0, <2>1, <2>3 DEF Clocked
  <2>4. QED
    BY <2>2, <2>3
<1>5. Ebbing'
  BY Constants DEF IInv, Ebbing, TypeOK
<1>6. Supplied'
  <2>1. channel * Frame >= 0
    BY Constants DEF IInv, TypeOK
  <2>2. QED
    BY <2>1 DEF Supplied
<1>7. Paced'
  BY Constants DEF IInv, TypeOK, Paced, Waiting
<1>8. Fed'
  <2>1. /\ net - InFlight \in Int /\ net - InFlight <= 0 /\ asleep' \in Nat /\ Since' = Since
    BY Constants DEF IInv, TypeOK, Since
  <2>2. Came' = net
    BY DEF Came, IInv, TypeOK
  <2>3. (net - InFlight) * Frame <= asleep' + Frame - 1 - Since
    BY <2>1, NotPositive, SinceRange, Constants DEF IInv
  <2>4. QED
    BY <2>1, <2>2, <2>3 DEF Fed
<1>9. QED
  BY <1>1, <1>2, <1>3, <1>4, <1>5, <1>6, <1>7, <1>8 DEF IInv

LEMMA ResetIncomingStep == ASSUME IInv, ResetIncoming PROVE IInv'
<1>1. /\ deafFor' \in 0..deafFor /\ asleep' \in {0, asleep} /\ deafened' \in BOOLEAN
  BY DEF IInv, TypeOK, ResetIncoming, Others, thread
<1>2. QED
  BY <1>1, Cleared DEF ResetIncoming, Others, thread

LEMMA SetDeafenedStep ==
  ASSUME IInv, NEW b \in BOOLEAN, SetDeafened(b)
  PROVE  IInv'
<1>1. CASE b
  <2>1. /\ deafFor' \in 0..deafFor /\ asleep' \in {0, asleep} /\ deafened' \in BOOLEAN
        /\ deafened' => deafened \/ deafFor' = 0
    BY <1>1 DEF IInv, TypeOK, SetDeafened, Others
  <2>2. QED
    BY <1>1, <2>1, Cleared DEF SetDeafened, Others, Deaf
<1>2. CASE ~b
  <2> USE <1>2 DEF SetDeafened, Others, output, clocks
  <2>1. TypeOK'
    BY Constants DEF IInv, TypeOK
  <2>2. NoGap' /\ Silenced'
    BY Constants DEF IInv, NoGap, Silenced, Waiting, TypeOK
  <2>3. Backlog' /\ Ebbing' /\ Supplied' /\ Fed' /\ Paced'
    BY DEF IInv, Backlog, Turns, Ebbing, Supplied, Supply, Fed, Since, Came, Paced, Waiting
  <2>4. Clocked'
    BY DEF IInv, Clocked
  <2>5. QED
    BY <2>1, <2>2, <2>3, <2>4 DEF IInv
<1>3. QED
  BY <1>1, <1>2
-----------------------------------------------------------------------------
(* The audio thread's turn *)

\* A turn of the thread that finds nothing to do.
LEMMA IdleTurn ==
  ASSUME IInv, asleep' = 0, UNCHANGED <<thread, net, phase, waited, gap, deafFor>>,
         UNCHANGED <<jitter, nextMix, lead, output, primed, lost, escaped>>,
         active => lead >= Ahead * Frame
  PROVE  IInv'
<1> USE DEF thread, output
<1>1. TypeOK'
  BY Constants DEF IInv, TypeOK
<1>2. NoGap' /\ Silenced'
  BY Constants DEF IInv, NoGap, Silenced, Waiting, TypeOK
<1>3. Backlog'
  <2>1. Turns \in Nat /\ Turns' \in Nat /\ Turns <= Turns'
    BY DEF IInv, TypeOK, Turns
  <2>2. Burst * Turns \in Nat /\ Burst * Turns' \in Nat /\ Burst * Turns <= Burst * Turns'
    BY <2>1, MoreTurns
  <2>3. channel \in Nat /\ channel <= Burst * Turns /\ (channel = 0 \/ channel >= Burst)
    BY DEF IInv, Backlog, TypeOK
  <2>4. QED
    BY <2>2, <2>3 DEF Backlog
<1>4. active => lead > 0
  BY Constants, Products DEF IInv, TypeOK
<1>5. Clocked'
  BY <1>4, Products DEF IInv, Clocked, TypeOK
<1>6. Ebbing'
  BY <1>4 DEF IInv, Ebbing, Clocked
<1>7. Supplied'
  <2>1. Supply' = Supply /\ Supply \in Int
    BY Constants DEF IInv, TypeOK, Supply
  <2>2. ASSUME device = "playing", primed, channel = 0
        PROVE  Ahead * Frame - 0 <= Supply
    <3>1. active /\ lead <= Supply + channel * Frame
      BY <2>2 DEF IInv, Supplied, TypeOK
    <3>2. channel * Frame = 0
      BY <2>2, Constants
    <3>3. QED
      BY <2>1, <3>1, <3>2, Products DEF IInv, TypeOK
  <2>3. QED
    BY <2>1, <2>2 DEF IInv, Supplied
<1>8. Paced'
  BY DEF IInv, Paced, Waiting
<1>9. Fed'
  <2>1. CASE active
    BY <1>4, <2>1 DEF IInv, Fed, Since, Came, TypeOK
  <2>2. CASE ~active
    BY <2>2 DEF IInv, Fed, Since, Came, Silenced, TypeOK
  <2>3. QED
    BY <2>1, <2>2
<1>10. QED
  BY <1>1, <1>2, <1>3, <1>5, <1>6, <1>7, <1>8, <1>9 DEF IInv

\* A burst: all of it goes into the channel, if there is one.
LEMMA BurstFits ==
  ASSUME IInv, asleep > 0, device # "none"
  PROVE  /\ Min({Burst, ChannelCap - channel}) = Burst
         /\ channel + Burst <= ChannelCap
         /\ channel + Burst <= Burst * (waited + 1)
<1>1. waited \in Nat /\ waited <= MaxHold /\ channel \in Nat /\ Turns = waited
  BY DEF IInv, TypeOK, Turns
<1>2. Burst * (waited + 1) \in Nat /\ Burst * (waited + 1) <= Burst * (MaxHold + 1)
  BY <1>1, Constants, MoreTurns
<1>3. Burst * (waited + 1) = Burst * waited + Burst /\ Burst * waited \in Nat
  BY <1>1, Constants
<1>4. channel <= Burst * waited
  BY <1>1 DEF IInv, Backlog
<1>5. channel + Burst <= Burst * (waited + 1) /\ Burst * (MaxHold + 1) \in Nat
  BY <1>1, <1>3, <1>4, Constants
<1>6. channel + Burst <= ChannelCap
  BY <1>1, <1>2, <1>5, Constants
<1>7. Burst <= ChannelCap - channel /\ ChannelCap - channel \in Int /\ Burst \in Int
  BY <1>1, <1>6, Constants
<1>8. QED
  BY <1>5, <1>6, <1>7, MinOfTwo

LEMMA ClampedClocks ==
  ASSUME IInv, active
  PROVE  /\ Max({nextMix, -(Burst * Frame)}) =
              IF nextMix <= -(Burst * Frame) THEN -(Burst * Frame) ELSE nextMix
         /\ Max({lead, 0}) = IF lead <= 0 THEN 0 ELSE lead
         /\ lead >= Ahead * Frame => Max({nextMix, -(Burst * Frame)}) = nextMix /\ nextMix > 0
<1>1. nextMix \in Int /\ lead \in Int /\ -(Burst * Frame) \in Int
  BY Products DEF IInv, TypeOK
<1>2. Max({nextMix, -(Burst * Frame)}) =
         IF nextMix <= -(Burst * Frame) THEN -(Burst * Frame) ELSE nextMix
  BY <1>1, MaxOfTwo
<1>3. Max({lead, 0}) = IF lead <= 0 THEN 0 ELSE lead
  BY <1>1, MaxOfTwo
<1>4. ASSUME lead >= Ahead * Frame PROVE nextMix > 0
  <2>1. lead > 0
    BY <1>1, <1>4, Products, Constants
  <2>2. lead - nextMix <= MaxSleep /\ MaxSleep < Ahead * Frame
    BY <2>1, Products, Constants DEF IInv, Clocked
  <2>3. QED
    BY <1>1, <1>4, <2>2, Products, Constants
<1>5. QED
  BY <1>1, <1>2, <1>3, <1>4, Products

\* Without an output, the burst goes nowhere.
LEMMA UnheardTurn ==
  ASSUME IInv, active, ~deafened, device = "none", asleep' = 0,
         UNCHANGED <<thread, net, phase, waited, gap, deafFor>>,
         UNCHANGED <<output, primed, escaped>>,
         jitter' \in 0..JitterMax, lost' = 0, lead' = 0,
         nextMix' \in (-(Burst * Frame) - 1)..Far
  PROVE  IInv'
<1> USE DEF thread, output
<1>1. TypeOK'
  <2>1. lead' \in -1..((Ahead + Burst) * Frame)
    BY Products
  <2>2. lost' \in 0..JitterMax /\ asleep' \in 0..MaxSleep
    BY Constants
  <2>3. QED
    BY <2>1, <2>2 DEF IInv, TypeOK
<1>2. NoGap' /\ Silenced'
  BY Constants DEF IInv, NoGap, Silenced, Waiting, TypeOK
<1>3. Backlog'
  <2>1. Turns \in Nat /\ Turns' \in Nat /\ Turns <= Turns'
    BY DEF IInv, TypeOK, Turns
  <2>2. Burst * Turns \in Nat /\ Burst * Turns' \in Nat /\ Burst * Turns <= Burst * Turns'
    BY <2>1, MoreTurns
  <2>3. channel \in Nat /\ channel <= Burst * Turns /\ (channel = 0 \/ channel >= Burst)
    BY DEF IInv, Backlog, TypeOK
  <2>4. QED
    BY <2>2, <2>3 DEF Backlog
<1>4. Clocked'
  BY Constants, Products DEF Clocked
<1>5. Ebbing' /\ Supplied' /\ Paced'
  BY DEF Ebbing, Supplied, Paced
<1>6. Fed'
  BY DEF IInv, Silenced, Fed, TypeOK
<1>7. QED
  BY <1>1, <1>2, <1>3, <1>4, <1>5, <1>6 DEF IInv

\* With an output, the clocks and the channel go on by a burst.
LEMMA HeardTurn ==
  ASSUME IInv, active, ~deafened, device # "none", lead < Ahead * Frame,
         asleep > 0, asleep' = 0,
         UNCHANGED <<thread, net, phase, waited, gap, deafFor>>,
         UNCHANGED <<orphans, buffer, primed, escaped>>,
         channel' = channel + Burst,
         jitter' \in 0..(JitterMax - Burst), lost' = 0,
         lead' = (IF lead <= 0 THEN 0 ELSE lead) + Burst * Frame,
         NEW next \in Int, nextMix <= next, nextMix' \in {next + Burst * Frame, Far},
         nextMix' \in (-(Burst * Frame) - 1)..Far
  PROVE  IInv'
<1> USE DEF thread
<1>1. /\ lead \in Int /\ lead' \in Int /\ nextMix \in Int /\ channel \in Nat
      /\ Burst \in Nat /\ Frame \in Nat /\ Burst * Frame \in Nat /\ Ahead * Frame \in Nat
      /\ waited \in Nat /\ asleep \in Nat /\ asleep <= MaxSleep /\ MaxSleep \in Nat
      /\ Burst > 0 /\ Frame > 0 /\ Burst * Frame > 0 /\ Ahead * Frame > 0 /\ Ahead * Frame <= Burst * Frame
  BY Constants, Products DEF IInv, TypeOK
<1>2. /\ Burst * Frame <= lead' /\ lead' < Ahead * Frame + Burst * Frame
      /\ lead > 0 => lead' = lead + Burst * Frame
      /\ lead <= 0 => lead' = Burst * Frame
  <2>1. CASE lead > 0
    BY <1>1, <2>1
  <2>2. CASE lead <= 0
    BY <1>1, <2>2
  <2>3. QED
    BY <1>1, <2>1, <2>2
<1>3. channel' \in 0..ChannelCap /\ channel' >= Burst /\ channel' <= Burst * (waited + 1)
  BY <1>1, BurstFits, Constants DEF IInv, TypeOK
<1>4. (channel + Burst) * Frame = channel * Frame + Burst * Frame /\ channel * Frame \in Nat
  BY <1>1
<1>5. TypeOK'
  <2>1. lead' \in -1..((Ahead + Burst) * Frame)
    <3>1. lead' <= Ahead * Frame + Burst * Frame /\ -1 <= lead'
      <4>1. CASE lead > 0
        BY <1>1, <4>1
      <4>2. CASE lead <= 0
        BY <1>1, <4>2
      <4>3. QED
        BY <1>1, <4>1, <4>2
    <3>2. QED
      BY <1>1, <3>1, Products
  <2>2. lost' \in 0..JitterMax /\ asleep' \in 0..MaxSleep
    BY Constants
  <2>3. \A n \in 0..(JitterMax - Burst) : n \in 0..JitterMax
    BY Constants
  <2>4. QED
    BY <1>3, <2>1, <2>2, <2>3 DEF IInv, TypeOK
<1>6. NoGap' /\ Silenced'
  BY <1>1 DEF IInv, NoGap, Silenced, TypeOK
<1>7. Backlog'
  <2>1. Turns' = waited + 1
    BY DEF Turns
  <2>2. QED
    BY <1>3, <2>1 DEF Backlog
<1>8. Clocked'
  <2>1. (Ahead + Burst) * Frame = Ahead * Frame + Burst * Frame
    BY Products
  <2>2. lead' - nextMix' <= MaxSleep
    <3>1. CASE nextMix' = Far
      BY <1>1, <1>2, <3>1, Products
    <3>2. CASE nextMix' = next + Burst * Frame /\ lead > 0
      BY <1>1, <1>2, <3>2 DEF IInv, Clocked
    <3>3. CASE nextMix' = next + Burst * Frame /\ lead <= 0
      BY <1>1, <1>2, <3>3 DEF IInv, Clocked
    <3>4. /\ nextMix' = Far \/ nextMix' = next + Burst * Frame
          /\ lead > 0 \/ lead <= 0
      BY <1>1
    <3>5. QED
      BY <3>1, <3>2, <3>3, <3>4
  <2>3. Ahead * Frame - 0 <= lead'
    BY <1>1, <1>2
  <2>4. lead' < (Ahead + Burst) * Frame /\ ~(lead' <= 0)
    BY <1>1, <1>2, <2>1
  <2>5. active' /\ ~deafened'
    OBVIOUS
  <2>6. QED
    BY <2>2, <2>3, <2>4, <2>5 DEF Clocked
<1>9. Ebbing'
  BY DEF Ebbing
<1>10. Supplied'
  <2>1. Supply' = Supply /\ Supply \in Int
    BY <1>1 DEF IInv, TypeOK, Supply
  <2>2. channel' * Frame = channel * Frame + Burst * Frame
    BY <1>4
  <2>3. ASSUME device = "playing", ~primed PROVE lead' <= channel' * Frame
    <3>1. lead <= channel * Frame
      BY <2>3 DEF IInv, Supplied
    <3>2. QED
      BY <1>1, <1>2, <1>4, <2>2, <3>1
  <2>4. ASSUME device = "playing", primed PROVE lead' <= Supply + channel' * Frame
    <3>1. lead <= Supply + channel * Frame /\ 0 <= Supply + channel * Frame
      <4>1. lead <= Supply + channel * Frame
        BY <2>4 DEF IInv, Supplied
      <4>2. channel = 0 => Ahead * Frame - asleep <= Supply
        BY <2>4 DEF IInv, Supplied
      <4>3. channel > 0 => lead > 0
        BY <2>4 DEF IInv, Supplied
      <4>4. asleep < Ahead * Frame
        BY <1>1, Constants
      <4>5. QED
        BY <1>1, <1>4, <2>1, <4>1, <4>2, <4>3, <4>4
    <3>2. QED
      BY <1>1, <1>2, <1>4, <2>1, <2>2, <3>1
  <2>5. ASSUME device = "playing", primed PROVE Ahead * Frame - MaxSleep - waited <= Supply
    <3>1. CASE channel = 0
      BY <1>1, <2>1, <2>5, <3>1 DEF IInv, Supplied
    <3>2. CASE channel > 0
      BY <2>5, <3>2 DEF IInv, Supplied
    <3>3. QED
      BY <1>1, <3>1, <3>2
  <2>6. lead' > 0 /\ channel' > 0
    BY <1>1, <1>2
  <2>7. QED
    BY <1>1, <2>1, <2>3, <2>4, <2>5, <2>6 DEF Supplied
<1>11. Paced'
  <2>1. SUFFICES ASSUME device = "playing" PROVE Paced'
    BY DEF Paced
  <2>2. /\ Waiting \in Nat /\ Waiting' = Waiting + Burst /\ escaped \in Nat /\ phase \in Nat
        /\ MaxHold \in Nat
    BY <1>1, Constants DEF IInv, TypeOK, Waiting
  <2>3. /\ Waiting' * Frame = Waiting * Frame + Burst * Frame
        /\ Waiting * Frame \in Nat /\ escaped * Frame \in Nat
    BY <1>1, <2>2
  <2>4. lead <= 0 => Waiting * Frame <= escaped * Frame
    BY <1>1, <2>1, <2>2, MoreFrames DEF IInv, Paced
  <2>5. lead > 0 /\ ~primed => Waiting * Frame <= lead + escaped * Frame + waited
    BY <2>1 DEF IInv, Paced
  <2>6. lead > 0 /\ primed => Waiting * Frame <= lead + phase + escaped * Frame + MaxHold
    BY <2>1 DEF IInv, Paced
  <2>7. ~primed => Waiting' * Frame <= lead' + escaped * Frame + waited
    BY <1>1, <1>2, <2>2, <2>3, <2>4, <2>5
  <2>8. primed => Waiting' * Frame <= lead' + phase + escaped * Frame + MaxHold
    BY <1>1, <1>2, <2>2, <2>3, <2>4, <2>6
  <2>9. lead' > 0 /\ channel' > 0
    BY <1>1, <1>2
  <2>10. QED
    BY <1>1, <2>7, <2>8, <2>9 DEF Paced
<1>12. Fed'
  <2>1. Since' = Since /\ Since \in 0..(Frame - 1)
    BY SinceRange DEF IInv, Since
  <2>2. Came' \in Int /\ Came' <= JitterMax - Burst + InFlight
    <3>1. \A n \in 0..(JitterMax - Burst), k \in 0..InFlight :
            n + 0 + k \in Int /\ n + 0 + k <= JitterMax - Burst + InFlight
      BY Constants
    <3>2. QED
      BY <3>1 DEF Came, IInv, TypeOK
  <2> DEFINE more == Came' - (JitterMax - Burst + InFlight)
  <2>3. more \in Int /\ more <= 0
    <3>1. \A c \in Int : c <= JitterMax - Burst + InFlight =>
            /\ c - (JitterMax - Burst + InFlight) \in Int
            /\ c - (JitterMax - Burst + InFlight) <= 0
      BY Constants
    <3>2. QED
      BY <2>2, <3>1
  <2> HIDE DEF more
  <2>4. 0 <= (Ahead + Burst) * Frame - 1 - lead' + Frame - 1 - Since
    BY <1>1, <1>2, <2>1, Products
  <2>5. more * Frame \in Int /\ more * Frame <= 0
    BY <2>3, NotPositive
  <2>6. lead' > 0
    BY <1>1, <1>2
  <2>7. (Ahead + Burst) * Frame \in Int
    BY Products, <1>1
  <2>8. QED
    BY <1>1, <2>1, <2>4, <2>5, <2>6, <2>7 DEF Fed, more
<1>13. QED
  BY <1>5, <1>6, <1>7, <1>8, <1>9, <1>10, <1>11, <1>12 DEF IInv

LEMMA RunStep == ASSUME IInv, Run PROVE IInv'
<1> DEFINE next == Max({nextMix, -(Burst * Frame)})
           ahead == Max({lead, 0})
<1>1. /\ asleep > 0 /\ asleep' = 0 /\ UNCHANGED <<thread, net, phase, waited, gap, deafFor>>
      /\ nextMix \in Int /\ lead \in Int /\ Burst * Frame \in Nat /\ Ahead * Frame \in Nat
      /\ Ahead * Frame > 0 /\ Burst > 0 /\ Burst \in Nat
  BY Products, Constants DEF Run, IInv, TypeOK
<1>2. CASE ~active
  BY <1>1, <1>2, IdleTurn DEF Run, clocks
<1>3. CASE active /\ lead >= Ahead * Frame
  <2>1. next = nextMix /\ nextMix > 0 /\ ahead = lead
    BY <1>1, <1>3, ClampedClocks
  <2>2. Due(nextMix, lead) = 0
    BY <1>1, <1>3, <2>1, DueAhead
  <2>3. UNCHANGED <<jitter, nextMix, lead, output, primed, lost, escaped>>
    BY <1>3, <2>1, <2>2 DEF Run, Process
  <2>4. QED
    BY <1>1, <1>3, <2>3, IdleTurn
<1>4. CASE active /\ lead < Ahead * Frame
  <2>1. /\ next = (IF nextMix <= -(Burst * Frame) THEN -(Burst * Frame) ELSE nextMix)
        /\ ahead = (IF lead <= 0 THEN 0 ELSE lead)
    BY <1>4, ClampedClocks
  <2> HIDE DEF next, ahead
  <2>2. next \in Int /\ ahead \in Int /\ nextMix <= next /\ -(Burst * Frame) <= next
    BY <1>1, <2>1
  <2>3. Due(next, ahead) = Burst
    BY <1>1, <1>4, <2>1, <2>2, DueShort
  <2>4. IF deafened THEN Deaf ELSE Mix(Burst, next, ahead)
    BY <1>1, <1>4, <2>3 DEF Run, Process, next, ahead
  <2>5. CASE deafened
    <3>1. /\ deafFor' \in 0..deafFor /\ asleep' \in {0, asleep} /\ deafened' \in BOOLEAN
          /\ (deafened' => deafened \/ deafFor' = 0)
      BY <1>1, <2>5 DEF IInv, TypeOK, thread
    <3>2. QED
      BY <1>1, <2>4, <2>5, <3>1, Cleared DEF Deaf, thread
  <2>6. CASE ~deafened
    <3>1. Mix(Burst, next, ahead)
      BY <2>4, <2>6
    <3>2. nextMix' \in {next + Burst * Frame, Far} /\ nextMix' \in (-(Burst * Frame) - 1)..Far
      <4>1. nextMix' = Min({next + Burst * Frame, Far}) /\ next + Burst * Frame \in Int
        BY <1>1, <2>2, <3>1 DEF Mix, Taken
      <4>2. nextMix' = IF next + Burst * Frame <= Far THEN next + Burst * Frame ELSE Far
        BY <4>1, MinOfTwo, Constants
      <4>3. CASE next + Burst * Frame <= Far
        BY <1>1, <2>2, <4>2, <4>3, Products
      <4>4. CASE ~(next + Burst * Frame <= Far)
        BY <1>1, <4>2, <4>4, Products
      <4>5. QED
        BY <4>3, <4>4
    <3>3. CASE device = "none"
      <4>1. Min({Burst, 0 + 1}) \in Nat
        BY <1>1, MinOfTwo
      <4>2. jitter' = Popped(jitter, Min({Burst, 0 + 1})) /\ channel' = channel + 0 /\ lead' = 0
        BY <1>1, <3>1, <3>3 DEF Mix, Taken
      <4>3. jitter' \in 0..JitterMax
        BY <4>1, <4>2, PoppedValue, Constants DEF IInv, TypeOK
      <4>4. channel' = channel
        BY <4>2 DEF IInv, TypeOK
      <4>5. QED
        BY <1>1, <1>4, <2>6, <3>1, <3>2, <3>3, <4>2, <4>3, <4>4, UnheardTurn
          DEF Mix, Taken, output
    <3>4. CASE device # "none"
      <4>1. Min({Burst, ChannelCap - channel}) = Burst
        BY <1>1, <3>4, BurstFits
      <4>2. Min({Burst, Burst + 1}) = Burst
        BY <1>1, MinOfTwo
      <4>3. /\ jitter' = Popped(jitter, Burst) /\ channel' = channel + Burst
            /\ lead' = ahead + Burst * Frame
        BY <3>1, <3>4, <4>1, <4>2 DEF Mix, Taken
      <4>4. jitter' \in 0..(JitterMax - Burst)
        BY <1>1, <4>3, PoppedValue, Constants DEF IInv, TypeOK
      <4>5. QED
        BY <1>1, <1>4, <2>1, <2>2, <2>6, <3>1, <3>2, <3>4, <4>3, <4>4, HeardTurn DEF Mix, Taken
    <3>5. QED
      BY <3>3, <3>4
  <2>7. QED
    BY <2>5, <2>6
<1>5. QED
  BY <1>1, <1>2, <1>3, <1>4
-----------------------------------------------------------------------------
(* The other threads, and time *)

LEMMA PushStep == ASSUME IInv, Push PROVE IInv'
<1> USE DEF Push, thread, clocks, output
<1>1. jitter' = IF jitter = JitterMax THEN jitter ELSE jitter + 1
  BY PushedValue DEF IInv, TypeOK
<1>2. lost \in 0..JitterMax /\ jitter \in 0..JitterMax /\ net \in 0..InFlight /\ JitterMax \in Nat
  BY Constants DEF IInv, TypeOK
<1>3. lost' = IF jitter = JitterMax /\ primed /\ device = "playing"
              THEN IF lost + 1 <= JitterMax THEN lost + 1 ELSE JitterMax
              ELSE lost
  <2>1. Min({lost + 1, JitterMax}) = IF lost + 1 <= JitterMax THEN lost + 1 ELSE JitterMax
    BY <1>2, MinOfTwo
  <2>2. QED
    BY <2>1
<1>4. /\ lost' \in 0..JitterMax /\ jitter' \in 0..JitterMax /\ net' \in 0..InFlight
      /\ jitter' + lost' + net' <= jitter + lost + net
      /\ lost' > 0 => jitter' = JitterMax
      /\ ~primed => lost' = 0
  <2>1. lost > 0 => jitter = JitterMax
    BY DEF IInv, Fed
  <2>2. ~primed => lost = 0
    BY DEF IInv, Fed
  <2>3. CASE jitter = JitterMax /\ primed /\ device = "playing"
    BY <1>1, <1>2, <1>3, <2>1, <2>2, <2>3, Constants
  <2>4. CASE ~(jitter = JitterMax /\ primed /\ device = "playing")
    BY <1>1, <1>2, <1>3, <2>1, <2>2, <2>4, Constants
  <2>5. QED
    BY <2>3, <2>4
<1>5. TypeOK'
  BY <1>4 DEF IInv, TypeOK
<1>6. NoGap' /\ Silenced' /\ Backlog' /\ Clocked' /\ Ebbing' /\ Supplied' /\ Paced'
  BY DEF IInv, NoGap, Silenced, Waiting, Backlog, Turns, Clocked, Ebbing, Supplied, Supply, Paced
<1>7. Fed'
  <2>1. /\ Since' = Since /\ Since \in Int /\ asleep \in Nat /\ lead \in Int
        /\ Frame \in Nat /\ (Ahead + Burst) * Frame \in Int
    BY SinceRange, Constants, Products DEF IInv, TypeOK, Since
  <2>2. Came \in Int /\ Came' \in Int /\ Came' <= Came
    BY <1>2, <1>4 DEF Came
  <2>3. ASSUME NEW a \in Int, NEW b \in Int, a <= b,
               NEW kept \in Int, NEW bound \in Int, (b - kept) * Frame <= bound
        PROVE  (a - kept) * Frame <= bound
    <3>1. a - kept \in Int /\ b - kept \in Int /\ a - kept <= b - kept
      BY <2>3
    <3>2. /\ (a - kept) * Frame <= (b - kept) * Frame
          /\ (a - kept) * Frame \in Int /\ (b - kept) * Frame \in Int
      BY <3>1, MoreFrames
    <3>3. QED
      BY <2>3, <3>2
  <2>4. InFlight \in Int /\ JitterMax - Burst + InFlight \in Int
    BY Constants
  <2>5. lead > 0 =>
          (Came' - (JitterMax - Burst + InFlight)) * Frame
            <= (Ahead + Burst) * Frame - 1 - lead + Frame - 1 - Since
    BY <2>1, <2>2, <2>3, <2>4 DEF IInv, Fed
  <2>6. lead <= 0 /\ (primed \/ channel > 0) =>
          (Came' - InFlight) * Frame <= asleep + Frame - 1 - Since
    <3>1. asleep + Frame - 1 - Since \in Int
      BY <2>1
    <3>2. lead <= 0 /\ (primed \/ channel > 0) =>
            (Came - InFlight) * Frame <= asleep + Frame - 1 - Since
      BY DEF IInv, Fed
    <3>3. QED
      BY <2>2, <2>3, <2>4, <3>1, <3>2
  <2>7. QED
    BY <1>4, <2>1, <2>5, <2>6 DEF Fed
<1>8. QED
  BY <1>5, <1>6, <1>7 DEF IInv

LEMMA DrainStep == ASSUME IInv, Drain PROVE IInv'
<1> USE DEF Drain, thread, clocks
<1>1. /\ buffer \in Nat /\ channel \in Nat /\ orphans \in Nat /\ escaped \in Nat /\ waited \in Nat
      /\ lead \in Int /\ phase \in Nat /\ phase <= Frame - 1 /\ asleep \in Nat /\ waited <= MaxHold
      /\ Frame \in Nat /\ MaxHold \in Nat /\ Ahead * Frame \in Nat /\ BufferCap \in Nat
      /\ buffer <= BufferCap
  BY Constants, Products DEF IInv, TypeOK
<1>2. buffer' = IF Waiting <= BufferCap THEN Waiting ELSE BufferCap
  <2>1. Waiting = buffer + channel + orphans /\ Waiting \in Nat
    BY <1>1 DEF Waiting
  <2>2. QED
    BY <1>1, <2>1, MinOfTwo
<1>3. /\ Waiting' = buffer' /\ Waiting \in Nat /\ buffer' \in 0..BufferCap /\ buffer' <= Waiting
  <2>1. Waiting \in Nat
    BY <1>1 DEF Waiting
  <2>2. buffer' \in 0..BufferCap /\ buffer' <= Waiting
    BY <1>1, <1>2, <2>1
  <2>3. \A n \in 0..BufferCap : 0 + 0 + n = n
    BY <1>1
  <2>4. QED
    BY <2>1, <2>2, <2>3 DEF Waiting
<1>4. TypeOK'
  <2>1. primed' \in BOOLEAN
    BY DEF IInv, TypeOK
  <2>2. 0 \in 0..ChannelCap /\ 0 \in 0..MaxHold
    BY Constants
  <2>3. QED
    BY <1>3, <2>1, <2>2 DEF IInv, TypeOK
<1>5. NoGap' /\ Silenced'
  <2>1. device = "none" => ~primed'
    BY DEF IInv, Silenced
  <2>2. ~active => Waiting' <= escaped
    BY <1>1, <1>2, <1>3 DEF IInv, Silenced
  <2>3. QED
    BY <2>1, <2>2 DEF IInv, NoGap, Silenced
<1>6. Backlog'
  <2>1. Turns' \in Nat
    BY <1>1 DEF Turns
  <2>2. Burst * Turns' \in Nat
    BY <2>1, MoreTurns
  <2>3. QED
    BY <2>2 DEF Backlog
<1>7. Clocked'
  BY DEF IInv, Clocked
<1>8. Ebbing'
  <2>1. deafened /\ active => deafFor <= MaxHold + asleep
    BY <1>1 DEF IInv, Ebbing, TypeOK
  <2>2. QED
    BY <2>1 DEF Ebbing
<1>9. Supplied'
  <2>1. SUFFICES ASSUME device = "playing" PROVE Supplied'
    BY DEF Supplied
  <2>2. /\ channel * Frame \in Nat /\ orphans * Frame \in Nat /\ buffer * Frame \in Nat
        /\ Waiting * Frame = channel * Frame + orphans * Frame + buffer * Frame
        /\ 0 * Frame = 0
    BY <1>1 DEF Waiting
  <2>3. /\ Supply \in Int /\ 0 <= Supply /\ Supply = buffer * Frame - phase + Frame - 1
    BY <1>1, <2>2 DEF Supply
  <2>4. ASSUME ~primed, channel = 0 PROVE lead <= 0
    BY <2>1, <2>2, <2>4 DEF IInv, Supplied
  <2>5. ASSUME primed \/ channel > 0
        PROVE  /\ lead <= Supply + channel * Frame
               /\ Ahead * Frame - asleep <= Supply + channel * Frame
    <3>1. CASE primed
      <4>1. lead <= Supply + channel * Frame
        BY <2>1, <3>1 DEF IInv, Supplied
      <4>2. CASE channel = 0
        BY <1>1, <2>1, <2>2, <2>3, <3>1, <4>1, <4>2 DEF IInv, Supplied
      <4>3. CASE channel > 0
        <5>1. lead > 0
          BY <2>1, <3>1, <4>3 DEF IInv, Supplied
        <5>2. Ahead * Frame - asleep <= lead
          BY <5>1 DEF IInv, Clocked
        <5>3. QED
          BY <1>1, <2>2, <2>3, <4>1, <5>2
      <4>4. QED
        BY <1>1, <4>1, <4>2, <4>3
    <3>2. CASE ~primed
      <4>1. lead <= channel * Frame
        BY <2>1, <3>2 DEF IInv, Supplied
      <4>2. Burst <= channel /\ Burst \in Nat
        BY <1>1, <2>5, <3>2, Constants DEF IInv, Backlog
      <4>3. Burst * Frame <= channel * Frame /\ Burst * Frame \in Int
        BY <1>1, <4>2, MoreFrames
      <4>4. QED
        BY <1>1, <2>2, <2>3, <4>1, <4>3, Products
    <3>3. QED
      BY <3>1, <3>2
  <2>6. ASSUME primed \/ channel > 0
        PROVE  lead <= Supply' + 0 * Frame /\ Ahead * Frame - asleep <= Supply'
    <3>1. CASE Waiting <= BufferCap
      <4>1. Supply' = Waiting * Frame - phase + Frame - 1
        BY <1>2, <3>1 DEF Supply
      <4>2. QED
        BY <1>1, <2>2, <2>3, <2>5, <2>6, <4>1
    <3>2. CASE ~(Waiting <= BufferCap)
      <4>1. Supply' = BufferCap * Frame - phase + Frame - 1
        BY <1>2, <3>2 DEF Supply
      <4>2. BufferCap * Frame \in Int
        BY <1>1
      <4>3. lead < Ahead * Frame + Burst * Frame
        BY <1>1, Products DEF IInv, Clocked
      <4>4. QED
        BY <1>1, <2>2, <4>1, <4>2, <4>3, Products
    <3>3. QED
      BY <3>1, <3>2
  <2>7. primed' => primed \/ channel > 0
    OBVIOUS
  <2>8. ~primed' => lead <= 0 * Frame
    <3>1. ~primed' => ~primed /\ ~(channel > 0)
      BY <2>1
    <3>2. ~(channel > 0) => channel = 0
      BY <1>1
    <3>3. lead <= 0 => lead <= 0 * Frame
      BY <2>2
    <3>4. QED
      BY <2>4, <3>1, <3>2, <3>3
  <2>9. lead' = lead /\ asleep' = asleep /\ channel' = 0 /\ ~(channel' > 0)
    BY <1>1
  <2> HIDE DEF Drain
  <2>10. QED
    BY <2>6, <2>7, <2>8, <2>9 DEF Supplied
<1>10. Paced'
  <2>1. SUFFICES ASSUME device = "playing" PROVE Paced'
    BY DEF Paced
  <2>2. /\ Waiting * Frame \in Int /\ Waiting' * Frame \in Int /\ Waiting' * Frame <= Waiting * Frame
        /\ escaped * Frame \in Nat
    <3>1. Waiting' \in Int /\ Waiting \in Int /\ Waiting' <= Waiting
      BY <1>1, <1>3
    <3>2. escaped * Frame \in Nat
      BY <1>1
    <3>3. QED
      BY <3>1, <3>2, MoreFrames
  <2>3. lead <= 0 => Waiting' <= escaped
    <3>1. lead <= 0 => Waiting <= escaped
      BY <2>1 DEF IInv, Paced
    <3>2. QED
      BY <1>1, <1>2, <1>3, <3>1
  <2>4. lead > 0 /\ ~primed => channel > 0
    BY <2>1 DEF IInv, Paced
  <2>5. lead > 0 => Waiting * Frame <= lead + phase + escaped * Frame + MaxHold
    <3>1. CASE primed
      BY <2>1, <3>1 DEF IInv, Paced
    <3>2. CASE ~primed
      <4>1. lead > 0 => Waiting * Frame <= lead + escaped * Frame + waited
        BY <2>1, <3>2 DEF IInv, Paced
      <4>2. QED
        BY <1>1, <2>2, <4>1
    <3>3. QED
      BY <3>1, <3>2
  <2>6. lead > 0 => Waiting' * Frame <= lead + phase + escaped * Frame + MaxHold
    BY <1>1, <2>2, <2>5
  <2>7. lead > 0 => primed'
    BY <1>1, <2>1, <2>4 DEF IInv, TypeOK
  <2>8. QED
    BY <2>1, <2>3, <2>6, <2>7 DEF Paced
<1>11. Fed'
  <2>1. primed' => primed \/ channel > 0
    OBVIOUS
  <2>2. primed => primed'
    OBVIOUS
  <2>3. Came' = Came /\ Since' = Since
    BY DEF Came, Since
  <2>4. QED
    BY <2>1, <2>2, <2>3 DEF IInv, Fed
<1>12. QED
  BY <1>4, <1>5, <1>6, <1>7, <1>8, <1>9, <1>10, <1>11 DEF IInv

\* The clock of the peer's frames starts anew when one is due.
LEMMA SinceTick ==
  ASSUME TypeOK, phase' = IF phase + 1 = Frame THEN 0 ELSE phase + 1
  PROVE  /\ phase' = Offset => Since' = 0 /\ Since = Frame - 1
         /\ phase' # Offset => Since' = Since + 1
<1>1. phase \in Nat /\ phase < Frame /\ Offset \in Nat /\ Offset < Frame /\ Frame \in Nat
  BY Constants DEF TypeOK
<1>2. CASE phase + 1 = Frame
  <2>1. phase' = 0 /\ Since = Frame - 1 - Offset
    BY <1>1, <1>2 DEF Since
  <2>2. CASE Offset = 0
    BY <1>1, <1>2, <2>1, <2>2 DEF Since
  <2>3. CASE Offset # 0
    <3>1. Since' = 0 - Offset + Frame
      BY <1>1, <2>1, <2>3 DEF Since
    <3>2. QED
      BY <1>1, <2>1, <2>3, <3>1
  <2>4. QED
    BY <2>2, <2>3
<1>3. CASE phase + 1 # Frame
  <2>1. phase' = phase + 1
    BY <1>3
  <2>2. CASE phase >= Offset
    BY <1>1, <2>1, <2>2 DEF Since
  <2>3. CASE phase + 1 = Offset
    BY <1>1, <2>1, <2>3 DEF Since
  <2>4. CASE phase + 1 < Offset
    BY <1>1, <2>1, <2>4 DEF Since
  <2>5. QED
    BY <1>1, <2>2, <2>3, <2>4
<1>4. QED
  BY <1>2, <1>3

\* Once it has had frames, the device finds one.
LEMMA DeviceFinds ==
  ASSUME IInv, asleep < MaxSleep, device = "playing", primed, phase + 1 = Frame
  PROVE  buffer > 0
<1>1. /\ buffer \in Nat /\ channel \in Nat /\ waited \in Nat /\ waited <= MaxHold /\ asleep \in Nat
      /\ Frame \in Nat /\ phase \in Nat /\ MaxSleep \in Nat /\ MaxHold \in Nat
      /\ MaxSleep + MaxHold < Ahead * Frame /\ Ahead * Frame \in Nat
  BY Constants, Products DEF IInv, TypeOK
<1>2. SUFFICES ASSUME buffer = 0 PROVE FALSE
  BY <1>1
<1>3. Supply = 0
  BY <1>1, <1>2 DEF Supply
<1>4. CASE channel = 0
  BY <1>1, <1>3, <1>4 DEF IInv, Supplied
<1>5. CASE channel > 0
  BY <1>1, <1>3, <1>5 DEF IInv, Supplied
<1>6. QED
  BY <1>1, <1>4, <1>5

\* A tick lets the clocks fall by one, down to where they no longer count.
LEMMA TickClocks ==
  ASSUME IInv, Tick
  PROVE  /\ lead' = IF lead <= 0 THEN -1 ELSE lead - 1
         /\ nextMix' = IF nextMix <= -(Burst * Frame) THEN -(Burst * Frame) - 1 ELSE nextMix - 1
         /\ deafened /\ active => deafFor' <= deafFor + 1
         /\ deafFor' \in 0..(MaxSleep + MaxHold + 2)
<1>1. /\ nextMix \in Int /\ lead \in Int /\ -(Burst * Frame) - 1 \in Int /\ Burst * Frame \in Nat
      /\ deafFor \in Nat /\ MaxSleep + MaxHold + 2 \in Nat /\ -1 <= lead
      /\ -(Burst * Frame) - 1 <= nextMix
  BY Products, Constants DEF IInv, TypeOK
<1>2. lead' = Max({lead - 1, -1}) /\ lead - 1 \in Int
  BY <1>1 DEF Tick
<1>3. lead' = IF lead - 1 <= -1 THEN -1 ELSE lead - 1
  BY <1>2, MaxOfTwo
<1>4. nextMix' = Max({nextMix - 1, -(Burst * Frame) - 1}) /\ nextMix - 1 \in Int
  BY <1>1 DEF Tick
<1>5. nextMix' = IF nextMix - 1 <= -(Burst * Frame) - 1 THEN -(Burst * Frame) - 1 ELSE nextMix - 1
  BY <1>1, <1>4, MaxOfTwo
<1>6. Min({deafFor + 1, MaxSleep + MaxHold + 2}) =
        IF deafFor + 1 <= MaxSleep + MaxHold + 2 THEN deafFor + 1 ELSE MaxSleep + MaxHold + 2
  BY <1>1, MinOfTwo
<1>7. CASE deafened /\ active
  <2>1. deafFor' = IF deafFor + 1 <= MaxSleep + MaxHold + 2 THEN deafFor + 1
                   ELSE MaxSleep + MaxHold + 2
    BY <1>6, <1>7 DEF Tick
  <2>2. CASE deafFor + 1 <= MaxSleep + MaxHold + 2
    BY <1>1, <1>3, <1>5, <2>1, <2>2
  <2>3. CASE ~(deafFor + 1 <= MaxSleep + MaxHold + 2)
    BY <1>1, <1>3, <1>5, <2>1, <2>3
  <2>4. QED
    BY <2>2, <2>3
<1>8. CASE ~(deafened /\ active)
  <2>1. deafFor' = 0
    BY <1>8 DEF Tick
  <2>2. QED
    BY <1>1, <1>3, <1>5, <1>8, <2>1
<1>9. QED
  BY <1>7, <1>8

\* What the device does with the buffer, which the bound on its supply survives.
LEMMA TickSupply ==
  ASSUME IInv, Tick
  PROVE  /\ buffer' \in 0..buffer
         /\ Supply \in Int /\ Supply' \in Int /\ Supply - 1 <= Supply' /\ 0 <= Supply'
         /\ phase' \in 0..(Frame - 1)
         /\ phase + 1 = Frame /\ device = "playing" => buffer' = IF buffer = 0 THEN 0 ELSE buffer - 1
         /\ ~(phase + 1 = Frame /\ device = "playing") => buffer' = buffer
<1>1. /\ buffer \in Nat /\ phase \in Nat /\ phase < Frame /\ Frame \in Nat /\ Frame > 0
      /\ phase' = IF phase + 1 = Frame THEN 0 ELSE phase + 1
  BY Constants DEF IInv, TypeOK, Tick
<1>2. phase' \in 0..(Frame - 1) /\ (phase' = 0 <=> phase + 1 = Frame)
  BY <1>1
<1>3. Max({buffer - 1, 0}) = IF buffer = 0 THEN 0 ELSE buffer - 1
  <2>1. Max({buffer - 1, 0}) = IF buffer - 1 <= 0 THEN 0 ELSE buffer - 1
    BY <1>1, MaxOfTwo
  <2>2. QED
    BY <1>1, <2>1
<1>4. Supply \in Int /\ Supply = buffer * Frame - phase + Frame - 1 /\ buffer * Frame \in Nat
  BY <1>1 DEF Supply
<1>5. CASE phase + 1 = Frame /\ device = "playing"
  <2>1. buffer' = (IF buffer = 0 THEN 0 ELSE buffer - 1) /\ phase' = 0
    BY <1>1, <1>2, <1>3, <1>5 DEF Tick
  <2>2. CASE buffer = 0
    <3>1. Supply' = Frame - 1 /\ Supply = 0
      BY <1>1, <1>4, <1>5, <2>1, <2>2 DEF Supply
    <3>2. QED
      BY <1>1, <1>2, <1>5, <2>1, <2>2, <3>1
  <2>3. CASE buffer # 0
    <3>1. /\ (buffer - 1) * Frame = buffer * Frame - Frame /\ (buffer - 1) * Frame \in Nat
      BY <1>1, <2>3
    <3>2. Supply' = buffer * Frame - Frame - 0 + Frame - 1
      BY <1>1, <2>1, <2>3, <3>1 DEF Supply
    <3>3. Supply = buffer * Frame
      BY <1>1, <1>4, <1>5
    <3>4. Supply' = Supply - 1 /\ Supply > 0
      BY <1>1, <1>4, <3>1, <3>2, <3>3
    <3>5. QED
      BY <1>1, <1>2, <1>4, <1>5, <2>1, <2>3, <3>4
  <2>4. QED
    BY <2>2, <2>3
<1>6. CASE ~(phase + 1 = Frame /\ device = "playing")
  <2>1. buffer' = buffer
    BY <1>2, <1>6 DEF Tick
  <2>2. CASE phase + 1 = Frame
    <3>1. phase' = 0
      BY <1>1, <2>2
    <3>2. Supply' = buffer * Frame - 0 + Frame - 1
      BY <2>1, <3>1 DEF Supply
    <3>3. QED
      BY <1>1, <1>2, <1>4, <1>6, <2>1, <2>2, <3>2
  <2>3. CASE phase + 1 # Frame
    <3>1. Supply' = buffer * Frame - (phase + 1) + Frame - 1
      BY <1>1, <2>1, <2>3 DEF Supply
    <3>2. QED
      BY <1>1, <1>2, <1>4, <1>6, <2>1, <2>3, <3>1
  <2>4. QED
    BY <2>2, <2>3
<1>7. QED
  BY <1>5, <1>6

LEMMA TickStep == ASSUME IInv, Tick PROVE IInv'
<1>1. /\ UNCHANGED <<active, device, deafened, jitter, channel, orphans, primed, lost, escaped>>
      /\ asleep < MaxSleep /\ asleep' = asleep + 1
      /\ channel + orphans > 0 => waited < MaxHold
      /\ waited' = (IF channel + orphans > 0 THEN waited + 1 ELSE 0)
      /\ phase' = (IF phase + 1 = Frame THEN 0 ELSE phase + 1)
      /\ IF phase' = Offset THEN net < InFlight /\ net' \in {net, net + 1} ELSE net' = net
  BY DEF Tick, thread
<1>2. /\ lead \in Int /\ -1 <= lead /\ nextMix \in Int /\ asleep \in Nat /\ waited \in Nat
      /\ channel \in Nat /\ orphans \in Nat /\ buffer \in Nat /\ escaped \in Nat
      /\ phase \in Nat /\ phase < Frame /\ net \in 0..InFlight
      /\ Frame \in Nat /\ Frame > 0 /\ MaxSleep \in Nat /\ MaxHold \in Nat /\ waited <= MaxHold
      /\ Ahead * Frame \in Nat /\ Burst * Frame \in Nat
      /\ MaxSleep + MaxHold < Ahead * Frame
  BY Constants, Products DEF IInv, TypeOK
<1>3. /\ lead' = (IF lead <= 0 THEN -1 ELSE lead - 1)
      /\ nextMix' = IF nextMix <= -(Burst * Frame) THEN -(Burst * Frame) - 1 ELSE nextMix - 1
  BY TickClocks
\* A lead that there is lasts until the thread's next turn.
<1>4. /\ lead > 0 => lead' = lead - 1 /\ lead' > 0 /\ active /\ ~deafened
      /\ lead <= 0 => lead' = -1
  <2>1. lead > 0 => Ahead * Frame - asleep <= lead /\ active /\ ~deafened
    BY DEF IInv, Clocked
  <2>2. QED
    BY <1>1, <1>2, <1>3, <2>1
<1>5. TypeOK'
  <2>1. lead' \in -1..((Ahead + Burst) * Frame) /\ nextMix' \in (-(Burst * Frame) - 1)..Far
    <3>1. lead <= Ahead * Frame + Burst * Frame /\ nextMix <= Far /\ Far \in Int
          /\ -(Burst * Frame) - 1 <= nextMix
      BY Products DEF IInv, TypeOK
    <3>2. CASE lead <= 0
      BY <1>2, <1>3, <3>1, <3>2, Products
    <3>3. CASE lead > 0
      BY <1>2, <1>3, <3>1, <3>3, Products
    <3>4. QED
      BY <1>2, <3>2, <3>3
  <2>2. asleep' \in 0..MaxSleep /\ waited' \in 0..MaxHold /\ net' \in 0..InFlight
    BY <1>1, <1>2, Constants
  <2>3. deafFor' \in 0..(MaxSleep + MaxHold + 2)
    BY TickClocks
  <2>4. phase' \in 0..(Frame - 1) /\ buffer' \in 0..BufferCap
    <3>1. \A n \in 0..buffer : n \in 0..BufferCap
      BY Constants DEF IInv, TypeOK
    <3>2. QED
      BY <3>1, TickSupply
  <2>5. gap' \in BOOLEAN
    BY DEF Tick, IInv, TypeOK
  <2>6. QED
    BY <1>1, <2>1, <2>2, <2>3, <2>4, <2>5 DEF IInv, TypeOK
<1>6. NoGap'
  <2>1. CASE phase' = 0 /\ device = "playing"
    <3>1. phase + 1 = Frame
      BY <1>1, <1>2, <2>1
    <3>2. primed => buffer > 0
      BY <1>1, <2>1, <3>1, DeviceFinds
    <3>3. gap' = (gap \/ (primed /\ buffer = 0))
      BY <2>1 DEF Tick
    <3>4. gap = FALSE /\ ~(primed /\ buffer = 0)
      BY <1>2, <3>2 DEF IInv, NoGap, TypeOK
    <3>5. QED
      BY <3>3, <3>4, Zenon DEF NoGap
  <2>2. CASE ~(phase' = 0 /\ device = "playing")
    BY <2>2 DEF Tick, IInv, NoGap
  <2>3. QED
    BY <2>1, <2>2
<1>7. Waiting \in Nat /\ Waiting' \in Nat /\ Waiting' <= Waiting
  <2>1. \A n \in 0..buffer : channel + orphans + n \in Nat
                             /\ channel + orphans + n <= channel + orphans + buffer
    BY <1>2
  <2>2. channel + orphans + buffer \in Nat
    BY <1>2
  <2>3. QED
    BY <1>1, <2>1, <2>2, TickSupply DEF Waiting
<1>8. Silenced'
  <2>1. device = "none" => lead' <= 0
    BY <1>2, <1>4 DEF IInv, Silenced
  <2>2. ~active => deafFor' = 0
    BY DEF Tick
  <2>3. ~active => Waiting' <= escaped
    <3>1. \A n \in Nat : n <= Waiting /\ Waiting <= escaped => n <= escaped
      BY <1>2, <1>7
    <3>2. QED
      BY <1>7, <3>1 DEF IInv, Silenced
  <2>4. QED
    BY <1>1, <2>1, <2>2, <2>3 DEF IInv, Silenced
<1>9. Backlog'
  <2>1. channel <= Burst * Turns /\ (channel = 0 \/ channel >= Burst)
    BY DEF IInv, Backlog
  <2>2. CASE channel + orphans > 0
    <3>1. Turns' = waited + 1 /\ Turns \in Nat /\ Turns <= waited + 1
      <4>1. asleep' # 0
        BY <1>1, <1>2
      <4>2. Turns' = waited + 1 + 0
        BY <1>1, <2>2, <4>1 DEF Turns
      <4>3. QED
        BY <1>2, <4>2 DEF Turns
    <3>2. Burst * Turns <= Burst * (waited + 1) /\ Burst * Turns \in Nat /\ Burst * (waited + 1) \in Nat
      BY <1>2, <3>1, MoreTurns
    <3>3. channel <= Burst * (waited + 1)
      BY <1>2, <2>1, <3>2
    <3>4. QED
      BY <1>1, <2>1, <3>1, <3>3 DEF Backlog
  <2>3. CASE ~(channel + orphans > 0)
    <3>1. channel = 0 /\ asleep' # 0
      BY <1>1, <1>2, <2>3
    <3>2. Turns' = 0 + 0
      BY <1>1, <2>3, <3>1 DEF Turns
    <3>3. Burst * 0 = 0
      BY Constants
    <3>4. QED
      BY <1>1, <3>1, <3>2, <3>3 DEF Backlog
  <2>4. QED
    BY <2>2, <2>3
<1>10. Clocked'
  <2>1. CASE lead > 0
    <3>1. /\ lead < (Ahead + Burst) * Frame /\ active /\ ~deafened
          /\ Ahead * Frame - asleep <= lead /\ lead - nextMix <= MaxSleep
      BY <2>1 DEF IInv, Clocked
    <3>2. (Ahead + Burst) * Frame \in Int
      BY <1>2, Products
    <3>3. lead - 1 < (Ahead + Burst) * Frame /\ Ahead * Frame - (asleep + 1) <= lead - 1
      BY <1>2, <3>1, <3>2
    <3>4. lead - 1 - nextMix' <= MaxSleep
      BY <1>2, <1>3, <3>1
    <3>5. ~(lead - 1 <= 0) /\ lead' = lead - 1
      BY <1>2, <1>4, <2>1
    <3>6. QED
      BY <1>1, <3>1, <3>3, <3>4, <3>5 DEF Clocked
  <2>2. CASE lead <= 0
    <3>1. lead' = -1 /\ -1 < (Ahead + Burst) * Frame /\ ~(-1 > 0)
      BY <1>2, <1>4, <2>2, Products
    <3>2. device # "none" => 0 <= nextMix + asleep
      BY <2>2 DEF IInv, Clocked
    <3>3. device # "none" => 0 <= nextMix' + (asleep + 1)
      BY <1>1, <1>2, <1>3, <3>2
    <3>4. QED
      BY <1>1, <3>1, <3>3 DEF Clocked
  <2>3. QED
    BY <1>2, <2>1, <2>2
<1>11. Ebbing'
  <2>1. SUFFICES ASSUME deafened, active
                 PROVE  /\ channel + orphans > 0 => deafFor' <= waited'
                        /\ buffer' > 0 => deafFor' <= MaxHold + asleep'
    BY <1>1 DEF Ebbing
  <2>2. deafFor \in Nat /\ deafFor' \in Nat /\ deafFor' <= deafFor + 1
    BY <2>1, TickClocks, Constants DEF IInv, TypeOK
  <2>3. /\ channel + orphans > 0 => deafFor <= waited
        /\ buffer > 0 => deafFor <= MaxHold + asleep
    BY <2>1 DEF IInv, Ebbing
  <2>4. channel + orphans > 0 => deafFor' <= waited + 1
    <3>1. \A n \in Nat : n <= deafFor + 1 /\ deafFor <= waited => n <= waited + 1
      BY <1>2, <2>2
    <3>2. QED
      BY <2>2, <2>3, <3>1
  <2>5. buffer' > 0 => deafFor' <= MaxHold + (asleep + 1)
    <3>1. \A n \in Nat : n <= deafFor + 1 /\ deafFor <= MaxHold + asleep => n <= MaxHold + (asleep + 1)
      BY <1>2, <2>2
    <3>2. \A n \in 0..buffer : n > 0 => buffer > 0
      BY <1>2
    <3>3. buffer' \in 0..buffer
      BY TickSupply
    <3>4. QED
      BY <2>2, <2>3, <3>1, <3>2, <3>3
  <2>6. QED
    BY <1>1, <2>4, <2>5
<1>12. Supplied'
  <2>1. SUFFICES ASSUME device = "playing"
                 PROVE  /\ ~primed => lead' <= channel * Frame
                        /\ primed => lead' <= Supply' + channel * Frame
                        /\ primed /\ channel = 0 => Ahead * Frame - asleep' <= Supply'
                        /\ primed /\ channel > 0 =>
                             lead' > 0 /\ Ahead * Frame - MaxSleep - waited' <= Supply'
    BY <1>1 DEF Supplied
  <2>2. /\ ~primed => lead <= channel * Frame
        /\ primed => lead <= Supply + channel * Frame
        /\ primed /\ channel = 0 => Ahead * Frame - asleep <= Supply
        /\ primed /\ channel > 0 => lead > 0 /\ Ahead * Frame - MaxSleep - waited <= Supply
    BY <2>1 DEF IInv, Supplied
  <2>3. Supply \in Int /\ Supply' \in Int /\ Supply - 1 <= Supply' /\ 0 <= Supply'
    BY TickSupply
  <2>4. channel * Frame \in Nat
    BY <1>2
  <2>5. ~primed => lead' <= channel * Frame
    BY <1>2, <1>4, <2>2, <2>4
  <2>6. primed => lead' <= Supply' + channel * Frame
    <3>1. \A s \in Int : Supply - 1 <= s /\ 0 <= s /\ lead <= Supply + channel * Frame
                           => lead - 1 <= s + channel * Frame /\ -1 <= s + channel * Frame
      BY <1>2, <2>3, <2>4
    <3>2. QED
      BY <1>2, <1>4, <2>2, <2>3, <3>1
  <2>7. primed /\ channel = 0 => Ahead * Frame - (asleep + 1) <= Supply'
    <3>1. \A s \in Int : Supply - 1 <= s /\ Ahead * Frame - asleep <= Supply
                           => Ahead * Frame - (asleep + 1) <= s
      BY <1>2, <2>3
    <3>2. QED
      BY <2>2, <2>3, <3>1
  <2>8. primed /\ channel > 0 => Ahead * Frame - MaxSleep - (waited + 1) <= Supply'
    <3>1. \A s \in Int : Supply - 1 <= s /\ Ahead * Frame - MaxSleep - waited <= Supply
                           => Ahead * Frame - MaxSleep - (waited + 1) <= s
      BY <1>2, <2>3
    <3>2. QED
      BY <2>2, <2>3, <3>1
  <2>9. channel > 0 => waited' = waited + 1
    BY <1>1, <1>2
  <2>10. primed /\ channel > 0 => lead' > 0
    BY <1>4, <2>2
  <2>11. QED
    BY <1>1, <2>5, <2>6, <2>7, <2>8, <2>9, <2>10
<1>13. Paced'
  <2>1. SUFFICES ASSUME device = "playing"
                 PROVE  /\ lead' <= 0 => Waiting' <= escaped
                        /\ lead' > 0 /\ ~primed =>
                             channel > 0 /\ Waiting' * Frame <= lead' + escaped * Frame + waited'
                        /\ lead' > 0 /\ primed =>
                             Waiting' * Frame <= lead' + phase' + escaped * Frame + MaxHold
    BY <1>1 DEF Paced
  <2>2. /\ lead <= 0 => Waiting <= escaped
        /\ lead > 0 /\ ~primed => channel > 0 /\ Waiting * Frame <= lead + escaped * Frame + waited
        /\ lead > 0 /\ primed => Waiting * Frame <= lead + phase + escaped * Frame + MaxHold
    BY <2>1 DEF IInv, Paced
  <2>3. Waiting * Frame \in Nat /\ escaped * Frame \in Nat
    BY <1>2, <1>7
  <2>4. CASE lead <= 0
    <3>1. \A n \in Nat : n <= Waiting /\ Waiting <= escaped => n <= escaped
      BY <1>2, <1>7
    <3>2. Waiting' <= escaped
      BY <1>7, <2>2, <2>4, <3>1
    <3>3. ~(lead' > 0)
      BY <1>2, <1>4, <2>4
    <3>4. QED
      BY <3>2, <3>3
  <2>5. CASE lead > 0 /\ ~primed
    <3>1. channel > 0 /\ waited' = waited + 1 /\ lead' = lead - 1 /\ ~(lead' <= 0)
      BY <1>1, <1>2, <1>4, <2>2, <2>5
    <3>2. \A n \in Nat : n <= Waiting => n * Frame <= Waiting * Frame /\ n * Frame \in Nat
      BY <1>2, <1>7, MoreFrames
    <3>3. Waiting' * Frame <= Waiting * Frame /\ Waiting' * Frame \in Nat
      BY <1>7, <3>2
    <3>4. \A n \in Nat : n <= Waiting * Frame
                           => n <= (lead - 1) + escaped * Frame + (waited + 1)
      BY <1>2, <2>2, <2>3, <2>5
    <3>5. QED
      BY <2>5, <3>1, <3>3, <3>4
  <2>6. CASE lead > 0 /\ primed
    <3>1. lead' = lead - 1 /\ ~(lead' <= 0)
          /\ Waiting * Frame <= lead + phase + escaped * Frame + MaxHold
      BY <1>2, <1>4, <2>2, <2>6
    <3>2. CASE phase + 1 = Frame
      <4>1. buffer > 0 /\ phase' = 0
        BY <1>1, <1>2, <2>1, <2>6, <3>2, DeviceFinds
      <4>2. buffer' = buffer - 1
        BY <1>2, <2>1, <3>2, <4>1, TickSupply
      <4>3. Waiting' = Waiting - 1 /\ (Waiting - 1) * Frame = Waiting * Frame - Frame
        BY <1>1, <1>2, <1>7, <4>2 DEF Waiting
      <4>4. Waiting * Frame - Frame <= (lead - 1) + 0 + escaped * Frame + MaxHold
        BY <1>2, <2>3, <3>1, <3>2
      <4>5. QED
        BY <2>6, <3>1, <4>1, <4>3, <4>4
    <3>3. CASE phase + 1 # Frame
      <4>1. phase' = phase + 1 /\ buffer' = buffer
        BY <1>1, <3>3, TickSupply
      <4>2. Waiting' = Waiting
        BY <1>1, <4>1 DEF Waiting
      <4>3. Waiting * Frame <= (lead - 1) + (phase + 1) + escaped * Frame + MaxHold
        BY <1>2, <2>3, <3>1
      <4>4. QED
        BY <2>6, <3>1, <4>1, <4>2, <4>3
    <3>4. QED
      BY <3>2, <3>3
  <2>7. QED
    BY <1>2, <2>4, <2>5, <2>6
<1>14. Fed'
  <2>1. /\ lost > 0 => jitter = JitterMax
        /\ lead > 0 =>
             (Came - (JitterMax - Burst + InFlight)) * Frame
               <= (Ahead + Burst) * Frame - 1 - lead + Frame - 1 - Since
        /\ lead <= 0 /\ (primed \/ channel > 0) =>
             (Came - InFlight) * Frame <= asleep + Frame - 1 - Since
        /\ ~primed => lost = 0
    BY DEF IInv, Fed
  <2>2. /\ Came \in Nat /\ Since \in Int /\ InFlight \in Nat /\ JitterMax \in Nat /\ Burst \in Nat
        /\ (Ahead + Burst) * Frame \in Int
    BY <1>2, SinceRange, Constants DEF IInv, TypeOK, Came
  \* A frame has come since, or time has gone by.
  <2>3. \A c \in Int : (Came - c) * Frame \in Int
                       /\ (Came + 1 - c) * Frame = (Came - c) * Frame + Frame
    BY <1>2, <2>2
  <2>4. \A c \in Int, b \in Int :
          (Came - c) * Frame <= b + Frame - 1 - Since
            => (Came' - c) * Frame <= b + 1 + Frame - 1 - Since'
    <3>1. CASE phase' = Offset
      <4>1. Since' = 0 /\ Since = Frame - 1
        BY <1>1, <3>1, SinceTick DEF IInv
      <4>2. net' = net \/ net' = net + 1
        BY <1>1, <3>1
      <4>3. Came' = Came \/ Came' = Came + 1
        <5>1. jitter \in Nat /\ lost \in Nat /\ net \in Nat
          BY <1>2, Constants DEF IInv, TypeOK
        <5>2. QED
          BY <1>1, <4>2, <5>1 DEF Came
      <4>4. SUFFICES ASSUME NEW c \in Int, NEW b \in Int,
                            (Came - c) * Frame <= b + Frame - 1 - Since
                     PROVE  (Came' - c) * Frame <= b + 1 + Frame - 1 - 0
        BY <4>1
      <4>5. (Came - c) * Frame <= b
        BY <1>2, <2>3, <4>1, <4>4
      <4>6. /\ (Came - c) * Frame <= b + 1 + Frame - 1 - 0
            /\ (Came + 1 - c) * Frame <= b + 1 + Frame - 1 - 0
        <5>1. (Came - c) * Frame \in Int /\ (Came + 1 - c) * Frame = (Came - c) * Frame + Frame
          BY <2>3
        <5>2. QED
          BY <1>2, <4>5, <5>1
      <4>7. \A m \in Int : m = Came \/ m = Came + 1 => (m - c) * Frame <= b + 1 + Frame - 1 - 0
        <5>1. SUFFICES ASSUME NEW m \in Int, m = Came \/ m = Came + 1
                       PROVE  (m - c) * Frame <= b + 1 + Frame - 1 - 0
          OBVIOUS
        <5>2. CASE m = Came
          BY <4>6, <5>2
        <5>3. CASE m = Came + 1
          BY <2>2, <4>6, <5>3
        <5>4. QED
          BY <5>1, <5>2, <5>3
      <4>8. Came' \in Int
        BY <2>2, <4>3
      <4>9. QED
        BY <4>3, <4>7, <4>8
    <3>2. CASE phase' # Offset
      <4>1. Since' = Since + 1
        BY <1>1, <3>2, SinceTick DEF IInv
      <4>2. Came' = Came
        BY <1>1, <3>2 DEF Came
      <4>3. SUFFICES ASSUME NEW c \in Int, NEW b \in Int,
                            (Came - c) * Frame <= b + Frame - 1 - Since
                     PROVE  (Came - c) * Frame <= b + 1 + Frame - 1 - (Since + 1)
        BY <4>1, <4>2
      <4>4. QED
        BY <1>2, <2>2, <2>3, <4>3
    <3>3. QED
      BY <3>1, <3>2
  <2>5. lead > 0 =>
          (Came' - (JitterMax - Burst + InFlight)) * Frame
            <= (Ahead + Burst) * Frame - 1 - lead' + Frame - 1 - Since'
    <3>1. SUFFICES ASSUME lead > 0
                   PROVE  (Came' - (JitterMax - Burst + InFlight)) * Frame
                            <= (Ahead + Burst) * Frame - 1 - (lead - 1) + Frame - 1 - Since'
      BY <1>4
    <3>2. JitterMax - Burst + InFlight \in Int /\ (Ahead + Burst) * Frame - 1 - lead \in Int
      BY <1>2, <2>2
    <3>3. (Came' - (JitterMax - Burst + InFlight)) * Frame
            <= (Ahead + Burst) * Frame - 1 - lead + 1 + Frame - 1 - Since'
      BY <2>1, <2>4, <3>1, <3>2
    <3>4. (Ahead + Burst) * Frame - 1 - lead + 1 = (Ahead + Burst) * Frame - 1 - (lead - 1)
      BY <1>2, <2>2
    <3>5. QED
      BY <3>3, <3>4
  <2>6. lead <= 0 /\ (primed \/ channel > 0) =>
          (Came' - InFlight) * Frame <= asleep + 1 + Frame - 1 - Since'
    BY <1>2, <2>1, <2>2, <2>4
  <2>7. /\ lead' > 0 => lead > 0
        /\ lead' <= 0 => lead <= 0
    BY <1>2, <1>4
  <2>8. QED
    BY <1>1, <2>1, <2>5, <2>6, <2>7 DEF Fed
<1>15. QED
  BY <1>5, <1>6, <1>8, <1>9, <1>10, <1>11, <1>12, <1>13, <1>14 DEF IInv

LEMMA UnchangedStep == ASSUME IInv, UNCHANGED vars PROVE IInv'
<1>1. UNCHANGED <<active, device, deafened, net, jitter, nextMix, lead, channel, orphans, buffer,
                  phase, asleep, waited, primed, gap, lost, escaped, deafFor>>
  BY DEF vars, thread, clocks, output, histories
<1>2. TypeOK' /\ NoGap' /\ Silenced'
  BY <1>1 DEF IInv, TypeOK, NoGap, Silenced, Waiting
<1>3. Backlog' /\ Clocked' /\ Ebbing'
  BY <1>1 DEF IInv, Backlog, Turns, Clocked, Ebbing
<1>4. Supplied' /\ Paced' /\ Fed'
  BY <1>1 DEF IInv, Supplied, Supply, Paced, Waiting, Fed, Came, Since
<1>5. QED
  BY <1>2, <1>3, <1>4 DEF IInv

LEMMA StepIInv == IInv /\ [Next]_vars => IInv'
<1>1. SUFFICES ASSUME IInv, [Next]_vars PROVE IInv'
  OBVIOUS
<1> QED
  BY <1>1, RunStep, StartStep, StopStep, SetOutputDeviceStep, ResetIncomingStep,
     SetDeafenedStep, PushStep, DrainStep, TickStep, UnchangedStep DEF Next

\* All parts of the invariant hold in every state the engine reaches.
THEOREM Invariance == Spec => []IInv
<1>1. QED
  BY InitIInv, StepIInv, PTL DEF Spec

(* What the invariant gives *)

\* The engine's variables have their types: the clocks stay within a burst of now, the
\* channel and the buffer within their sizes, the jitter buffer within max_size.
THEOREM TypeCorrect == Spec => []TypeOK
<1>1. IInv => TypeOK
  BY DEF IInv
<1>2. QED
  BY <1>1, Invariance, PTL

\* Once the device has had frames it finds one whenever it needs one, until the clocks
\* are reset: however the two threads are put to sleep within their bounds, process()
\* mixes a burst in time and the buffer's thread hands it on in time.
THEOREM DeviceNeverWaits == Spec => []NoGap
<1>1. IInv => NoGap
  BY DEF IInv
<1>2. QED
  BY <1>1, Invariance, PTL

\* What waits to be played is less than the bursts and the lead that process() aims at,
\* the frame that is being played and what a pause of the buffer's thread costs, beyond
\* the frames that the last clear_buffer did not reach.
THEOREM DelayStaysShort == Spec => []DelayIsBounded
<1>1. IInv => DelayIsBounded
  <2>1. SUFFICES ASSUME IInv, device = "playing"
                 PROVE  Waiting * Frame < (Ahead + Burst + escaped) * Frame + Frame + MaxHold - 1
    BY DEF DelayIsBounded
  <2>2. /\ Waiting \in Nat /\ escaped \in Nat /\ lead \in Int /\ phase \in Nat /\ phase <= Frame - 1
        /\ waited \in Nat /\ waited <= MaxHold /\ MaxHold \in Nat /\ Frame \in Nat /\ Frame > 0
        /\ Ahead * Frame \in Nat /\ Burst * Frame \in Nat /\ Ahead \in Nat /\ Burst \in Nat
        /\ Frame <= Ahead * Frame
    BY <2>1, Constants, Products DEF IInv, TypeOK, Waiting
  <2>3. /\ (Ahead + Burst + escaped) * Frame = Ahead * Frame + Burst * Frame + escaped * Frame
        /\ (Ahead + Burst) * Frame = Ahead * Frame + Burst * Frame
    BY <2>2
  <2>4. escaped * Frame \in Nat /\ Waiting * Frame \in Nat
    BY <2>2
  <2>5. lead < (Ahead + Burst) * Frame
    BY <2>1 DEF IInv, Clocked
  <2>6. /\ lead <= 0 => Waiting <= escaped
        /\ lead > 0 /\ ~primed => Waiting * Frame <= lead + escaped * Frame + waited
        /\ lead > 0 /\ primed => Waiting * Frame <= lead + phase + escaped * Frame + MaxHold
    BY <2>1 DEF IInv, Paced
  <2>7. CASE lead <= 0
    <3>1. Waiting * Frame <= escaped * Frame
      BY <2>2, <2>6, <2>7, MoreFrames
    <3>2. QED
      BY <2>2, <2>3, <2>4, <3>1
  <2>8. CASE lead > 0
    BY <2>2, <2>3, <2>4, <2>5, <2>6, <2>8
  <2>9. QED
    BY <2>2, <2>7, <2>8
<1>2. QED
  BY <1>1, Invariance, PTL

\* When a player has been deafened for longer than both threads may sleep, nothing waits
\* to be played: set_deafened clears the buffer, the thread drains what was in the
\* channel into it, and process() clears it again.
THEOREM DeafHearNothing == Spec => []DeafIsSilent
<1>1. IInv => DeafIsSilent
  <2>1. SUFFICES ASSUME IInv, deafened, active, deafFor > MaxSleep + MaxHold PROVE Waiting = 0
    BY DEF DeafIsSilent
  <2>2. /\ channel \in Nat /\ orphans \in Nat /\ buffer \in Nat /\ deafFor \in Nat
        /\ waited \in Nat /\ waited <= MaxHold /\ asleep \in Nat /\ asleep <= MaxSleep
        /\ MaxSleep \in Nat /\ MaxHold \in Nat
    BY <2>1, Constants DEF IInv, TypeOK
  <2>3. /\ channel + orphans > 0 => deafFor <= waited
        /\ buffer > 0 => deafFor <= MaxHold + asleep
    BY <2>1 DEF IInv, Ebbing
  <2>4. QED
    BY <2>1, <2>2, <2>3 DEF Waiting
<1>2. QED
  BY <1>1, Invariance, PTL

\* The jitter buffer, although JitterBuffer::push throws the oldest frame away when it
\* is full, loses no more of a peer's frames between two bursts than were under way,
\* one, and those that come while the audio thread sleeps.
THEOREM LossesStaySmall == Spec => []LossIsBounded
<1>1. IInv => LossIsBounded
  <2>1. SUFFICES ASSUME IInv PROVE (lost - InFlight) * Frame < Frame + MaxSleep - 1
    BY DEF LossIsBounded
  <2>2. /\ lost \in Nat /\ jitter \in Nat /\ net \in Nat /\ lead \in Int /\ Since \in Nat
        /\ asleep \in Nat /\ asleep <= MaxSleep /\ MaxSleep \in Nat /\ MaxSleep > 0
        /\ InFlight \in Nat /\ InFlight > 0 /\ JitterMax \in Nat /\ JitterMax > 0
        /\ Burst \in Nat /\ Ahead \in Nat /\ Frame \in Nat /\ Frame > 0
        /\ Burst * Frame \in Nat /\ Ahead * Frame \in Nat
        /\ (Ahead + Burst) * Frame = Ahead * Frame + Burst * Frame
    BY <2>1, Constants, Products, SinceRange DEF IInv, TypeOK
  <2>3. (lost - InFlight) * Frame \in Int
    BY <2>2
  <2>4. CASE lost = 0
    <3>1. (lost - InFlight) * Frame <= 0
      BY <2>2, <2>4, NotPositive
    <3>2. QED
      BY <2>2, <2>3, <3>1
  <2>5. CASE lost > 0
    <3>1. primed /\ JitterMax + lost <= Came /\ Came \in Nat
      BY <2>1, <2>2, <2>5 DEF IInv, Fed, Came
    <3>2. CASE lead > 0
      <4>1. lost - InFlight + Burst <= Came - (JitterMax - Burst + InFlight)
        BY <2>2, <3>1
      <4>2. (lost - InFlight + Burst) * Frame <= (Came - (JitterMax - Burst + InFlight)) * Frame
        BY <2>2, <3>1, <4>1, MoreFrames
      <4>3. (lost - InFlight + Burst) * Frame = (lost - InFlight) * Frame + Burst * Frame
        BY <2>2
      <4>4. (Came - (JitterMax - Burst + InFlight)) * Frame
              <= (Ahead + Burst) * Frame - 1 - lead + Frame - 1 - Since
        BY <2>1, <3>2 DEF IInv, Fed
      <4>5. Ahead * Frame - asleep <= lead
        BY <2>1, <3>2 DEF IInv, Clocked
      <4>6. (Came - (JitterMax - Burst + InFlight)) * Frame \in Int
        BY <2>2, <3>1
      <4>7. QED
        BY <2>2, <2>3, <4>2, <4>3, <4>4, <4>5, <4>6
    <3>3. CASE lead <= 0
      <4>1. (lost + 1 - InFlight) * Frame <= (Came - InFlight) * Frame
        BY <2>2, <3>1, MoreFrames
      <4>2. (lost + 1 - InFlight) * Frame = (lost - InFlight) * Frame + Frame
        BY <2>2
      <4>3. (Came - InFlight) * Frame <= asleep + Frame - 1 - Since
        BY <2>1, <3>1, <3>3 DEF IInv, Fed
      <4>4. (Came - InFlight) * Frame \in Int
        BY <2>2, <3>1
      <4>5. QED
        BY <2>2, <2>3, <4>1, <4>2, <4>3, <4>4
    <3>4. QED
      BY <2>2, <3>2, <3>3
  <2>6. QED
    BY <2>2, <2>4, <2>5
<1>2. QED
  BY <1>1, Invariance, PTL
-----------------------------------------------------------------------------
(* Speaking *)

USE VadAssumption, SoundAssumption, CapacityAssumption, BoundAssumption

-----------------------------------------------------------------------------
\* Extremes of sets of numbers.

LEMMA Least ==
  ASSUME NEW S \in SUBSET Nat, S # {}
  PROVE  \E n \in S : \A m \in S : n <= m
<1>1. PICK n \in S : \A m \in S : ~(<<m, n>> \in OpToRel(<, Nat))
  BY NatLessThanWellFounded, WFMin
<1>2. ASSUME NEW m \in S PROVE n <= m
  <2>1. m \in Nat /\ n \in Nat /\ ~(<<m, n>> \in OpToRel(<, Nat))
    BY <1>1
  <2>2. QED
    BY <2>1 DEF OpToRel
<1>3. QED
  BY <1>2

LEMMA Greatest ==
  ASSUME NEW S \in SUBSET Nat, S # {}, NEW b \in Nat, \A n \in S : n <= b
  PROVE  \E n \in S : \A m \in S : m <= n
<1> DEFINE T == {b - n : n \in S}
<1>1. T \in SUBSET Nat /\ T # {}
  <2>1. \A n \in S : b - n \in Nat
    OBVIOUS
  <2>2. T \subseteq Nat
    BY <2>1
  <2>3. T # {}
    OBVIOUS
  <2>4. QED
    BY <2>2, <2>3
<1> HIDE DEF T
<1>2. PICK t \in T : \A u \in T : t <= u
  BY <1>1, Least
<1>3. PICK n \in S : t = b - n
  BY DEF T
<1>4. \A m \in S : m <= n
  <2> SUFFICES ASSUME NEW m \in S PROVE m <= n
    OBVIOUS
  <2>1. b - m \in T
    BY DEF T
  <2>2. b - n <= b - m
    BY <1>2, <1>3, <2>1
  <2>3. QED
    BY <2>2
<1>5. QED
  BY <1>4

\* What is greatest by a measure.
LEMMA GreatestBy ==
  ASSUME NEW S, NEW f, NEW b \in Nat, S # {}, \A x \in S : f[x] \in 0..b
  PROVE  \E x \in S : \A y \in S : f[y] <= f[x]
<1> DEFINE T == {f[x] : x \in S}
<1>1. T \in SUBSET Nat /\ T # {} /\ \A n \in T : n <= b
  OBVIOUS
<1> HIDE DEF T
<1>2. PICK n \in T : \A m \in T : m <= n
  BY <1>1, Greatest
<1>3. PICK x \in S : n = f[x]
  BY DEF T
<1>4. \A y \in S : f[y] \in T
  BY DEF T
<1>5. QED
  BY <1>2, <1>3, <1>4

-----------------------------------------------------------------------------
\* Which room the player speaks to.

LEMMA Ranks ==
  /\ \A i, j \in 1..5 : Fallback[i] = Fallback[j] => i = j
  /\ \A r \in Room : Type[r] = Fallback[Rank(r)] /\ Rank(r) \in 1..5
<1>1. \A i, j \in 1..5 : Fallback[i] = Fallback[j] => i = j
  BY DEF Fallback
<1>2. \A r \in Room : \E i \in 1..5 : Fallback[i] = Type[r]
  BY TypeAssumption DEF RoomType
<1>3. QED
  BY <1>1, <1>2 DEF Rank

LEMMA LatestOfType ==
  ASSUME SpTypeOK, Ordered, NEW t, OfType(t) # {}
  PROVE  /\ LatestRoomOfType(t) \in OfType(t)
         /\ \A other \in OfType(t) \ {LatestRoomOfType(t)} :
              joinedAt[other] < joinedAt[LatestRoomOfType(t)]
<1>1. steps \in Nat /\ joinedAt \in [Room -> 0..steps]
  BY DEF SpTypeOK
<1>2. OfType(t) \subseteq Joined /\ Joined \subseteq Room
  BY DEF OfType, Joined
<1>3. \A r \in OfType(t) : joinedAt[r] \in 0..steps
  BY <1>1, <1>2
<1>4. \E r \in OfType(t) : \A other \in OfType(t) : joinedAt[other] <= joinedAt[r]
  BY <1>1, <1>3, GreatestBy
<1>5. /\ LatestRoomOfType(t) \in OfType(t)
      /\ \A other \in OfType(t) : joinedAt[other] <= joinedAt[LatestRoomOfType(t)]
  BY <1>4 DEF LatestRoomOfType
<1>6. \A other \in OfType(t) :
        joinedAt[other] = joinedAt[LatestRoomOfType(t)] => other = LatestRoomOfType(t)
  BY <1>2, <1>5 DEF Ordered
<1>7. QED
  BY <1>3, <1>5, <1>6

LEMMA HeldIsDown ==
  ASSUME SpTypeOK, Pressed
  PROVE  /\ Held = Down
         /\ \A k \in Held : Began(k) = lastPress[k] /\ lastPress[k] \in 0..MaxKeys
<1>1. Held = Down
  BY DEF Held, Down, Pressed
<1>2. ASSUME NEW k \in Held
      PROVE  Began(k) = lastPress[k] /\ lastPress[k] \in 0..MaxKeys
  <2>1. /\ lastPress[k] \in HoldOf(k)
        /\ \A i \in HoldOf(k) : lastPress[k] <= i
        /\ lastPress[k] \in 0..MaxKeys
    BY DEF Held, Pressed, SpTypeOK
  <2>2. HoldOf(k) \subseteq Nat
    BY DEF HoldOf, Events, SpTypeOK
  <2>3. \A i \in HoldOf(k) : (\A j \in HoldOf(k) : i <= j) => i = lastPress[k]
    BY <2>1, <2>2
  <2>4. QED
    BY <2>1, <2>3 DEF Began
<1>3. QED
  BY <1>1, <1>2

LEMMA LatestPress ==
  ASSUME SpTypeOK, Held # {}
  PROVE  /\ LatestPressed \in Held
         /\ \A other \in Held : lastPress[other] <= lastPress[LatestPressed]
<1>1. \A k \in Held : lastPress[k] \in 0..MaxKeys
  BY DEF Held, SpTypeOK
<1>2. \E k \in Held : \A other \in Held : lastPress[other] <= lastPress[k]
  BY <1>1, GreatestBy
<1>3. QED
  BY <1>2 DEF LatestPressed

LEMMA FirstOpen ==
  ASSUME SpTypeOK, Ordered, Joined # {}
  PROVE  /\ FallbackChain \in Joined
         /\ \A other \in Joined : Rank(FallbackChain) <= Rank(other)
         /\ FallbackChain = LatestRoomOfType(Type[FallbackChain])
<1> DEFINE Open  == {i \in 1..5 : OfType(Fallback[i]) # {}}
           First == CHOOSE i \in Open : \A j \in Open : i <= j
<1>1. Joined \subseteq Room
  BY DEF Joined
<1>2. ASSUME NEW r \in Joined PROVE Rank(r) \in Open
  BY <1>1, Ranks DEF OfType
<1>3. Open # {} /\ Open \in SUBSET Nat /\ Open \subseteq 1..5
  BY <1>2
<1>4. \E i \in Open : \A j \in Open : i <= j
  BY <1>3, Least
<1>5. First \in Open /\ \A j \in Open : First <= j
  BY <1>4
<1>6. FallbackChain = LatestRoomOfType(Fallback[First])
  BY DEF FallbackChain
<1>7. OfType(Fallback[First]) # {} /\ First \in 1..5
  BY <1>5
<1> HIDE DEF First, Open
<1>8. FallbackChain \in OfType(Fallback[First])
  BY <1>6, <1>7, LatestOfType
<1>9. Type[FallbackChain] = Fallback[First] /\ FallbackChain \in Joined
  BY <1>8 DEF OfType
<1>10. Rank(FallbackChain) = First
  BY <1>1, <1>7, <1>9, Ranks
<1>11. QED
  BY <1>2, <1>5, <1>6, <1>9, <1>10

\* What the manager settles on is what the record of keys asks for.
LEMMA ResolveIsWanted ==
  ASSUME SpTypeOK, Ordered, Pressed, Resolve # None
  PROVE  Resolve \in Room /\ ~Silent /\ Wanted(Resolve)
<1>1. Joined # {} /\ Joined \subseteq Room
  BY DEF Resolve, Joined
<1>2. Held = Down
  BY HeldIsDown
<1>3. ASSUME NEW r \in Joined, r = LatestRoomOfType(Type[r])
      PROVE  \A other \in Joined \ {r} :
               Type[other] = Type[r] => joinedAt[other] < joinedAt[r]
  <2>1. OfType(Type[r]) # {}
    BY DEF OfType
  <2>2. \A other \in OfType(Type[r]) \ {r} : joinedAt[other] < joinedAt[r]
    BY <1>3, <2>1, LatestOfType
  <2>3. QED
    BY <2>2 DEF OfType
<1>4. CASE Held # {}
  <2> DEFINE k == LatestPressed
  <2>1. Resolve = LatestRoomOfType(k)
    BY <1>1, <1>4 DEF Resolve
  <2>2. OfType(k) # {}
    BY <2>1 DEF LatestRoomOfType
  <2>3. Resolve \in OfType(k)
    BY <2>1, <2>2, LatestOfType
  <2>4. Resolve \in Joined /\ Type[Resolve] = k
    BY <2>3 DEF OfType
  <2>5. k \in Held /\ \A other \in Held : lastPress[other] <= lastPress[k]
    BY <1>4, LatestPress
  <2>6. k \in Down /\ \A other \in Down : Began(other) <= Began(k)
    BY <1>2, <2>5, HeldIsDown
  <2>7. Eligible(Resolve)
    BY <2>4, <2>6 DEF Eligible
  <2>8. ~Silent
    BY <1>2, <1>4 DEF Silent
  <2>9. QED
    BY <1>1, <1>3, <2>1, <2>4, <2>7, <2>8 DEF Wanted
<1>5. CASE Held = {}
  <2>1. ~(mode = "PushToTalk" /\ ~pttActive) /\ Resolve = FallbackChain
    BY <1>1, <1>5 DEF Resolve
  <2>2. /\ Resolve \in Joined
        /\ \A other \in Joined : Rank(Resolve) <= Rank(other)
        /\ Resolve = LatestRoomOfType(Type[Resolve])
    BY <1>1, <2>1, FirstOpen
  <2>3. Eligible(Resolve)
    BY <1>2, <1>5, <2>2 DEF Eligible
  <2>4. QED
    BY <1>1, <1>3, <2>1, <2>2, <2>3 DEF Wanted, Silent
<1>6. QED
  BY <1>4, <1>5

-----------------------------------------------------------------------------
\* Types.

LEMMA ResolveType == ASSUME SpTypeOK, Ordered, Pressed PROVE Resolve \in Room \cup {None}
BY ResolveIsWanted

LEMMA AppendType ==
  ASSUME NEW S, NEW q \in Seq(S), NEW x \in S
  PROVE  Append(q, x) \in Seq(S)
OBVIOUS

LEMMA OfferType ==
  ASSUME NEW q \in Seq(Sound), NEW f \in Sound, NEW n \in Nat, Len(q) <= n
  PROVE  Offer(q, f, n) \in Seq(Sound) /\ Len(Offer(q, f, n)) <= n
BY DEF Offer

LEMMA DetectType ==
  ASSUME Vad \in VadState, NEW b \in BOOLEAN
  PROVE  Detect(Vad, b) \in VadState
BY DEF Detect, VadState

LEMMA SpTypeStep ==
  ASSUME SpTypeOK, Ordered, Pressed, [SpNext]_Spvars
  PROVE  SpTypeOK'
<1> USE DEF SpTypeOK, settings, speak, rooms, microphone, vad, outgoing, Step
<1>1. ASSUME NEW k \in Key, NEW down \in BOOLEAN, SetPerType(k, down) PROVE SpTypeOK'
  <2>1. Now \in 0..MaxKeys /\ Stamp(k, down) \in 0..MaxKeys
    BY <1>1 DEF SetPerType, Now, Stamp
  <2>2. lastPress' \in [Key -> 0..MaxKeys] /\ held' \in [Key -> BOOLEAN]
    BY <1>1, <2>1 DEF SetPerType
  <2>3. keys' \in Seq([key : Key, down : BOOLEAN]) /\ Len(keys') <= MaxKeys
    BY <1>1 DEF SetPerType
  <2>4. QED
    BY <1>1, <2>2, <2>3 DEF SetPerType, Vad
<1>2. ASSUME NEW down \in BOOLEAN, SetPtt(down) PROVE SpTypeOK'
  <2>1. steps' \in 0..MaxSteps /\ joinedAt' \in [Room -> 0..steps']
    BY <1>2 DEF SetPtt
  <2>2. QED
    BY <1>2, <2>1 DEF SetPtt, Vad
<1>3. ASSUME NEW m \in Mode, NEW muted \in BOOLEAN, UpdateSettings(m, muted) PROVE SpTypeOK'
  <2>1. steps' \in 0..MaxSteps /\ joinedAt' \in [Room -> 0..steps']
    BY <1>3 DEF UpdateSettings
  <2>2. QED
    BY <1>3, <2>1 DEF UpdateSettings, Vad
<1>4. ASSUME NEW opens \in BOOLEAN, Connected(opens) PROVE SpTypeOK'
  <2>1. steps' \in 0..MaxSteps /\ joinedAt' \in [Room -> 0..steps']
    BY <1>4 DEF Connected
  <2>2. capturing' \in BOOLEAN
    BY <1>4, Zenon DEF Connected
  <2>3. /\ online' = TRUE /\ state' = "Connected" /\ isActive' = TRUE
        /\ UNCHANGED <<settings, speak, captured, capture, out, outgoing>>
    BY <1>4, Zenon DEF Connected
  <2>4. QED
    BY <2>1, <2>2, <2>3 DEF Vad
<1>5. CASE Disconnected
  <2>1. steps' \in 0..MaxSteps /\ joinedAt' \in [Room -> 0..steps']
    BY <1>5 DEF Disconnected
  <2>2. QED
    BY <1>5, <2>1 DEF Disconnected, Vad
<1>6. ASSUME NEW r \in Room, RoomJoined(r) PROVE SpTypeOK'
  BY <1>6 DEF RoomJoined, Vad
<1>7. ASSUME NEW r \in Room, LeaveRoom(r) PROVE SpTypeOK'
  BY <1>7 DEF LeaveRoom, Vad
<1>8. ASSUME NEW sound \in Sound, Capture(sound) PROVE SpTypeOK'
  <2>1. capture' \in Seq(Sound) /\ Len(capture') <= CaptureCapacity
    BY <1>8, OfferType DEF Capture
  <2>2. QED
    BY <1>8, <2>1 DEF Capture, Vad
<1>9. CASE Forward
  <2>1. Head(capture) \in Sound /\ Tail(capture) \in Seq(Sound)
        /\ Len(Tail(capture)) <= CaptureCapacity
    BY <1>9 DEF Forward
  <2>2. out' \in Seq(Sound) /\ Len(out') <= OutCapacity
    BY <1>9, <2>1, OfferType DEF Forward
  <2>3. QED
    BY <1>9, <2>1, <2>2 DEF Forward, Vad
<1>10. ASSUME NEW opens \in BOOLEAN, SetInputDevice(opens) PROVE SpTypeOK'
  <2>1. capture' \in Seq(Sound) /\ Len(capture') <= CaptureCapacity
    <3>1. capture' = <<>> \/ capture' = capture
      BY <1>10 DEF SetInputDevice
    <3>2. <<>> \in Seq(Sound) /\ Len(<<>>) <= CaptureCapacity
      OBVIOUS
    <3>3. capture \in Seq(Sound) /\ Len(capture) <= CaptureCapacity
      OBVIOUS
    <3>4. QED
      BY <3>1, <3>2, <3>3, Zenon
  <2>2. steps' \in 0..MaxSteps /\ joinedAt' \in [Room -> 0..steps']
    BY <1>10 DEF SetInputDevice
  <2>3. QED
    BY <1>10, <2>1, <2>2 DEF SetInputDevice, Vad
<1>11. CASE StartTurn
  BY <1>11, ResolveType DEF StartTurn, Vad
<1>12. CASE Transmit
  <2> DEFINE isSpeech == Head(out) = "voice"
             v == IF mode = "VoiceActivity" THEN Detect(Vad, isSpeech) ELSE Vad
  <2>1. out' \in Seq(Sound) /\ Len(out') <= OutCapacity
    BY <1>12 DEF Transmit
  <2>2. v \in VadState
    BY DetectType
  <2>3. Vad' = v
    <3>1. voiceCount' = v.voices /\ silenceCount' = v.silences /\ isVoice' = v.on
      BY <1>12 DEF Transmit
    <3>2. QED
      BY <2>2, <3>1 DEF Vad, VadState
  <2>4. fed' \in Seq(BOOLEAN) /\ sent' \in Seq(Room)
    <3>1. target \in Room /\ isSpeech \in BOOLEAN
      BY <1>12 DEF Transmit
    <3>2. fed' = fed \/ fed' = Append(fed, isSpeech)
      BY <1>12 DEF Transmit
    <3>3. sent' = sent \/ sent' = Append(sent, target)
      BY <1>12 DEF Transmit
    <3> HIDE DEF isSpeech
    <3>4. Append(fed, isSpeech) \in Seq(BOOLEAN) /\ Append(sent, target) \in Seq(Room)
      BY <3>1, AppendType
    <3>5. QED
      BY <3>2, <3>3, <3>4
  <2>5. QED
    BY <1>12, <2>1, <2>2, <2>3, <2>4 DEF Transmit
<1>13. CASE EndTurn
  BY <1>13 DEF EndTurn, Vad
<1>14. CASE UNCHANGED Spvars
  BY <1>14 DEF Spvars, Vad
<1>15. QED
  BY <1>1, <1>2, <1>3, <1>4, <1>5, <1>6, <1>7, <1>8, <1>9, <1>10, <1>11, <1>12, <1>13, <1>14
     DEF SpNext

-----------------------------------------------------------------------------
\* The detector.

LEMMA Appended ==
  ASSUME NEW f \in Seq(BOOLEAN), NEW c \in BOOLEAN, NEW g, g = Append(f, c)
  PROVE  /\ Len(f) \in Nat /\ Len(g) = Len(f) + 1
         /\ g[Len(f) + 1] = c /\ \A i \in 1..Len(f) : g[i] = f[i]
OBVIOUS

\* What a frame does to the run that what was fed ends in.
LEMMA RunGrows ==
  ASSUME NEW f \in Seq(BOOLEAN), NEW c \in BOOLEAN, NEW g, g = Append(f, c),
         NEW n \in Nat, RunOf(f, c, n)
  PROVE  RunOf(g, c, n + 1)
<1> DEFINE L == Len(f)
<1>1. /\ L \in Nat /\ Len(g) = L + 1
      /\ g[L + 1] = c /\ \A i \in 1..L : g[i] = f[i]
  BY Appended
<1>2. n <= L /\ (\A i \in L - n + 1..L : f[i] = c) /\ (n < L => f[L - n] # c)
  BY DEF RunOf, AllAre
<1> HIDE DEF L
<1>3. ASSUME NEW i \in (L + 1) - (n + 1) + 1..L + 1 PROVE g[i] = c
  <2>1. i = L + 1 \/ (i \in 1..L /\ i \in L - n + 1..L)
    BY <1>1, <1>2
  <2>2. QED
    BY <1>1, <1>2, <2>1
<1>4. ASSUME n + 1 < L + 1 PROVE g[(L + 1) - (n + 1)] # c
  <2>1. n < L /\ (L + 1) - (n + 1) = L - n /\ L - n \in 1..L
    BY <1>1, <1>4
  <2>2. QED
    BY <1>1, <1>2, <2>1
<1>5. QED
  BY <1>1, <1>2, <1>3, <1>4 DEF RunOf, AllAre

LEMMA RunEnds ==
  ASSUME NEW f \in Seq(BOOLEAN), NEW c \in BOOLEAN, NEW g, g = Append(f, c),
         NEW b \in BOOLEAN, b # c
  PROVE  RunOf(g, b, 0)
<1>1. Len(f) \in Nat /\ Len(g) = Len(f) + 1 /\ g[Len(f) + 1] = c
  BY Appended
<1>2. QED
  BY <1>1 DEF RunOf, AllAre

\* A run at the end is as long as the counter says, and what ends the frames is in it
\* if it is no longer than that.
LEMMA RunIsLongest ==
  ASSUME NEW f \in Seq(BOOLEAN), NEW b \in BOOLEAN, NEW n \in Nat, RunOf(f, b, n),
         NEW m \in Nat, m <= Len(f)
  PROVE  AllAre(f, b, Len(f) - m + 1, Len(f)) <=> m <= n
<1> DEFINE L == Len(f)
<1>1. L \in Nat
  OBVIOUS
<1>2. n <= L /\ (\A i \in L - n + 1..L : f[i] = b) /\ (n < L => f[L - n] # b)
  BY DEF RunOf, AllAre
<1> HIDE DEF L
<1>3. ASSUME n < m PROVE \E i \in L - m + 1..L : f[i] # b
  <2>1. n < L /\ L - n \in L - m + 1..L
    BY <1>1, <1>3 DEF L
  <2>2. QED
    BY <1>2, <2>1
<1>4. ASSUME m <= n PROVE \A i \in L - m + 1..L : f[i] = b
  <2>1. \A i \in L - m + 1..L : i \in L - n + 1..L
    BY <1>1, <1>2, <1>4
  <2>2. QED
    BY <1>2, <2>1
<1>5. QED
  BY <1>3, <1>4 DEF AllAre, L

LEMMA SpanKept ==
  ASSUME NEW f \in Seq(BOOLEAN), NEW c \in BOOLEAN, NEW g, g = Append(f, c),
         NEW b \in BOOLEAN, NEW from \in Nat \ {0}, NEW to \in 0..Len(f)
  PROVE  AllAre(g, b, from, to) <=> AllAre(f, b, from, to)
<1>1. \A i \in 1..Len(f) : g[i] = f[i]
  BY Appended
<1>2. \A i \in from..to : i \in 1..Len(f)
  OBVIOUS
<1>3. \A i \in from..to : g[i] = f[i]
  BY <1>1, <1>2
<1>4. QED
  BY <1>3, Zenon DEF AllAre

\* A frame leaves a detector on that was switched on before, unless it ends a pause.
LEMMA OnStays ==
  ASSUME NEW f \in Seq(BOOLEAN), NEW c \in BOOLEAN, NEW g, g = Append(f, c),
         NEW on \in VoiceThreshold..Len(f)
  PROVE  OnSince(g, on) <=>
           /\ OnSince(f, on)
           /\ ~ /\ Len(g) >= on + SilenceThreshold
                /\ AllAre(g, FALSE, Len(g) - SilenceThreshold + 1, Len(g))
<1> DEFINE L == Len(f)
<1>1. /\ L \in Nat /\ on \in Nat /\ on <= L /\ VoiceThreshold <= on
      /\ VoiceThreshold \in Nat \ {0} /\ SilenceThreshold \in Nat \ {0}
  OBVIOUS
<1>2. Len(g) = L + 1
  BY Appended
<1>3. AllAre(g, TRUE, on - VoiceThreshold + 1, on) <=> AllAre(f, TRUE, on - VoiceThreshold + 1, on)
  <2>1. on - VoiceThreshold + 1 \in Nat \ {0} /\ on \in 0..L
    BY <1>1
  <2>2. QED
    BY <2>1, SpanKept
<1>4. ASSUME NEW off \in on + SilenceThreshold..L
      PROVE  AllAre(g, FALSE, off - SilenceThreshold + 1, off)
               <=> AllAre(f, FALSE, off - SilenceThreshold + 1, off)
  <2>1. off - SilenceThreshold + 1 \in Nat \ {0} /\ off \in 0..L
    BY <1>1
  <2>2. QED
    BY <2>1, SpanKept
<1> HIDE DEF L
<1>5. \A off : off \in on + SilenceThreshold..L + 1 <=>
        \/ off \in on + SilenceThreshold..L
        \/ off = L + 1 /\ L + 1 >= on + SilenceThreshold
  <2>1. on + SilenceThreshold \in Nat
    BY <1>1
  <2>2. QED
    BY <1>1, <2>1
<1>6. (\E off \in on + SilenceThreshold..L + 1 : AllAre(g, FALSE, off - SilenceThreshold + 1, off))
        <=> \/ \E off \in on + SilenceThreshold..L : AllAre(f, FALSE, off - SilenceThreshold + 1, off)
            \/ /\ L + 1 >= on + SilenceThreshold
               /\ AllAre(g, FALSE, (L + 1) - SilenceThreshold + 1, L + 1)
  <2> DEFINE PausedIn(h, off) == AllAre(h, FALSE, off - SilenceThreshold + 1, off)
  <2>1. \A off \in on + SilenceThreshold..L : PausedIn(g, off) <=> PausedIn(f, off)
    BY <1>4
  <2> HIDE DEF PausedIn
  <2>2. (\E off \in on + SilenceThreshold..L + 1 : PausedIn(g, off))
          <=> \/ \E off \in on + SilenceThreshold..L : PausedIn(f, off)
              \/ L + 1 >= on + SilenceThreshold /\ PausedIn(g, L + 1)
    <3>1. ASSUME NEW off \in on + SilenceThreshold..L + 1, PausedIn(g, off)
          PROVE  \/ \E o \in on + SilenceThreshold..L : PausedIn(f, o)
                 \/ L + 1 >= on + SilenceThreshold /\ PausedIn(g, L + 1)
      BY <1>5, <2>1, <3>1
    <3>2. ASSUME NEW off \in on + SilenceThreshold..L, PausedIn(f, off)
          PROVE  \E o \in on + SilenceThreshold..L + 1 : PausedIn(g, o)
      BY <1>5, <2>1, <3>2
    <3>3. ASSUME L + 1 >= on + SilenceThreshold, PausedIn(g, L + 1)
          PROVE  \E o \in on + SilenceThreshold..L + 1 : PausedIn(g, o)
      BY <1>5, <3>3
    <3>4. QED
      BY <3>1, <3>2, <3>3, Zenon
  <2>3. QED
    BY <2>2, Zenon DEF PausedIn
<1>7. (\E off \in on + SilenceThreshold..Len(g) : AllAre(g, FALSE, off - SilenceThreshold + 1, off))
        <=> \/ \E off \in on + SilenceThreshold..Len(f) : AllAre(f, FALSE, off - SilenceThreshold + 1, off)
            \/ /\ Len(g) >= on + SilenceThreshold
               /\ AllAre(g, FALSE, Len(g) - SilenceThreshold + 1, Len(g))
  BY <1>2, <1>6 DEF L
<1>8. QED
  BY <1>3, <1>7, Zenon DEF OnSince

LEMMA OneMoreTo ==
  ASSUME NEW a \in Nat, NEW L \in Nat
  PROVE  \A i : i \in a..L + 1 <=> i \in a..L \/ (i = L + 1 /\ L + 1 >= a)
OBVIOUS

LEMMA SpeechStep ==
  ASSUME NEW f \in Seq(BOOLEAN), NEW g, g = Append(f, TRUE), NEW n \in Nat, RunOf(f, TRUE, n)
  PROVE  (\E on \in VoiceThreshold..Len(g) : OnSince(g, on)) <=>
           \/ \E on \in VoiceThreshold..Len(f) : OnSince(f, on)
           \/ n + 1 >= VoiceThreshold
<1> DEFINE L == Len(f)
<1>1. /\ L \in Nat /\ VoiceThreshold \in Nat \ {0} /\ SilenceThreshold \in Nat \ {0}
      /\ Len(g) = L + 1 /\ g[L + 1] = TRUE /\ g \in Seq(BOOLEAN)
  BY Appended
<1>2. RunOf(g, TRUE, n + 1) /\ n <= L
  BY RunGrows DEF RunOf
<1> HIDE DEF L
<1>3. ~AllAre(g, FALSE, (L + 1) - SilenceThreshold + 1, L + 1)
  <2>1. L + 1 \in (L + 1) - SilenceThreshold + 1..L + 1
    BY <1>1
  <2>2. QED
    BY <1>1, <2>1 DEF AllAre
<1>4. ASSUME NEW on \in VoiceThreshold..L PROVE OnSince(g, on) <=> OnSince(f, on)
  BY <1>1, <1>3, OnStays, Zenon DEF L
<1>5. ASSUME L + 1 >= VoiceThreshold
      PROVE  OnSince(g, L + 1) <=> n + 1 >= VoiceThreshold
  <2>1. (L + 1) + SilenceThreshold..L + 1 = {}
    BY <1>1
  <2>2. OnSince(g, L + 1) <=> AllAre(g, TRUE, (L + 1) - VoiceThreshold + 1, L + 1)
    BY <1>1, <2>1, Zenon DEF OnSince
  <2>3. AllAre(g, TRUE, (L + 1) - VoiceThreshold + 1, L + 1) <=> VoiceThreshold <= n + 1
    <3>1. n + 1 \in Nat /\ VoiceThreshold \in Nat /\ VoiceThreshold <= Len(g)
      BY <1>1, <1>5
    <3>2. AllAre(g, TRUE, Len(g) - VoiceThreshold + 1, Len(g)) <=> VoiceThreshold <= n + 1
      BY <1>1, <1>2, <3>1, RunIsLongest
    <3>3. QED
      BY <1>1, <3>2
  <2>4. QED
    BY <1>1, <2>2, <2>3
<1>6. n + 1 >= VoiceThreshold => L + 1 >= VoiceThreshold
  BY <1>1, <1>2
<1>7. \A on : on \in VoiceThreshold..L + 1 <=>
        on \in VoiceThreshold..L \/ (on = L + 1 /\ L + 1 >= VoiceThreshold)
  BY <1>1, OneMoreTo
<1>8. QED
  BY <1>1, <1>4, <1>5, <1>6, <1>7, Zenon DEF L

LEMMA PauseStep ==
  ASSUME NEW f \in Seq(BOOLEAN), NEW g, g = Append(f, FALSE), NEW n \in Nat, RunOf(f, FALSE, n)
  PROVE  (\E on \in VoiceThreshold..Len(g) : OnSince(g, on)) <=>
           /\ \E on \in VoiceThreshold..Len(f) : OnSince(f, on)
           /\ n + 1 < SilenceThreshold
<1> DEFINE L == Len(f)
<1>1. /\ L \in Nat /\ VoiceThreshold \in Nat \ {0} /\ SilenceThreshold \in Nat \ {0}
      /\ Len(g) = L + 1 /\ g[L + 1] = FALSE /\ g \in Seq(BOOLEAN)
  BY Appended
<1>2. RunOf(g, FALSE, n + 1) /\ n <= L
  BY RunGrows DEF RunOf
<1>3. \A i \in L - n + 1..L : f[i] = FALSE
  BY DEF RunOf, AllAre
<1> HIDE DEF L
<1>4. ASSUME NEW on \in VoiceThreshold..L, OnSince(f, on)
      PROVE  (/\ L + 1 >= on + SilenceThreshold
              /\ AllAre(g, FALSE, (L + 1) - SilenceThreshold + 1, L + 1))
                <=> SilenceThreshold <= n + 1
  <2>1. on \in Nat /\ on <= L /\ on \in on - VoiceThreshold + 1..on
    BY <1>1
  <2>2. f[on] = TRUE
    BY <1>4, <2>1 DEF OnSince, AllAre
  <2>3. on <= L - n
    BY <1>1, <1>2, <1>3, <2>1, <2>2
  <2> DEFINE Paused == AllAre(g, FALSE, (L + 1) - SilenceThreshold + 1, L + 1)
  <2>4. SilenceThreshold <= L + 1 => (Paused <=> SilenceThreshold <= n + 1)
    <3>1. SUFFICES ASSUME SilenceThreshold <= L + 1 PROVE Paused <=> SilenceThreshold <= n + 1
      OBVIOUS
    <3>2. n + 1 \in Nat /\ SilenceThreshold \in Nat /\ SilenceThreshold <= Len(g)
      BY <1>1, <3>1
    <3>3. AllAre(g, FALSE, Len(g) - SilenceThreshold + 1, Len(g)) <=> SilenceThreshold <= n + 1
      BY <1>1, <1>2, <3>2, RunIsLongest
    <3>4. QED
      BY <1>1, <3>3
  <2>5. ASSUME SilenceThreshold <= n + 1
        PROVE  /\ L + 1 >= on + SilenceThreshold
               /\ AllAre(g, FALSE, (L + 1) - SilenceThreshold + 1, L + 1)
    <3>1. L + 1 >= on + SilenceThreshold /\ SilenceThreshold <= L + 1
      BY <1>1, <1>2, <2>1, <2>3, <2>5
    <3>2. QED
      BY <2>5, <2>4, <3>1
  <2>6. ASSUME L + 1 >= on + SilenceThreshold,
               AllAre(g, FALSE, (L + 1) - SilenceThreshold + 1, L + 1)
        PROVE  SilenceThreshold <= n + 1
    <3>1. SilenceThreshold <= L + 1
      BY <1>1, <2>1, <2>6
    <3>2. QED
      BY <2>6, <2>4, <3>1
  <2>7. QED
    BY <2>5, <2>6
<1>5. ASSUME NEW on \in VoiceThreshold..L
      PROVE  OnSince(g, on) <=> OnSince(f, on) /\ ~(SilenceThreshold <= n + 1)
  <2>1. OnSince(g, on) <=>
           /\ OnSince(f, on)
           /\ ~ /\ L + 1 >= on + SilenceThreshold
                /\ AllAre(g, FALSE, (L + 1) - SilenceThreshold + 1, L + 1)
    BY <1>1, OnStays, Zenon DEF L
  <2>2. QED
    BY <1>4, <2>1, Zenon
<1>6. ~OnSince(g, L + 1)
  <2>1. L + 1 \in (L + 1) - VoiceThreshold + 1..L + 1
    BY <1>1
  <2>2. QED
    BY <1>1, <2>1 DEF OnSince, AllAre
<1>7. \A on : on \in VoiceThreshold..L + 1 <=>
        on \in VoiceThreshold..L \/ (on = L + 1 /\ L + 1 >= VoiceThreshold)
  BY <1>1, OneMoreTo
<1>8. n + 1 < SilenceThreshold <=> ~(SilenceThreshold <= n + 1)
  BY <1>1
<1>9. QED
  BY <1>1, <1>5, <1>6, <1>7, <1>8, Zenon DEF L

\* What the detector is fed, it counts and answers.
LEMMA FedStep ==
  ASSUME SpTypeOK, Counted, VoiceGateIsHysteresis, NEW b \in BOOLEAN,
         fed' = Append(fed, b),
         voiceCount' = Detect(Vad, b).voices,
         silenceCount' = Detect(Vad, b).silences,
         isVoice' = Detect(Vad, b).on
  PROVE  Counted' /\ VoiceGateIsHysteresis'
<1>1. /\ fed \in Seq(BOOLEAN) /\ isVoice \in BOOLEAN
      /\ voiceCount \in Nat /\ silenceCount \in Nat
  BY DEF SpTypeOK, Vad, VadState
<1>2. CASE b = TRUE
  <2>1. /\ voiceCount' = voiceCount + 1 /\ silenceCount' = 0
        /\ isVoice' = (isVoice \/ voiceCount + 1 >= VoiceThreshold)
    BY <1>1, <1>2 DEF Detect, Vad
  <2>2. RunOf(fed', TRUE, voiceCount + 1) /\ RunOf(fed', FALSE, 0)
    BY <1>1, <1>2, RunGrows, RunEnds DEF Counted
  <2>3. (\E on \in VoiceThreshold..Len(fed') : OnSince(fed', on)) <=>
           \/ \E on \in VoiceThreshold..Len(fed) : OnSince(fed, on)
           \/ voiceCount + 1 >= VoiceThreshold
    BY <1>1, <1>2, SpeechStep DEF Counted
  <2>4. QED
    BY <2>1, <2>2, <2>3, Zenon DEF Counted, VoiceGateIsHysteresis
<1>3. CASE b = FALSE
  <2>1. /\ voiceCount' = 0 /\ silenceCount' = silenceCount + 1
        /\ isVoice' = (isVoice /\ silenceCount + 1 < SilenceThreshold)
    BY <1>1, <1>3 DEF Detect, Vad
  <2>2. RunOf(fed', FALSE, silenceCount + 1) /\ RunOf(fed', TRUE, 0)
    BY <1>1, <1>3, RunGrows, RunEnds DEF Counted
  <2>3. (\E on \in VoiceThreshold..Len(fed') : OnSince(fed', on)) <=>
           /\ \E on \in VoiceThreshold..Len(fed) : OnSince(fed, on)
           /\ silenceCount + 1 < SilenceThreshold
    BY <1>1, <1>3, PauseStep DEF Counted
  <2>4. QED
    BY <2>1, <2>2, <2>3, Zenon DEF Counted, VoiceGateIsHysteresis
<1>4. QED
  BY <1>2, <1>3

-----------------------------------------------------------------------------
\* The keys.

\* A key event is the last of its key, and concerns no other.
LEMMA HoldStep ==
  ASSUME SpTypeOK, NEW k \in Key, NEW down \in BOOLEAN,
         keys' = Append(keys, [key |-> k, down |-> down]),
         NEW other \in Key
  PROVE  HoldOf(other)' = IF other # k THEN HoldOf(other)
                          ELSE IF down THEN HoldOf(k) \cup {Now} ELSE {}
<1> DEFINE L == Len(keys)
           Event == [key : Key, down : BOOLEAN]
<1>1. /\ keys \in Seq(Event) /\ L \in Nat
      /\ keys' \in Seq(Event) /\ Len(keys') = L + 1 /\ Now = L + 1
  BY AppendType DEF SpTypeOK, Now
<1>2. /\ keys'[L + 1].key = k /\ keys'[L + 1].down = down
      /\ \A i \in 1..L : keys'[i] = keys[i]
  BY <1>1
<1> HIDE DEF L
<1>3. \A i : i \in 1..L + 1 <=> i \in 1..L \/ i = L + 1
  BY <1>1
<1>4. Events(other) = {i \in 1..L : keys[i].key = other}
  BY DEF Events, L
<1>5. \A i : i \in Events(other)' <=> i \in Events(other) \/ (i = L + 1 /\ other = k)
  <2>1. Events(other)' = {i \in 1..L + 1 : keys'[i].key = other}
    BY <1>1 DEF Events
  <2>2. QED
    BY <1>2, <1>3, <1>4, <2>1
<1>6. \A i \in Events(other) : i \in 1..L /\ i # L + 1 /\ L + 1 >= i /\ keys'[i].down = keys[i].down
  BY <1>1, <1>2, <1>4
<1>7. \A i \in Events(other) : ~(i >= L + 1)
  BY <1>1, <1>6
<1>8. /\ HoldOf(other) = {i \in Events(other) : \A j \in Events(other) : j >= i => keys[j].down}
      /\ HoldOf(other)' = {i \in Events(other)' : \A j \in Events(other)' : j >= i => keys'[j].down}
  BY DEF HoldOf
<1>9. CASE other # k
  <2>1. Events(other)' = Events(other)
    BY <1>5, <1>9
  <2>2. QED
    BY <1>6, <1>8, <1>9, <2>1
<1>10. CASE other = k /\ down
  <2>1. ASSUME NEW i \in HoldOf(k)' PROVE i \in HoldOf(k) \cup {Now}
    <3>1. i \in Events(k)' /\ \A j \in Events(k)' : j >= i => keys'[j].down
      BY <1>8, <1>10, <2>1
    <3>2. CASE i = L + 1
      BY <1>1, <3>2
    <3>3. CASE i # L + 1
      <4>1. i \in Events(k)
        BY <1>5, <1>10, <3>1, <3>3
      <4>2. ASSUME NEW j \in Events(k), j >= i PROVE keys[j].down
        <5>1. j \in Events(k)'
          BY <1>5, <1>10
        <5>2. keys'[j].down
          BY <3>1, <4>2, <5>1
        <5>3. QED
          BY <1>6, <1>10, <5>2
      <4>3. QED
        BY <1>8, <1>10, <4>1, <4>2
    <3>4. QED
      BY <3>2, <3>3
  <2>2. ASSUME NEW i \in HoldOf(k) PROVE i \in HoldOf(k)'
    <3>1. i \in Events(k) /\ \A j \in Events(k) : j >= i => keys[j].down
      BY <1>8, <1>10, <2>2
    <3>2. ASSUME NEW j \in Events(k)', j >= i PROVE keys'[j].down
      <4>1. CASE j = L + 1
        BY <1>2, <1>10, <4>1
      <4>2. CASE j # L + 1
        <5>1. j \in Events(k)
          BY <1>5, <1>10, <4>2
        <5>2. QED
          BY <1>6, <1>10, <3>1, <3>2, <5>1
      <4>3. QED
        BY <4>1, <4>2
    <3>3. i \in Events(k)'
      BY <1>5, <1>10, <3>1
    <3>4. QED
      BY <1>8, <1>10, <3>2, <3>3
  <2>3. L + 1 \in HoldOf(k)'
    <3>1. L + 1 \in Events(k)'
      BY <1>5, <1>10
    <3>2. ASSUME NEW j \in Events(k)', j >= L + 1 PROVE keys'[j].down
      <4>1. j = L + 1
        BY <1>5, <1>7, <1>10, <3>2
      <4>2. QED
        BY <1>2, <1>10, <4>1
    <3>3. QED
      BY <1>8, <1>10, <3>1, <3>2
  <2>4. Now = L + 1 /\ HoldOf(k)' = HoldOf(k) \cup {L + 1}
    <3>1. Now = L + 1
      BY <1>1
    <3>2. QED
      BY <2>1, <2>2, <2>3, <3>1, Zenon
  <2>5. HoldOf(k)' = HoldOf(k) \cup {Now}
    BY <2>4, Zenon
  <2>6. QED
    BY <1>10, <2>5, Zenon
<1>11. CASE other = k /\ ~down
  <2>1. ASSUME NEW i \in HoldOf(k)' PROVE FALSE
    <3>1. i \in Events(k)' /\ L + 1 \in Events(k)'
      BY <1>5, <1>8, <1>11, <2>1
    <3>2. L + 1 >= i
      BY <1>1, <1>5, <1>6, <1>11, <3>1
    <3>3. QED
      BY <1>2, <1>8, <1>11, <2>1, <3>1, <3>2
  <2>2. QED
    BY <1>11, <2>1
<1>12. QED
  BY <1>9, <1>10, <1>11

LEMMA KeyStep ==
  ASSUME SpTypeOK, Pressed, NEW k \in Key, NEW down \in BOOLEAN, SetPerType(k, down)
  PROVE  Pressed'
<1>1. /\ keys' = Append(keys, [key |-> k, down |-> down])
      /\ lastPress' = [lastPress EXCEPT ![k] = Stamp(k, down)]
      /\ held' = [held EXCEPT ![k] = down]
  BY DEF SetPerType
<1>2. /\ held \in [Key -> BOOLEAN] /\ lastPress \in [Key -> 0..MaxKeys]
      /\ Len(keys) \in Nat /\ Now = Len(keys) + 1 /\ MaxKeys \in Nat
  BY DEF SpTypeOK, Now
<1>3. ASSUME NEW other \in Key, other # k
      PROVE  /\ held'[other] = held[other] /\ lastPress'[other] = lastPress[other]
             /\ HoldOf(other)' = HoldOf(other)
  BY <1>1, <1>2, <1>3, HoldStep
<1>4. held'[k] = down /\ lastPress'[k] = Stamp(k, down)
  BY <1>1, <1>2
<1>5. HoldOf(k) \subseteq 1..Len(keys)
  BY DEF HoldOf, Events
<1>6. CASE down
  <2>1. HoldOf(k)' = HoldOf(k) \cup {Now}
    BY <1>1, <1>6, HoldStep
  <2>2. CASE held[k]
    <3>1. /\ lastPress'[k] = lastPress[k] /\ lastPress[k] \in HoldOf(k)
          /\ \A i \in HoldOf(k) : lastPress[k] <= i
      BY <1>4, <2>2 DEF Stamp, Pressed
    <3>2. lastPress[k] <= Now
      BY <1>2, <1>5, <3>1
    <3>3. QED
      BY <1>3, <1>4, <1>6, <2>1, <3>1, <3>2 DEF Pressed
  <2>3. CASE ~held[k]
    <3>1. HoldOf(k)' = {Now} /\ lastPress'[k] = Now /\ Now <= Now
      BY <1>2, <1>4, <1>6, <2>1, <2>3 DEF Stamp, Pressed
    <3>2. QED
      BY <1>3, <1>4, <1>6, <3>1 DEF Pressed
  <2>4. QED
    BY <2>2, <2>3
<1>7. CASE ~down
  <2>1. HoldOf(k)' = {}
    BY <1>1, <1>7, HoldStep
  <2>2. QED
    BY <1>3, <1>4, <1>7, <2>1 DEF Pressed
<1>8. QED
  BY <1>6, <1>7

-----------------------------------------------------------------------------
\* The inductive invariant.

LEMMA SpCountedStep ==
  ASSUME SpInv, [SpNext]_Spvars
  PROVE  Counted' /\ VoiceGateIsHysteresis'
<1>1. SpTypeOK /\ Counted /\ VoiceGateIsHysteresis
  BY DEF SpInv
<1>2. CASE UNCHANGED vad
  BY <1>1, <1>2 DEF vad, Counted, VoiceGateIsHysteresis
<1>3. CASE Transmit
  <2>1. CASE mode = "VoiceActivity"
    <3> DEFINE b == Head(out) = "voice"
    <3>1. /\ fed' = Append(fed, b)
          /\ voiceCount' = Detect(Vad, b).voices
          /\ silenceCount' = Detect(Vad, b).silences
          /\ isVoice' = Detect(Vad, b).on
      BY <1>3, <2>1 DEF Transmit
    <3>2. b \in BOOLEAN
      OBVIOUS
    <3> HIDE DEF b
    <3>3. QED
      BY <1>1, <3>1, <3>2, FedStep
  <2>2. CASE mode # "VoiceActivity"
    <3>1. UNCHANGED vad
      BY <1>3, <2>2 DEF Transmit, vad, Vad
    <3>2. QED
      BY <1>2, <3>1
  <2>3. QED
    BY <2>1, <2>2
<1>4. Transmit \/ UNCHANGED vad
  BY DEF SpNext, Spvars, outgoing, SetPerType, SetPtt, UpdateSettings, Connected, Disconnected,
         RoomJoined, LeaveRoom, Capture, Forward, SetInputDevice, StartTurn, EndTurn
<1>5. QED
  BY <1>2, <1>3, <1>4

LEMMA PressedStep ==
  ASSUME SpInv, [SpNext]_Spvars
  PROVE  Pressed'
<1>1. SpTypeOK /\ Pressed
  BY DEF SpInv
<1>2. CASE UNCHANGED <<held, lastPress, keys>>
  BY <1>1, <1>2 DEF Pressed, HoldOf, Events
<1>3. \/ \E k \in Key, down \in BOOLEAN : SetPerType(k, down)
      \/ UNCHANGED <<held, lastPress, keys>>
  BY DEF SpNext, Spvars, speak, SetPtt, UpdateSettings, Connected, Disconnected,
         RoomJoined, LeaveRoom, Capture, Forward, SetInputDevice, StartTurn, Transmit, EndTurn
<1>4. QED
  BY <1>1, <1>2, <1>3, KeyStep

LEMMA OrderedStep ==
  ASSUME SpInv, [SpNext]_Spvars
  PROVE  Ordered'
<1>1. /\ steps \in Nat /\ joinedAt \in [Room -> 0..steps]
      /\ Ordered
  BY DEF SpInv, SpTypeOK
<1>2. CASE UNCHANGED joinedAt
  BY <1>1, <1>2 DEF Ordered, Joined
<1>3. ASSUME NEW opens \in BOOLEAN, Connected(opens) PROVE Ordered'
  <2>1. joinedAt' = [r \in Room |-> 0]
    BY <1>3 DEF Connected
  <2>2. QED
    BY <2>1 DEF Ordered, Joined
<1>4. ASSUME NEW r \in Room, RoomJoined(r) PROVE Ordered'
  <2>1. joinedAt' = [joinedAt EXCEPT ![r] = steps + 1]
    BY <1>4 DEF RoomJoined, Step
  <2>2. \A other \in Room : joinedAt[other] < steps + 1
    BY <1>1
  <2>3. QED
    BY <1>1, <2>1, <2>2 DEF Ordered, Joined
<1>5. ASSUME NEW r \in Room, LeaveRoom(r) PROVE Ordered'
  <2>1. joinedAt' = [joinedAt EXCEPT ![r] = 0]
    BY <1>5 DEF LeaveRoom
  <2>2. QED
    BY <1>1, <2>1 DEF Ordered, Joined
<1>6. \/ \E opens \in BOOLEAN : Connected(opens)
      \/ \E r \in Room : RoomJoined(r) \/ LeaveRoom(r)
      \/ UNCHANGED joinedAt
  BY DEF SpNext, Spvars, rooms, SetPerType, SetPtt, UpdateSettings, Disconnected,
         Capture, Forward, SetInputDevice, StartTurn, Transmit, EndTurn
<1>7. QED
  BY <1>2, <1>3, <1>4, <1>5, <1>6

LEMMA WantedKept ==
  ASSUME UNCHANGED <<settings, speak, rooms>>
  PROVE  Silent' = Silent /\ \A r : Wanted(r)' = Wanted(r)
<1>1. /\ mode' = mode /\ pttActive' = pttActive /\ keys' = keys /\ joinedAt' = joinedAt
  BY DEF settings, speak, rooms
<1>2. \A k : HoldOf(k)' = HoldOf(k)
  BY <1>1 DEF HoldOf, Events
<1>3. Down' = Down /\ \A k : Began(k)' = Began(k)
  BY <1>2 DEF Down, Began
<1>4. Joined' = Joined
  BY <1>1 DEF Joined
<1>5. \A r : Eligible(r)' = Eligible(r)
  BY <1>3, <1>4 DEF Eligible, Rank
<1>6. Silent' = Silent
  BY <1>1, <1>3 DEF Silent
<1>7. \A r : Wanted(r)' = Wanted(r)
  BY <1>1, <1>4, <1>5 DEF Wanted
<1>8. QED
  BY <1>6, <1>7

\* What a turn depends on changes only between turns.
LEMMA AskedStep ==
  ASSUME SpInv, [SpNext]_Spvars
  PROVE  Asked'
<1>1. SpTypeOK /\ Ordered /\ Pressed /\ Asked
  BY DEF SpInv
<1> DEFINE Asking == <<settings, speak, rooms>>
<1>2. CASE StartTurn
  <2>1. /\ UNCHANGED Asking /\ target' = Resolve
        /\ ~isMuted /\ state = "InRoom"
    BY <1>2 DEF StartTurn, MayTransmit
  <2>2. Resolve # None => ~Silent /\ Wanted(Resolve)
    BY <1>1, ResolveIsWanted
  <2>3. online
    BY <1>1, <2>1 DEF Asked
  <2>4. QED
    BY <2>1, <2>2, <2>3, WantedKept DEF Asked, settings, rooms
<1>3. CASE UNCHANGED <<Asking, target>>
  BY <1>1, <1>3, WantedKept DEF Asked, settings, rooms
<1>4. CASE EndTurn
  BY <1>1, <1>4 DEF EndTurn, Asked, rooms
<1>5. CASE Unlocked /\ target' = target /\ (state' = "InRoom" => online')
  BY <1>5 DEF Unlocked, Asked
<1>6. ASSUME NEW r \in Room, LeaveRoom(r) PROVE state' = "InRoom" => online'
  BY <1>1, <1>6 DEF LeaveRoom, Asked
<1>7. \/ StartTurn \/ EndTurn \/ UNCHANGED <<Asking, target>>
      \/ Unlocked /\ target' = target /\ (state' = "InRoom" => online')
  <2>1. ASSUME NEW k \in Key, NEW down \in BOOLEAN, SetPerType(k, down)
        PROVE  Unlocked /\ UNCHANGED <<target, rooms>>
    BY <2>1 DEF SetPerType, outgoing
  <2>2. ASSUME NEW down \in BOOLEAN, SetPtt(down) PROVE Unlocked /\ UNCHANGED <<target, rooms>>
    BY <2>2 DEF SetPtt, Step, outgoing
  <2>3. ASSUME NEW m \in Mode, NEW muted \in BOOLEAN, UpdateSettings(m, muted)
        PROVE  Unlocked /\ UNCHANGED <<target, rooms>>
    BY <2>3 DEF UpdateSettings, Step, outgoing
  <2>4. ASSUME NEW opens \in BOOLEAN, Connected(opens)
        PROVE  Unlocked /\ target' = target /\ state' # "InRoom"
    BY <2>4 DEF Connected, Step, outgoing
  <2>5. ASSUME Disconnected PROVE Unlocked /\ target' = target /\ state' # "InRoom"
    BY <2>5 DEF Disconnected, Step, outgoing
  <2>6. ASSUME NEW r \in Room, RoomJoined(r) PROVE Unlocked /\ target' = target /\ online'
    BY <2>6 DEF RoomJoined, Step, outgoing
  <2>7. ASSUME NEW r \in Room, LeaveRoom(r) PROVE Unlocked /\ target' = target
    BY <2>7 DEF LeaveRoom, Step, outgoing
  <2>8. ASSUME UNCHANGED rooms PROVE state' = "InRoom" => online'
    BY <1>1, <2>8 DEF rooms, Asked
  <2>9. ASSUME \/ \E sound \in Sound : Capture(sound)
               \/ Forward \/ Transmit \/ UNCHANGED Spvars
               \/ \E opens \in BOOLEAN : SetInputDevice(opens)
        PROVE  UNCHANGED <<Asking, target>>
    BY <2>9 DEF Spvars, outgoing, Capture, Forward, Transmit, SetInputDevice
  <2>10. QED
    BY <1>6, <2>1, <2>2, <2>3, <2>4, <2>5, <2>6, <2>7, <2>8, <2>9 DEF SpNext
<1>8. QED
  BY <1>2, <1>3, <1>4, <1>5, <1>7

LEMMA InitSpInv == SpInit => SpInv
<1> SUFFICES ASSUME SpInit PROVE SpInv
  OBVIOUS
<1> USE DEF SpInit
<1>1. SpTypeOK
  <2>1. <<>> \in Seq(Sound) /\ <<>> \in Seq(Room) /\ <<>> \in Seq(BOOLEAN)
        /\ <<>> \in Seq([key : Key, down : BOOLEAN]) /\ Len(<<>>) = 0
    OBVIOUS
  <2>2. /\ held \in [Key -> BOOLEAN] /\ lastPress \in [Key -> 0..MaxKeys]
        /\ joinedAt \in [Room -> 0..steps]
    OBVIOUS
  <2>3. Vad \in VadState
    BY DEF Vad, VadState
  <2>4. QED
    <3>1. steps \in 0..MaxSteps /\ captured \in 0..MaxFrames
      BY BoundAssumption
    <3>2. /\ Len(capture) <= CaptureCapacity /\ Len(out) <= OutCapacity
          /\ Len(keys) <= MaxKeys
      BY <2>1, BoundAssumption, CapacityAssumption
    <3>3. QED
      BY <2>1, <2>2, <2>3, <3>1, <3>2 DEF SpTypeOK
<1>2. Counted /\ VoiceGateIsHysteresis
  BY DEF Counted, RunOf, AllAre, VoiceGateIsHysteresis
<1>3. Pressed
  BY DEF Pressed, HoldOf, Events
<1>4. Ordered /\ Asked
  BY DEF Ordered, Joined, Asked
<1>5. QED
  BY <1>1, <1>2, <1>3, <1>4 DEF SpInv

LEMMA StepSpInv == SpInv /\ [SpNext]_Spvars => SpInv'
<1> SUFFICES ASSUME SpInv, [SpNext]_Spvars PROVE SpInv'
  OBVIOUS
<1>1. SpTypeOK'
  BY SpTypeStep DEF SpInv
<1>2. QED
  BY <1>1, SpCountedStep, PressedStep, OrderedStep, AskedStep DEF SpInv

\* The inductive invariant holds: what is shown of the detector, the keys and a turn
\* that is under way.
THEOREM SpeechInvariance == SpSpec => []SpInv
BY InitSpInv, StepSpInv, PTL DEF SpSpec

\* The detector is on exactly if a long enough run of speech was seen and no long
\* enough pause since (VoiceActivityDetector::process).
THEOREM GateIsHysteresis == SpSpec => []VoiceGateIsHysteresis
<1>1. SpInv => VoiceGateIsHysteresis
  BY DEF SpInv
<1>2. QED
  BY <1>1, SpeechInvariance, PTL

\* A frame goes to the room that the keys ask for, and to none while the player is
\* muted, off line or holds no key (process_outgoing_audio, ActiveSpeak::resolve).
THEOREM SpeechGoesWhereAsked == SpSpec => GoesWhereAsked
<1> DEFINE Goes == \A i \in Len(sent) + 1..Len(sent') :
                     ~isMuted /\ online /\ ~Silent /\ Wanted(sent'[i])
<1>1. ASSUME SpInv, [SpNext]_Spvars PROVE [Goes]_Spvars
  <2>1. SpTypeOK /\ Asked
    BY <1>1 DEF SpInv
  <2>2. sent \in Seq(Room) /\ Len(sent) \in Nat
    BY <2>1 DEF SpTypeOK
  <2>3. CASE sent' = sent
    <3>1. Len(sent) + 1..Len(sent') = {}
      BY <2>2, <2>3
    <3>2. QED
      BY <3>1
  <2>4. CASE Transmit /\ sent' # sent
    <3>1. target # None /\ sent' = Append(sent, target)
      BY <2>4 DEF Transmit
    <3>2. ~isMuted /\ online /\ ~Silent /\ Wanted(target)
      BY <2>1, <3>1 DEF Asked
    <3>3. target \in Room
      BY <2>1, <3>1 DEF SpTypeOK
    <3>4. \A i \in Len(sent) + 1..Len(sent') : sent'[i] = target
      BY <2>2, <3>1, <3>3
    <3>5. QED
      BY <3>2, <3>4
  <2>5. Transmit \/ sent' = sent
    BY <1>1 DEF SpNext, Spvars, outgoing, SetPerType, SetPtt, UpdateSettings, Connected,
                Disconnected, RoomJoined, LeaveRoom, Capture, Forward, SetInputDevice,
                StartTurn, EndTurn
  <2>6. QED
    BY <2>3, <2>4, <2>5
<1>2. QED
  BY <1>1, SpeechInvariance, PTL DEF SpSpec, GoesWhereAsked
=============================================================================
