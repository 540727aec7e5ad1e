------------------------------ MODULE Playback ------------------------------
(***************************************************************************)
(* The way of a frame from the network to the loudspeaker:                 *)
(* the jitter buffer of one stream and the two clocks that pace the mixing *)
(* (IncomingPlaybackEngine, client/src/audio/thread.rs), the channel and   *)
(* the buffer behind it, with the thread that drains the one into the      *)
(* other and the device that plays it (client/src/audio/playback.rs).      *)
(*                                                                         *)
(* Time goes in ticks; the clocks are kept as distances from now.  Frames  *)
(* are counted.  A muted peer's frames are taken like any other's, and     *)
(* thrown away.                                                            *)
(***************************************************************************)
EXTENDS Integers, FiniteSetsExt

CONSTANTS
  Frame,                  \* ticks in a frame: frame_duration
  Ahead, Burst,           \* target_lead and the bounds of process(), in frames
  Target, JitterMax,      \* JitterBuffer: target_size, max_size
  ChannelCap, BufferCap,  \* frames in the channel, and in 48000 samples
  Offset,                 \* when in the device's cycle the peer's frames are sent
  InFlight,               \* the network delays a frame by fewer frames than this
  MaxSleep, MaxHold,      \* ticks within which the two threads run
  Far                     \* bound on how far next_mix_at runs ahead

ASSUME PlaybackAssumption ==
  /\ {Frame, Ahead, Burst, Target, JitterMax, ChannelCap, BufferCap, InFlight}
       \subseteq Nat \ {0}
  /\ Offset \in 0..(Frame - 1) /\ MaxSleep \in Nat \ {0} /\ MaxHold \in Nat /\ Far \in Nat

\* A burst lasts longer than the lead, and the lead outlasts the two threads' pauses;
\* the jitter buffer holds a burst beyond what it keeps back, the channel all bursts
\* between two turns of its thread, the buffer a burst on top of the lead.
ASSUME SizeAssumption ==
  /\ Ahead <= Burst
  /\ MaxSleep + MaxHold < Ahead * Frame
  /\ Burst * (MaxHold + 1) <= ChannelCap
  /\ Ahead + Burst < BufferCap
  /\ Target - 1 + Burst <= JitterMax
  /\ (Ahead + Burst) * Frame <= Far

VARIABLES
  active,    \* is_active
  device,    \* AudioPlayback: "none", "sender" (nothing plays), "playing"
  deafened,
  net,       \* external: frames of the peer that are under way
  jitter,    \* frames in its jitter buffer
  nextMix,   \* next_mix_at - now
  lead,      \* playback_buffered_until - now
  channel,   \* sample_sender's
  orphans,   \* in channels whose sender is gone, still being drained
  buffer,
  phase,     \* external: the device's cycle
  asleep, waited,  \* ticks since the audio thread and the buffer's ran
  primed,    \* history: the device has had frames since the clocks were reset
  gap,       \* history: it found none all the same
  lost,      \* history: frames the jitter buffer lost since the last burst, if played
  escaped,   \* history: frames that the last clear_buffer did not reach
  deafFor    \* history: ticks for which it has been active and deafened

clocks == <<nextMix, lead>>
output == <<channel, orphans, buffer>>
thread == <<active, device, deafened>>
histories == <<primed, gap, lost, escaped, deafFor>>
vars == <<thread, net, jitter, clocks, output, phase, asleep, waited, histories>>

Init ==
  /\ active = FALSE /\ device = "none" /\ deafened = FALSE
  /\ net = 0 /\ jitter = 0 /\ nextMix = 0 /\ lead = 0
  /\ channel = 0 /\ orphans = 0 /\ buffer = 0
  /\ phase = 0 /\ asleep = 0 /\ waited = 0
  /\ primed = FALSE /\ gap = FALSE /\ lost = 0 /\ escaped = 0 /\ deafFor = 0

ResetTiming == nextMix' = 0 /\ lead' = 0 /\ primed' = FALSE /\ lost' = 0

\* clear_buffer does not reach what is still in a channel.
ClearBuffer == buffer' = 0 /\ escaped' = channel + orphans
-----------------------------------------------------------------------------
(* The audio thread: process() *)

\* How many frames are mixed: the loop ends on either clock or on the bound; it
\* advances next_mix_at only.  Mutant: it looks at next_mix_at only.
DueByMixClock(next, ahead) ==
  Min({k \in 0..Burst : k = Burst \/ next + k * Frame > 0})
Due(next, ahead) ==
  Min({k \in 0..Burst : k = Burst \/ (next + k * Frame > 0 /\ ahead >= Ahead * Frame)})

\* push(): a full buffer loses its oldest frame.  Mutant: it grows.
KeepsAll(n) == n + 1
Pushed(n) == Min({n + 1, JitterMax})

\* What k calls of pop() leave, which keeps Target - 1 frames back.
Popped(n, k) == Max({Min({n, Target - 1}), n - k})

\* Deaf: everything is thrown away.  Mutant: the output buffer is not.
DeafKeeps == jitter' = 0 /\ ResetTiming /\ UNCHANGED <<output, escaped>>
Deaf == jitter' = 0 /\ ResetTiming /\ ClearBuffer /\ UNCHANGED <<channel, orphans>>

\* Of k frames to mix, the one that was not queued has been taken as well.
\* Mutant: a stream is asked once.
TakenOnce(k, sent) == 1
Taken(k, sent) == Min({k, sent + 1})

\* Frames are queued until one does not fit, or there is no channel.
\* Mutant: playback_buffered_until does not say what was queued.
MixUnpaced(k, next, ahead) ==
  LET sent == IF device = "none" THEN 0 ELSE Min({k, ChannelCap - channel})
  IN  /\ channel' = channel + sent
      /\ jitter' = Popped(jitter, Taken(k, sent))
      /\ nextMix' = Min({next + k * Frame, Far})
      /\ lead' = ahead
      /\ lost' = 0 /\ UNCHANGED <<orphans, buffer, primed, escaped>>
Mix(k, next, ahead) ==
  LET sent == IF device = "none" THEN 0 ELSE Min({k, ChannelCap - channel})
  IN  /\ channel' = channel + sent
      /\ jitter' = Popped(jitter, Taken(k, sent))
      /\ nextMix' = Min({next + k * Frame, Far})
      /\ lead' = IF sent = k THEN ahead + k * Frame ELSE 0
      /\ lost' = 0 /\ UNCHANGED <<orphans, buffer, primed, escaped>>

Process ==
  LET next  == Max({nextMix, -(Burst * Frame)})
      ahead == Max({lead, 0})
      k     == Due(next, ahead)
  IN  IF k = 0
      THEN /\ nextMix' = next /\ lead' = ahead
           /\ UNCHANGED <<jitter, output, primed, lost, escaped>>
      ELSE IF deafened THEN Deaf ELSE Mix(k, next, ahead)

\* One round of audio_thread_main's loop, without commands; then it sleeps.
Run ==
  /\ asleep > 0 /\ asleep' = 0
  /\ IF active THEN Process ELSE UNCHANGED <<jitter, clocks, output, primed, lost, escaped>>
  /\ UNCHANGED <<thread, net, phase, waited, gap, deafFor>>
-----------------------------------------------------------------------------
(* The audio thread: commands *)

Others == UNCHANGED <<net, phase, asleep, waited, gap>>

\* AudioPlayback::start fails before it has made a channel, or after.
Started(d) == d \in {"none", "sender", "playing"}

Start ==
  /\ ~active /\ active' = TRUE
  /\ Started(device') /\ ResetTiming
  /\ UNCHANGED <<deafened, jitter, output, escaped, deafFor>> /\ Others

\* The channel is left to its thread, which drains it into the same buffer.
StopOutput == ClearBuffer /\ orphans' = orphans + channel /\ channel' = 0

Stop ==
  /\ active /\ active' = FALSE /\ device' = "none"
  /\ StopOutput /\ ResetTiming /\ deafFor' = 0
  /\ UNCHANGED <<deafened, jitter>> /\ Others

SetOutputDevice ==
  /\ active
  /\ StopOutput /\ Started(device') /\ ResetTiming
  /\ UNCHANGED <<active, deafened, jitter, deafFor>> /\ Others

\* SetPlaybackSettings, for whatever setting: while deafened it clears again.
SetDeafened(b) ==
  /\ deafened' = b
  /\ IF b THEN Deaf ELSE UNCHANGED <<jitter, clocks, output, primed, lost, escaped>>
  /\ deafFor' = IF b /\ deafened THEN deafFor ELSE 0
  /\ UNCHANGED <<active, device>> /\ Others

\* ResetIncoming: the stream is gone, and starts anew with the next frame.
ResetIncoming ==
  /\ jitter' = 0 /\ ClearBuffer /\ ResetTiming
  /\ UNCHANGED <<thread, channel, orphans, deafFor>> /\ Others

\* A frame arrives and is decoded.
Push ==
  /\ net > 0 /\ net' = net - 1
  /\ jitter' = Pushed(jitter)
  /\ lost' = IF jitter = JitterMax /\ primed /\ device = "playing"
             THEN Min({lost + 1, JitterMax}) ELSE lost
  /\ UNCHANGED <<thread, clocks, output, phase, asleep, waited, primed, gap, escaped, deafFor>>
-----------------------------------------------------------------------------
(* The other threads, and time *)

\* The buffer keeps the newest.
Drain ==
  /\ channel + orphans > 0
  /\ buffer' = Min({buffer + channel + orphans, BufferCap})
  /\ channel' = 0 /\ orphans' = 0 /\ waited' = 0
  /\ primed' = (primed \/ (channel > 0 /\ device = "playing"))
  /\ UNCHANGED <<thread, net, jitter, clocks, phase, asleep, gap, lost, escaped, deafFor>>

\* A tick goes by: the device takes a frame once in a cycle, the peer sends one or
\* pauses.  Neither thread is kept waiting for longer than it may be.
Tick ==
  /\ asleep < MaxSleep
  /\ channel + orphans > 0 => waited < MaxHold
  /\ asleep' = asleep + 1
  /\ waited' = IF channel + orphans > 0 THEN waited + 1 ELSE 0
  /\ phase' = IF phase + 1 = Frame THEN 0 ELSE phase + 1
  /\ nextMix' = Max({nextMix - 1, -(Burst * Frame) - 1})
  /\ lead' = Max({lead - 1, -1})
  /\ deafFor' = IF deafened /\ active THEN Min({deafFor + 1, MaxSleep + MaxHold + 2}) ELSE 0
  /\ IF phase' = 0 /\ device = "playing"
     THEN buffer' = Max({buffer - 1, 0}) /\ gap' = (gap \/ (primed /\ buffer = 0))
     ELSE UNCHANGED <<buffer, gap>>
  /\ IF phase' = Offset THEN net < InFlight /\ net' \in {net, net + 1} ELSE UNCHANGED net
  /\ UNCHANGED <<thread, jitter, channel, orphans, primed, lost, escaped>>

Next ==
  \/ Run \/ Start \/ Stop \/ SetOutputDevice \/ ResetIncoming
  \/ \E b \in BOOLEAN : SetDeafened(b)
  \/ Push \/ Drain \/ Tick

Spec == Init /\ [][Next]_vars
-----------------------------------------------------------------------------
Waiting == channel + orphans + buffer

TypeOK ==
  /\ active \in BOOLEAN /\ device \in {"none", "sender", "playing"}
  /\ deafened \in BOOLEAN /\ (device # "none" => active)
  /\ net \in 0..InFlight /\ jitter \in 0..JitterMax
  /\ nextMix \in (-(Burst * Frame) - 1)..Far /\ lead \in -1..((Ahead + Burst) * Frame)
  /\ channel \in 0..ChannelCap /\ orphans \in Nat /\ buffer \in 0..BufferCap
  /\ phase \in 0..(Frame - 1) /\ asleep \in 0..MaxSleep /\ waited \in 0..MaxHold
  /\ primed \in BOOLEAN /\ gap \in BOOLEAN /\ lost \in 0..JitterMax
  /\ escaped \in Nat /\ deafFor \in 0..(MaxSleep + MaxHold + 2)

\* The device never waits for frames once it has had some, although they come in
\* bursts and through a thread of their own (process, queue_samples, start).
NoGap == ~gap

\* What waits to be played stays short: no more than a burst on top of the lead the
\* code aims at, the frame that is being played and what a pause of the buffer's thread
\* costs, besides the frames that were still in a channel when the buffer was cleared
\* the last time (process, clear_buffer).
DelayIsBounded ==
  device = "playing" =>
    Waiting * Frame < (Ahead + Burst + escaped) * Frame + Frame + MaxHold - 1

\* A deafened player hears nothing, not even what was in a channel when it went deaf,
\* as soon as both threads have run (set_deafened, process).
DeafIsSilent ==
  deafened /\ active /\ deafFor > MaxSleep + MaxHold => Waiting = 0

\* Although it is emptied in bursts that take as many frames as it can hold beyond
\* those it keeps back, the jitter buffer of a peer whose frames come regularly loses
\* no more of them between two bursts than those that were under way, one, and those
\* that come while the thread sleeps (JitterBuffer, process).
LossIsBounded == (lost - InFlight) * Frame < Frame + MaxSleep - 1
-----------------------------------------------------------------------------
(* The inductive invariant *)

\* Without an output nothing waits in a channel, and none counts as started.  A player
\* that is inactive has no frames but those that were in a channel when it stopped.
Silenced ==
  /\ device = "none" => channel = 0 /\ ~primed /\ lead <= 0
  /\ ~active => deafFor = 0 /\ Waiting <= escaped

\* The channel holds a whole burst or none, and one burst for each tick since its thread
\* ran last.
Turns == waited + IF asleep = 0 THEN 1 ELSE 0
Backlog ==
  /\ channel = 0 \/ channel >= Burst
  /\ channel <= Burst * Turns

\* Both clocks stand at most as far back as the thread has slept, unless something has
\* been mixed since they were reset: then there is a lead.
Clocked ==
  /\ lead < (Ahead + Burst) * Frame
  /\ lead > 0 =>
       /\ active /\ ~deafened
       /\ Ahead * Frame - asleep <= lead
       /\ lead - nextMix <= MaxSleep
  /\ lead <= 0 /\ device # "none" => 0 <= nextMix + asleep

\* A deafened player's frames are those from before, as long as a thread has not run.
Ebbing ==
  deafened /\ active =>
    /\ channel + orphans > 0 => deafFor <= waited
    /\ buffer > 0 => deafFor <= MaxHold + asleep

\* The ticks until the device finds the buffer empty.
Supply == buffer * Frame - phase + Frame - 1

Supplied ==
  device = "playing" =>
    /\ ~primed => lead <= channel * Frame
    /\ primed => lead <= Supply + channel * Frame
    /\ primed /\ channel = 0 => Ahead * Frame - asleep <= Supply
    /\ primed /\ channel > 0 => lead > 0 /\ Ahead * Frame - MaxSleep - waited <= Supply

\* What waits is what the lead says, but for what the device did not find in time.
Paced ==
  device = "playing" =>
    /\ lead <= 0 => Waiting <= escaped
    /\ lead > 0 /\ ~primed => channel > 0 /\ Waiting * Frame <= lead + escaped * Frame + waited
    /\ lead > 0 /\ primed => Waiting * Frame <= lead + phase + escaped * Frame + MaxHold

\* Ticks since the peer's frame was due last.
Since == phase - Offset + IF phase >= Offset THEN 0 ELSE Frame

\* The peer's frames that are on their way, wait, or were lost.
Came == jitter + lost + net

\* They are no more than a burst leaves and those that came since it, or since the
\* stream began.
Fed ==
  /\ lost > 0 => jitter = JitterMax
  /\ lead > 0 =>
       (Came - (JitterMax - Burst + InFlight)) * Frame
         <= (Ahead + Burst) * Frame - 1 - lead + Frame - 1 - Since
  /\ lead <= 0 /\ (primed \/ channel > 0) =>
       (Came - InFlight) * Frame <= asleep + Frame - 1 - Since
  /\ ~primed => lost = 0

IInv ==
  TypeOK /\ NoGap /\ Silenced /\ Backlog /\ Clocked /\ Ebbing /\ Supplied /\ Paced /\ Fed
=============================================================================
