------------------------------ MODULE Speaking ------------------------------
(***************************************************************************)
(* What the microphone hears and where it goes.  The device callback       *)
(* (audio/capture.rs) fills one bounded channel, the audio thread          *)
(* (audio/thread.rs) moves it to a second one, and once per game frame the *)
(* manager (voice/manager.rs) decides whether and to which room the player *)
(* speaks (voice/active_speak.rs, audio/vad.rs) and works the second one   *)
(* off, frame by frame.  It holds its lock meanwhile, which keybinds,      *)
(* settings and events take as well; the other two threads go on.          *)
(*                                                                         *)
(* Init, Next, Spec and TypeOK have the prefix Sp, so that a module can    *)
(* extend this one and Playback.                                           *)
(***************************************************************************)
EXTENDS Integers, Sequences

CONSTANTS
  Room,
  Type,              \* of a room: RoomType::from_room_id
  Key,               \* the room types the player has bound a key for
  VoiceThreshold, SilenceThreshold,
  CaptureCapacity, OutCapacity,
  Sound,             \* of frames: "silence" below the level that is sent, "voice" what
                     \* the detector takes for speech, "noise" neither
  None,
  MaxFrames, MaxKeys, MaxSteps   \* bounds on frames, key events and the rest

Mode     == {"PushToTalk", "VoiceActivity", "AlwaysOn"}
Fallback == <<"squad", "party", "pvp_team", "wvw_team", "map">>
RoomType == {Fallback[i] : i \in 1..5}

ASSUME TypeAssumption == Type \in [Room -> RoomType]
ASSUME KeyAssumption == Key \subseteq RoomType
ASSUME VadAssumption ==
  VoiceThreshold \in Nat \ {0} /\ SilenceThreshold \in Nat \ {0}
ASSUME SoundAssumption == Sound \subseteq {"silence", "noise", "voice"}
ASSUME CapacityAssumption ==
  CaptureCapacity \in Nat \ {0} /\ OutCapacity \in Nat \ {0}
ASSUME BoundAssumption ==
  MaxFrames \in Nat /\ MaxKeys \in Nat /\ MaxSteps \in Nat
ASSUME NoneAssumption == None \notin Room

VARIABLES
  steps,
  mode, isMuted,                  \* settings
  held, lastPress, pttActive,     \* ActiveSpeak.per_type; ptt_active
  online,                         \* external: between Connected and Disconnected
  state, joinedAt,                \* VoiceState; joined_rooms, 0 for a room not joined
  isActive, capturing,            \* of the audio thread; of its AudioCapture
  captured,                       \* frames the device has filled
  capture, out,                   \* the two channels
  voiceCount, silenceCount, isVoice,
  target,                         \* of the manager's turn under way, or None
  sent,                           \* the rooms of the SendAudio commands
  keys,                           \* history: key events, [key, down]
  fed                             \* history: what the detector was given

settings   == <<mode, isMuted>>
speak      == <<held, lastPress, pttActive, keys>>
rooms      == <<online, state, joinedAt>>
microphone == <<isActive, capturing, captured, capture>>
vad        == <<voiceCount, silenceCount, isVoice, fed>>
outgoing   == <<vad, target, sent>>
Spvars == <<steps, settings, speak, rooms, microphone, out, outgoing>>

SpInit ==
  /\ steps = 0
  /\ mode \in Mode /\ isMuted = FALSE
  /\ held = [k \in Key |-> FALSE] /\ lastPress = [k \in Key |-> 0]
  /\ pttActive = FALSE
  /\ online = FALSE /\ state = "Connecting" /\ joinedAt = [r \in Room |-> 0]
  /\ isActive = FALSE /\ capturing = FALSE /\ captured = 0
  /\ capture = <<>> /\ out = <<>>
  /\ voiceCount = 0 /\ silenceCount = 0 /\ isVoice = FALSE
  /\ target = None /\ sent = <<>>
  /\ keys = <<>> /\ fed = <<>>

\* A step of whoever waits for the manager's lock.
Unlocked == target = None

Step == Unlocked /\ steps < MaxSteps /\ steps' = steps + 1

-----------------------------------------------------------------------------
\* Keys and settings.  A key that repeats is pressed again before its release.

\* The clock of the presses: every event has a later Instant than the last.
Now == Len(keys) + 1

\* Mutant: a repeat counts as a press.
StampEvery(k, down) == IF down THEN Now ELSE lastPress[k]

Stamp(k, down) == IF down /\ ~held[k] THEN Now ELSE lastPress[k]

SetPerType(k, down) ==
  /\ Unlocked
  /\ Len(keys) < MaxKeys
  /\ down \/ held[k]
  /\ lastPress' = [lastPress EXCEPT ![k] = Stamp(k, down)]
  /\ held' = [held EXCEPT ![k] = down]
  /\ keys' = Append(keys, [key |-> k, down |-> down])
  /\ UNCHANGED <<steps, settings, pttActive, rooms, microphone, out, outgoing>>

SetPtt(down) ==
  /\ Step
  /\ pttActive' = down
  /\ UNCHANGED <<settings, held, lastPress, keys, rooms, microphone, out, outgoing>>

UpdateSettings(m, muted) ==
  /\ Step
  /\ mode' = m /\ isMuted' = muted
  /\ UNCHANGED <<speak, rooms, microphone, out, outgoing>>

-----------------------------------------------------------------------------
\* Rooms, as the manager's network events and leave_room change them.

\* Start: a device that fails to open leaves the thread active.
Connected(opens) ==
  /\ Step
  /\ ~online /\ online' = TRUE
  /\ state' = "Connected" /\ joinedAt' = [r \in Room |-> 0]
  /\ isActive' = TRUE
  /\ capturing' = (capturing \/ (~isActive /\ opens))
  /\ UNCHANGED <<settings, speak, captured, capture, out, outgoing>>

Disconnected ==
  /\ Step
  /\ online /\ online' = FALSE
  /\ state' = "Disconnected"
  /\ UNCHANGED <<settings, speak, joinedAt, microphone, out, outgoing>>

\* The clock of the joins is the count of steps.
RoomJoined(r) ==
  /\ Step
  /\ online
  /\ state' = "InRoom"
  /\ joinedAt' = [joinedAt EXCEPT ![r] = steps']
  /\ UNCHANGED <<online, settings, speak, microphone, out, outgoing>>

Joined == {r \in Room : joinedAt[r] > 0}

\* Also JoinRejected, for a room that is joined again.
LeaveRoom(r) ==
  /\ Step
  /\ r \in Joined
  /\ joinedAt' = [joinedAt EXCEPT ![r] = 0]
  /\ state' = IF Joined = {r} THEN "Connected" ELSE state
  /\ UNCHANGED <<online, settings, speak, microphone, out, outgoing>>

-----------------------------------------------------------------------------
\* Capture.  A full channel drops the newest frame.

\* Mutant: the channel grows.
OfferAnyway(queue, f, capacity) == Append(queue, f)

Offer(queue, f, capacity) ==
  IF Len(queue) < capacity THEN Append(queue, f) ELSE queue

Capture(sound) ==
  /\ capturing
  /\ captured < MaxFrames
  /\ captured' = captured + 1
  /\ capture' = Offer(capture, sound, CaptureCapacity)
  /\ UNCHANGED <<steps, settings, speak, rooms, isActive, capturing, out, outgoing>>

Forward ==
  /\ isActive
  /\ capture # <<>>
  /\ out' = Offer(out, Head(capture), OutCapacity)
  /\ capture' = Tail(capture)
  /\ UNCHANGED <<steps, settings, speak, rooms, isActive, capturing, captured, outgoing>>

\* Stop, select, start again: starting makes a new channel, unless there is no
\* device to start.  The thread, not the manager, takes its time over it.
SetInputDevice(opens) ==
  /\ Step
  /\ isActive
  /\ capturing' = opens
  /\ \/ capture' = <<>>
     \/ ~opens /\ UNCHANGED capture
  /\ UNCHANGED <<settings, speak, rooms, isActive, captured, out, outgoing>>

-----------------------------------------------------------------------------
\* The voice detector.

VadState == [voices : Nat, silences : Nat, on : BOOLEAN]

\* Mutant: frames without speech do not restart the count of those with it.
DetectInTotal(v, isSpeech) ==
  IF isSpeech
  THEN [voices |-> v.voices + 1, silences |-> 0,
        on |-> v.on \/ v.voices + 1 >= VoiceThreshold]
  ELSE [voices |-> v.voices, silences |-> v.silences + 1,
        on |-> v.on /\ v.silences + 1 < SilenceThreshold]

Detect(v, isSpeech) ==
  IF isSpeech
  THEN [voices |-> v.voices + 1, silences |-> 0,
        on |-> v.on \/ v.voices + 1 >= VoiceThreshold]
  ELSE [voices |-> 0, silences |-> v.silences + 1,
        on |-> v.on /\ v.silences + 1 < SilenceThreshold]

Vad == [voices |-> voiceCount, silences |-> silenceCount, on |-> isVoice]

-----------------------------------------------------------------------------
\* Which room the player speaks to.

OfType(t) == {r \in Joined : Type[r] = t}

LatestRoomOfType(t) ==
  IF OfType(t) = {} THEN None
  ELSE CHOOSE r \in OfType(t) : \A other \in OfType(t) : joinedAt[other] <= joinedAt[r]

Held == {k \in Key : held[k]}

LatestPressed == CHOOSE k \in Held : \A other \in Held : lastPress[other] <= lastPress[k]

FallbackChain ==
  LET Open == {i \in 1..5 : OfType(Fallback[i]) # {}}
  IN  LatestRoomOfType(Fallback[CHOOSE i \in Open : \A j \in Open : i <= j])

Resolve ==
  IF Joined = {} THEN None
  ELSE IF Held # {} THEN LatestRoomOfType(LatestPressed)
  ELSE IF mode = "PushToTalk" /\ ~pttActive THEN None
  ELSE FallbackChain

-----------------------------------------------------------------------------
\* The manager's turn: process_outgoing_audio.

MayTransmit == ~isMuted /\ state = "InRoom"

\* A turn that may not send, or finds nothing to send, is no step.
StartTurn ==
  /\ target = None
  /\ out # <<>>
  /\ MayTransmit
  /\ target' = Resolve
  /\ UNCHANGED <<steps, settings, speak, rooms, microphone, out, vad, sent>>

\* One frame: the detector, in its mode, then silence is left out.
Transmit ==
  LET sound    == Head(out)
      isSpeech == sound = "voice"
      gated    == mode = "VoiceActivity"
      v        == IF gated THEN Detect(Vad, isSpeech) ELSE Vad
      goes     == (gated => v.on) /\ sound # "silence"
  IN  /\ target # None
      /\ out # <<>>
      /\ out' = Tail(out)
      /\ voiceCount' = v.voices /\ silenceCount' = v.silences /\ isVoice' = v.on
      /\ fed' = IF gated THEN Append(fed, isSpeech) ELSE fed
      /\ sent' = IF goes THEN Append(sent, target) ELSE sent
      /\ UNCHANGED <<steps, settings, speak, rooms, microphone, target>>

EndTurn ==
  /\ target # None
  /\ out = <<>>
  /\ target' = None
  /\ UNCHANGED <<steps, settings, speak, rooms, microphone, out, vad, sent>>

-----------------------------------------------------------------------------

SpNext ==
  \/ \E k \in Key, down \in BOOLEAN : SetPerType(k, down)
  \/ \E down \in BOOLEAN : SetPtt(down)
  \/ \E m \in Mode, muted \in BOOLEAN : UpdateSettings(m, muted)
  \/ \E opens \in BOOLEAN : Connected(opens)
  \/ Disconnected
  \/ \E r \in Room : RoomJoined(r)
  \/ \E r \in Room : LeaveRoom(r)
  \/ \E sound \in Sound : Capture(sound)
  \/ Forward
  \/ \E opens \in BOOLEAN : SetInputDevice(opens)
  \/ StartTurn
  \/ Transmit
  \/ EndTurn

SpSpec == SpInit /\ [][SpNext]_Spvars

-----------------------------------------------------------------------------
\* Properties

SpTypeOK ==
  /\ steps \in 0..MaxSteps
  /\ mode \in Mode /\ isMuted \in BOOLEAN
  /\ held \in [Key -> BOOLEAN] /\ lastPress \in [Key -> 0..MaxKeys] /\ pttActive \in BOOLEAN
  /\ online \in BOOLEAN
  /\ state \in {"Connecting", "Connected", "InRoom", "Disconnected"}
  /\ joinedAt \in [Room -> 0..steps]
  /\ isActive \in BOOLEAN /\ capturing \in BOOLEAN /\ captured \in 0..MaxFrames
  /\ capture \in Seq(Sound) /\ Len(capture) <= CaptureCapacity
  /\ out \in Seq(Sound) /\ Len(out) <= OutCapacity
  /\ Vad \in VadState
  /\ target \in Room \cup {None} /\ sent \in Seq(Room)
  /\ keys \in Seq([key : Key, down : BOOLEAN]) /\ Len(keys) <= MaxKeys
  /\ fed \in Seq(BOOLEAN)

\* The detector is on exactly if VoiceThreshold frames of speech in a row were
\* once seen and no SilenceThreshold frames without speech in a row since
\* (VoiceActivityDetector::process, whatever mode changes came between).
AllAre(frames, b, from, to) == \A i \in from..to : frames[i] = b

OnSince(frames, on) ==
  /\ AllAre(frames, TRUE, on - VoiceThreshold + 1, on)
  /\ ~\E off \in on + SilenceThreshold..Len(frames) :
         AllAre(frames, FALSE, off - SilenceThreshold + 1, off)

VoiceGateIsHysteresis ==
  isVoice <=> \E on \in VoiceThreshold..Len(fed) : OnSince(fed, on)

\* What the keys ask for, from the record of what was pressed and released: the
\* key whose hold began last, and without one the best-ranked room, of equally
\* ranked rooms the one joined last.
Events(k)   == {i \in 1..Len(keys) : keys[i].key = k}
HoldOf(k)   == {i \in Events(k) : \A j \in Events(k) : j >= i => keys[j].down}
Began(k)    == CHOOSE i \in HoldOf(k) : \A j \in HoldOf(k) : i <= j
Down        == {k \in Key : HoldOf(k) # {}}
Rank(r)     == CHOOSE i \in 1..5 : Fallback[i] = Type[r]
Eligible(r) ==
  IF Down # {}
  THEN Type[r] \in Down /\ \A other \in Down : Began(other) <= Began(Type[r])
  ELSE \A other \in Joined : Rank(r) <= Rank(other)

Wanted(r) ==
  /\ r \in Joined
  /\ Eligible(r)
  /\ \A other \in Joined \ {r} : Type[other] = Type[r] => joinedAt[other] < joinedAt[r]

\* Push to talk, and nothing pressed.
Silent == mode = "PushToTalk" /\ Down = {} /\ ~pttActive

\* The player is heard in the room that the keys ask for and in no other, and not
\* at all while muted, off line, or, with push to talk, holding no key
\* (ActiveSpeak::resolve and process_outgoing_audio against the record of keys).
GoesWhereAsked ==
  [][\A i \in Len(sent) + 1..Len(sent') :
       ~isMuted /\ online /\ ~Silent /\ Wanted(sent'[i])]_Spvars

-----------------------------------------------------------------------------
\* The inductive invariant.

\* A counter is the length of the run of b that what was fed ends in.
RunOf(frames, b, n) ==
  /\ n <= Len(frames) /\ AllAre(frames, b, Len(frames) - n + 1, Len(frames))
  /\ n < Len(frames) => frames[Len(frames) - n] # b

Counted == RunOf(fed, TRUE, voiceCount) /\ RunOf(fed, FALSE, silenceCount)

\* The state of a key is what the record says of it.
Pressed ==
  \A k \in Key :
    /\ held[k] => /\ lastPress[k] \in HoldOf(k)
                  /\ \A i \in HoldOf(k) : lastPress[k] <= i
    /\ ~held[k] => HoldOf(k) = {}

Ordered ==
  \A r, other \in Joined : joinedAt[r] = joinedAt[other] => r = other

\* While a turn goes on, nothing changes of what it began with.
Asked ==
  /\ state = "InRoom" => online
  /\ target # None => ~isMuted /\ online /\ ~Silent /\ Wanted(target)

\* The inductive invariant, from which the detector's hysteresis and the way of
\* what is sent follow.
SpInv ==
  /\ SpTypeOK
  /\ Counted
  /\ VoiceGateIsHysteresis
  /\ Pressed
  /\ Ordered
  /\ Asked
=============================================================================
