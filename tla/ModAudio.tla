------------------------------ MODULE ModAudio ------------------------------
(* The pools of mod_audio.c and Captain Falcon's cues in them              *)
(* (smw_falcon_audio.c).  A package registers clips and plays them on a    *)
(* few voices; the audio thread mixes the voices.  Every operation holds   *)
(* the APU lock from its first access to its last (HostAudio models the    *)
(* lock), so each is one step.  A sample is modelled by where it is read,  *)
(* the fixed point of a voice's phase by fractions of a frame.             *)
EXTENDS Naturals, FiniteSets

CONSTANTS
  Slots,     \* SNES_MOD_AUDIO_MAX_CLIPS
  Voices,    \* SNES_MOD_AUDIO_MAX_VOICES
  MaxBytes,  \* SNES_MOD_AUDIO_MAX_TOTAL_BYTES, in samples
  Cues,      \* FALCON_AUDIO_CUE_COUNT - 1
  One,       \* a frame in units of the phase (2^32)
  Shapes,    \* the clips packages bring: frames, channels, step of the phase
  CueShape   \* the shape of Falcon's

VARIABLES
  clips,     \* s_clips of mod_audio
  voices,    \* s_voices
  cursor,    \* s_replace_cursor
  bytes,     \* s_clip_bytes
  cues,      \* s_clips of smw_falcon_audio: 0 is no clip
  loading,   \* the cue that is loaded next; 0 outside an activation
  others,    \* the clips of other packages
  ghost      \* the generation of each slot, the samples read in this step

vars == <<clips, voices, cursor, bytes, cues, loading, others, ghost>>

NoClip == 0
Slot == 1 .. Slots
Silent == [clip |-> NoClip, phase |-> 0, gen |-> 0]
Empty == [frames |-> 0, channels |-> 0, step |-> 0]

Init ==
  /\ clips = [c \in Slot |-> Empty]
  /\ voices = [v \in 1 .. Voices |-> Silent]
  /\ cursor = 1 /\ bytes = 0 /\ loading = 0 /\ others = {}
  /\ cues = [q \in 1 .. Cues |-> NoClip]
  /\ ghost = [gen |-> [c \in Slot |-> 0], read |-> {}]

Live(c) == c \in Slot /\ clips[c] # Empty                      \* clip_slot
Size(s) == s.frames * s.channels

(* The samples of the clips in some slots, and how many they are.          *)
Stored(slots) == UNION {{c} \X (1 .. Size(clips[c])) : c \in slots}
Bytes(slots) == Cardinality(Stored(slots))

----------------------------------------------------------------------------
(* snes_mod_audio_register_pcm_s16 takes the first free slot, if there is  *)
(* one and the samples fit in what is left; NoClip otherwise.              *)
FreeSlots == {c \in Slot : clips[c] = Empty}

Fits(s) == bytes + Size(s) <= MaxBytes /\ FreeSlots # {}
NextSlot == CHOOSE c \in FreeSlots : \A d \in FreeSlots : c <= d

Registered(s) ==
  /\ clips' = [clips EXCEPT ![NextSlot] = s]
  /\ bytes' = bytes + Size(s)
  /\ ghost' = [gen |-> [ghost.gen EXCEPT ![NextSlot] = 1 - @], read |-> {}]

(* snes_mod_audio_unregister: the voices of a clip end with it.            *)
(* Mutant: they do not.                                                    *)
UnregisteredOnly(gone) ==
  /\ clips' = [c \in Slot |-> IF c \in gone THEN Empty ELSE clips[c]]
  /\ bytes' = bytes - Bytes(gone)
  /\ voices' = voices
  /\ ghost' = [ghost EXCEPT !.read = {}]

Unregistered(gone) ==
  /\ clips' = [c \in Slot |-> IF c \in gone THEN Empty ELSE clips[c]]
  /\ bytes' = bytes - Bytes(gone)
  /\ voices' = [v \in 1 .. Voices |->
                  IF voices[v].clip \in gone THEN Silent ELSE voices[v]]
  /\ ghost' = [ghost EXCEPT !.read = {}]

(* snes_mod_audio_play: the first silent voice, or else the one whose turn *)
(* it is to be replaced.                                                   *)
Idle == {v \in 1 .. Voices : voices[v].clip = NoClip}

Play(c) ==
  /\ loading = 0
  /\ IF ~Live(c) THEN UNCHANGED <<voices, cursor>>
     ELSE LET v == IF Idle = {} THEN cursor
                   ELSE CHOOSE i \in Idle : \A j \in Idle : i <= j
          IN  /\ voices' = [voices EXCEPT ![v] =
                   [clip |-> c, phase |-> 0, gen |-> ghost.gen[c]]]
              /\ cursor' = IF Idle = {} THEN (cursor % Voices) + 1 ELSE cursor
  /\ ghost' = [ghost EXCEPT !.read = {}]
  /\ UNCHANGED <<clips, bytes, cues, loading, others>>

----------------------------------------------------------------------------
(* snes_mod_audio_mix, one frame of it: every voice gives the sample at    *)
(* its phase and the one after it, then moves on; it ends with its clip.   *)

Samples(s, at) ==
  {at * s.channels + k : k \in 0 .. s.channels - 1}
    \union {(at + 1) * s.channels + k :
              k \in IF at + 1 < s.frames THEN 0 .. s.channels - 1 ELSE {}}

Sounding(v) == /\ Live(voices[v].clip)
               /\ voices[v].phase \div One < clips[voices[v].clip].frames

Moved(v) ==
  LET s == clips[voices[v].clip]
      next == voices[v].phase + s.step
  IN  IF next \div One >= s.frames THEN Silent
      ELSE [voices[v] EXCEPT !.phase = next]

Mix ==
  /\ \E v \in 1 .. Voices : voices[v].clip # NoClip
  /\ voices' = [v \in 1 .. Voices |-> IF Sounding(v) THEN Moved(v) ELSE Silent]
  /\ ghost' = [ghost EXCEPT !.read =
       UNION {{<<voices[v].clip, n>> :
                 n \in Samples(clips[voices[v].clip],
                               voices[v].phase \div One)} :
              v \in {u \in 1 .. Voices : Sounding(u)}}]
  /\ UNCHANGED <<clips, cursor, bytes, cues, loading, others>>

----------------------------------------------------------------------------
(* Other packages.                                                         *)

Register(s) ==
  /\ loading = 0 /\ Fits(s)
  /\ Registered(s) /\ others' = others \union {NextSlot}
  /\ UNCHANGED <<voices, cursor, cues, loading>>

Unregister(c) ==
  /\ loading = 0 /\ c \in others
  /\ Unregistered({c}) /\ others' = others \ {c}
  /\ UNCHANGED <<cursor, cues, loading>>

----------------------------------------------------------------------------
(* Captain Falcon.  smw_falcon_audio_reset stops every voice and gives the *)
(* clips back.                                                             *)

Taken == {cues[q] : q \in 1 .. Cues} \ {NoClip}

smw_falcon_audio_reset ==
  /\ clips' = [c \in Slot |-> IF c \in Taken THEN Empty ELSE clips[c]]
  /\ bytes' = bytes - Bytes(Taken)
  /\ voices' = [v \in 1 .. Voices |-> Silent] /\ cursor' = 1
  /\ cues' = [q \in 1 .. Cues |-> NoClip]
  /\ ghost' = [ghost EXCEPT !.read = {}]
  /\ loading' = 0
  /\ UNCHANGED others

(* The owner's voices end with a reset of the package.                     *)
Deactivate == loading = 0 /\ smw_falcon_audio_reset

(* smw_falcon_audio_activate: after a reset the files are read one by one; *)
(* one that cannot be read, is not a wave file or finds no room undoes it. *)
Activate ==
  /\ loading = 0 /\ cues = [q \in 1 .. Cues |-> NoClip]
  /\ loading' = 1
  /\ voices' = [v \in 1 .. Voices |-> Silent] /\ cursor' = 1
  /\ ghost' = [ghost EXCEPT !.read = {}]
  /\ UNCHANGED <<clips, bytes, cues, others>>

LoadOne ==
  /\ loading # 0 /\ Fits(CueShape)
  /\ Registered(CueShape)
  /\ cues' = [cues EXCEPT ![loading] = NextSlot]
  /\ loading' = IF loading = Cues THEN 0 ELSE loading + 1
  /\ UNCHANGED <<voices, cursor, others>>

GiveUp == smw_falcon_audio_reset

LoadFails == loading # 0 /\ GiveUp

(* smw_falcon_audio_play_events: nothing unless every cue is there.        *)
PlayCue(q) ==
  /\ \A r \in 1 .. Cues : cues[r] # NoClip
  /\ Play(cues[q])

Next ==
  \/ Mix \/ Deactivate \/ Activate \/ LoadOne \/ LoadFails
  \/ (\E s \in Shapes : Register(s))
  \/ (\E c \in Slot : Unregister(c) \/ (c \notin Taken /\ Play(c)))
  \/ (\E q \in 1 .. Cues : PlayCue(q))

Spec == Init /\ [][Next]_vars

----------------------------------------------------------------------------
(* A voice plays the clip it was started with: when a slot is given to     *)
(* another clip no voice goes on with it, and no sample outside a clip is  *)
(* read (snes_mod_audio_unregister, snes_mod_audio_mix).                   *)
VoicesPlayTheirClip ==
  /\ \A v \in 1 .. Voices : voices[v].clip # NoClip =>
       Live(voices[v].clip) /\ voices[v].gen = ghost.gen[voices[v].clip]
  /\ \A r \in ghost.read : r[2] < Size(clips[r[1]]) \/ ~Live(r[1])

(* Falcon has all of his cues or none of them, each a clip of its own, and *)
(* the bytes on account are those of the clips (smw_falcon_audio_activate, *)
(* smw_falcon_audio_reset).                                                *)
CuesWhole ==
  /\ loading = 0 => Cardinality(Taken) \in {0, Cues}
  /\ Taken \intersect others = {} /\ \A c \in Taken : Live(c)
  /\ bytes = Bytes(Slot)

(* The clips are their owners' and are played as they are.                 *)
ClipsKept == VoicesPlayTheirClip /\ CuesWhole
=============================================================================
