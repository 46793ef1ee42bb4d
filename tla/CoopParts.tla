----------------------------- MODULE CoopParts -----------------------------
(* The parts of the co-op mode and of the host that run within one step of *)
(* the others, side by side: a behaviour runs one of them, and the         *)
(* variables of the others are off.                                        *)
EXTENDS CoopInput, Integers, TLC, Sequences, FiniteSets

CONSTANTS
  SaveFrames,                                       \* SaveStates
  Machines, Values, Versions,                       \* CoopSnapshot
  Rooms, Anchors, Others, Sprites,                  \* CoopReturn
  Viewers, Positions, Words, HalfBody, Limit, Widths, Far, \* CoopFocus
  Riders, MountSlots, Tiles, Gulp, Touches,         \* CoopMouths
  Shooters, Targets, MaxShots, MaxLife,             \* CoopFire
  Devices, Enabled, QueueMax, MaxHeld,              \* HostPads
  MaxLines, MaxFrames,                              \* HostScript
  Files, Locals,                                    \* HostConfig
  ClipSlots, Voices, MaxBytes, Cues, One, Shapes, CueShape,  \* ModAudio
  Pool, MaxAge, Second, Rates, Foes                 \* LuaFireStream

(* Lengths are pixels; a machine, a mouth and a pool have so many of what  *)
(* they hold.                                                            *)
ASSUME PartsAssumption ==
  /\ SaveFrames \in Nat
  /\ Shooters \in Nat \ {0} /\ Targets \in Nat /\ MaxLife \in Nat
  /\ Pool \in Nat /\ MaxAge \in Nat /\ Second \in Nat \ {0} /\ Rates \subseteq Nat
  /\ IsFiniteSet(Foes)
  /\ Viewers \in Nat /\ Positions \subseteq 0 .. Words - 1 /\ Words \in Nat
  /\ HalfBody \in Nat /\ Limit \in Nat /\ Far \in Nat
  /\ \A layers \in Rooms : \A layer \in layers : layer.dx \in Int /\ layer.dy \in Int
  /\ \A a \in Anchors : a.x \in Int /\ a.feet \in Int
  /\ \A set \in Others : \A q \in set : q.x \in Int /\ q.feet \in Int
  /\ \A set \in Sprites : \A s \in set : s.x \in Int /\ s.y \in Int

ASSUME MouthsAssumption == Riders \in Nat /\ MountSlots \in Nat /\ Gulp \in Nat

(* A clip has a frame at least, of one channel or two.                     *)
ASSUME ClipsAssumption ==
  /\ ClipSlots \in Nat /\ Voices \in Nat /\ Cues \in Nat \ {0} /\ One \in Nat \ {0}
  /\ Shapes \union {CueShape} \subseteq
       [frames : Nat \ {0}, channels : {1, 2}, step : Nat]

VARIABLES
  part,
  s_at, s_guest, s_coop, s_machine, s_staged, s_foreign, s_fighter,
  s_restored, s_file,
  k_live, k_file, k_origin,
  r_room, r_anchor, r_others, r_sprites, r_p, r_place, r_word,
  f_stage, f_word, f_life, f_framing, f_focus, f_stir,
  m_at, m_sprite, m_mouth, m_meal, m_bite, m_berry, m_gone, m_bites,
  m_licks,
  b_at, b_native, b_bank, b_adopted, b_fired, b_next, b_foe, b_damaged,
  b_struck, b_ended,
  p_device, p_queue, p_slot, p_bits, p_left,
  t_script, t_index, t_phase, t_counter, t_log,
  g_at, g_file, g_local, g_config, g_keys, g_chosen,
  v_clips, v_voices, v_cursor, v_bytes, v_cues, v_loading, v_others, v_ghost,
  l_game, l_foe, l_pool, l_rate, l_credit, l_active, l_failed, l_at, l_shadow,
  l_ghost

savesVars == <<s_at, s_guest, s_coop, s_machine, s_staged, s_foreign,
  s_fighter, s_restored, s_file>>
snapshotVars == <<k_live, k_file, k_origin>>
returnVars == <<r_room, r_anchor, r_others, r_sprites, r_p, r_place,
  r_word>>
focusVars == <<f_stage, f_word, f_life, f_framing, f_focus, f_stir>>
mouthsVars == <<m_at, m_sprite, m_mouth, m_meal, m_bite, m_berry, m_gone,
  m_bites, m_licks>>
fireVars == <<b_at, b_native, b_bank, b_adopted, b_fired, b_next, b_foe,
  b_damaged, b_struck, b_ended>>
padsVars == <<p_device, p_queue, p_slot, p_bits, p_left>>
scriptVars == <<t_script, t_index, t_phase, t_counter, t_log>>
configVars == <<g_at, g_file, g_local, g_config, g_keys, g_chosen>>
streamVars == <<l_game, l_foe, l_pool, l_rate, l_credit, l_active, l_failed,
  l_at, l_shadow, l_ghost>>
clipsVars == <<v_clips, v_voices, v_cursor, v_bytes, v_cues, v_loading,
  v_others, v_ghost>>

-----------------------------------------------------------------------------
Saves == INSTANCE SaveStates WITH
  MaxFrame <- SaveFrames, at <- s_at, guest <- s_guest, coop <- s_coop,
  machine <- s_machine, staged <- s_staged, foreign <- s_foreign,
  fighter <- s_fighter, restored <- s_restored, file <- s_file

Snapshot == INSTANCE CoopSnapshot WITH
  live <- k_live, file <- k_file, origin <- k_origin

Return == INSTANCE CoopReturn WITH
  room <- r_room, anchor <- r_anchor,
  others <- r_others, sprites <- r_sprites, p <- r_p, place <- r_place,
  word <- r_word

Focus == INSTANCE CoopFocus WITH
  Players <- 1 .. Viewers, stage <- f_stage, word <- f_word, life <- f_life,
  framing <- f_framing, focus <- f_focus, stir <- f_stir

Mouths == INSTANCE CoopMouths WITH
  Players <- 1 .. Riders, Slots <- 1 .. MountSlots, at <- m_at, sprite <- m_sprite, mouth <- m_mouth, meal <- m_meal,
  bite <- m_bite, berry <- m_berry, gone <- m_gone, bites <- m_bites,
  licks <- m_licks

Fire == INSTANCE CoopFire WITH
  Players <- 1 .. Shooters, Foes <- 1 .. Targets, at <- b_at, native <- b_native, bank <- b_bank, adopted <- b_adopted, fired <- b_fired,
  next <- b_next, foe <- b_foe, damaged <- b_damaged, struck <- b_struck,
  ended <- b_ended

Pads == INSTANCE HostPads WITH
  device <- p_device, queue <- p_queue, slot <- p_slot, bits <- p_bits,
  left <- p_left

Script == INSTANCE HostScript WITH
  script <- t_script, index <- t_index,
  phase <- t_phase, counter <- t_counter, log <- t_log

Config == INSTANCE HostConfig WITH
  at <- g_at, file <- g_file,
  local <- g_local, config <- g_config, keys <- g_keys, chosen <- g_chosen

Clips == INSTANCE ModAudio WITH
  Slots <- ClipSlots, clips <- v_clips, voices <- v_voices, cursor <- v_cursor, bytes <- v_bytes,
  cues <- v_cues, loading <- v_loading, others <- v_others, ghost <- v_ghost

Stream == INSTANCE LuaFireStream WITH
  game <- l_game, foe <- l_foe, pool <- l_pool, rate <- l_rate,
  credit <- l_credit, active <- l_active, failed <- l_failed,
  at <- l_at, shadow <- l_shadow, ghost <- l_ghost

-----------------------------------------------------------------------------
Off == "off"

BenchInit ==
  /\ part \in {"input", "saves", "snapshot", "return", "focus", "mouths", "fire",
               "pads", "script", "config", "clips", "stream"}
  /\ Init
  /\ IF part = "saves" THEN Saves!Init
     ELSE /\ s_at = Off /\ s_guest = Off /\ s_coop = Off /\ s_machine = Off
          /\ s_staged = Off /\ s_foreign = Off /\ s_fighter = Off
          /\ s_restored = Off /\ s_file = Off
  /\ IF part = "snapshot" THEN Snapshot!Init
     ELSE /\ k_live = Off /\ k_file = Off /\ k_origin = Off
  /\ IF part = "return" THEN Return!Init
     ELSE /\ r_room = Off /\ r_anchor = Off /\ r_others = Off
          /\ r_sprites = Off /\ r_p = Off /\ r_place = Off /\ r_word = Off
  /\ IF part = "focus" THEN Focus!Init
     ELSE /\ f_stage = Off /\ f_word = Off /\ f_life = Off
          /\ f_framing = Off /\ f_focus = Off /\ f_stir = Off
  /\ IF part = "mouths" THEN Mouths!Init
     ELSE /\ m_at = Off /\ m_sprite = Off /\ m_mouth = Off /\ m_meal = Off
          /\ m_bite = Off /\ m_berry = Off /\ m_gone = Off /\ m_bites = Off
          /\ m_licks = Off
  /\ IF part = "fire" THEN Fire!Init
     ELSE /\ b_at = Off /\ b_native = Off /\ b_bank = Off /\ b_adopted = Off
          /\ b_fired = Off /\ b_next = Off /\ b_foe = Off /\ b_damaged = Off
          /\ b_struck = Off /\ b_ended = Off
  /\ IF part = "pads" THEN Pads!Init
     ELSE /\ p_device = Off /\ p_queue = Off /\ p_slot = Off /\ p_bits = Off
          /\ p_left = Off
  /\ IF part = "script" THEN Script!Init
     ELSE /\ t_script = Off /\ t_index = Off /\ t_phase = Off
          /\ t_counter = Off /\ t_log = Off
  /\ IF part = "config" THEN Config!Init
     ELSE /\ g_at = Off /\ g_file = Off /\ g_local = Off /\ g_config = Off
          /\ g_keys = Off /\ g_chosen = Off
  /\ IF part = "clips" THEN Clips!Init
     ELSE /\ v_clips = Off /\ v_voices = Off /\ v_cursor = Off
          /\ v_bytes = Off /\ v_cues = Off /\ v_loading = Off
          /\ v_others = Off /\ v_ghost = Off
  /\ IF part = "stream" THEN Stream!Init
     ELSE /\ l_game = Off /\ l_foe = Off /\ l_pool = Off /\ l_rate = Off
          /\ l_credit = Off /\ l_active = Off /\ l_failed = Off
          /\ l_at = Off /\ l_shadow = Off /\ l_ghost = Off

(* A script that was played, a return that was made, pads and clips that   *)
(* nobody touches, a view, a mouth or a shot at its bound: these may end.  *)
MayStop == {"return", "pads", "script", "clips", "focus", "mouths", "fire"}

BenchNext ==
  /\ part' = part
  /\ \/ /\ part = "input" /\ Next
        /\ UNCHANGED <<savesVars, snapshotVars, returnVars, focusVars,
                       mouthsVars, fireVars, padsVars, scriptVars,
                       configVars, clipsVars, streamVars>>
     \/ /\ part = "saves" /\ Saves!Next
        /\ UNCHANGED <<vars, snapshotVars, returnVars, focusVars,
                       mouthsVars, fireVars, padsVars, scriptVars,
                       configVars, clipsVars, streamVars>>
     \/ /\ part = "snapshot" /\ Snapshot!Next
        /\ UNCHANGED <<vars, savesVars, returnVars, focusVars, mouthsVars,
                       fireVars, padsVars, scriptVars, configVars,
                       clipsVars, streamVars>>
     \/ /\ part = "return" /\ Return!Next
        /\ UNCHANGED <<vars, savesVars, snapshotVars, focusVars, mouthsVars,
                       fireVars, padsVars, scriptVars, configVars,
                       clipsVars, streamVars>>
     \/ /\ part = "focus" /\ Focus!Next
        /\ UNCHANGED <<vars, savesVars, snapshotVars, returnVars,
                       mouthsVars, fireVars, padsVars, scriptVars,
                       configVars, clipsVars, streamVars>>
     \/ /\ part = "mouths" /\ Mouths!Next
        /\ UNCHANGED <<vars, savesVars, snapshotVars, returnVars, focusVars,
                       fireVars, padsVars, scriptVars, configVars,
                       clipsVars, streamVars>>
     \/ /\ part = "fire" /\ Fire!Next
        /\ UNCHANGED <<vars, savesVars, snapshotVars, returnVars, focusVars,
                       mouthsVars, padsVars, scriptVars, configVars,
                       clipsVars, streamVars>>
     \/ /\ part = "pads" /\ Pads!Next
        /\ UNCHANGED <<vars, savesVars, snapshotVars, returnVars, focusVars,
                       mouthsVars, fireVars, scriptVars, configVars,
                       clipsVars, streamVars>>
     \/ /\ part = "script" /\ Script!Next
        /\ UNCHANGED <<vars, savesVars, snapshotVars, returnVars, focusVars,
                       mouthsVars, fireVars, padsVars, configVars,
                       clipsVars, streamVars>>
     \/ /\ part = "config" /\ Config!Next
        /\ UNCHANGED <<vars, savesVars, snapshotVars, returnVars, focusVars,
                       mouthsVars, fireVars, padsVars, scriptVars,
                       clipsVars, streamVars>>
     \/ /\ part = "clips" /\ Clips!Next
        /\ UNCHANGED <<vars, savesVars, snapshotVars, returnVars, focusVars,
                       mouthsVars, fireVars, padsVars, scriptVars,
                       configVars, streamVars>>
     \/ /\ part = "stream" /\ Stream!Next
        /\ UNCHANGED <<vars, savesVars, snapshotVars, returnVars, focusVars,
                       mouthsVars, fireVars, padsVars, scriptVars,
                       configVars, clipsVars>>
     \/ /\ part \in MayStop
        /\ UNCHANGED <<vars, savesVars, snapshotVars, returnVars, focusVars,
                       mouthsVars, fireVars, padsVars, scriptVars,
                       configVars, clipsVars, streamVars>>

benchVars ==
  <<part, vars, savesVars, snapshotVars, returnVars, focusVars, mouthsVars,
    fireVars, padsVars, scriptVars, configVars, clipsVars, streamVars>>

BenchSpec == BenchInit /\ [][BenchNext]_benchVars

-----------------------------------------------------------------------------
(* SaveStates: a load leaves one state, or the one there was.              *)
StateIsWhole == part = "saves" => Saves!StateIsWhole

(* CoopSnapshot: what a file holds is taken whole or refused.              *)
NothingIgnored == part = "snapshot" => Snapshot!NothingIgnored

(* CoopSnapshot: what is saved is what comes back.                         *)
SavedComesBack == Snapshot!SavedComesBack

(* CoopReturn: a player returns into free space and onto footing.          *)
ReturnIsSafe == part = "return" => Return!ReturnIsSafe

(* CoopFocus: a death does not move the survivors' view.                   *)
DeathKeepsView == Focus!DeathKeepsView

(* CoopFocus: a snapshot's focus is one that a load takes.                 *)
FocusLoads == part = "focus" => Focus!FocusLoads

(* CoopMouths: what Yoshis catch is theirs, once.                          *)
MouthsKept == part = "mouths" => Mouths!MouthsKept

(* CoopFire: every player's shots, in slots that all share; LuaFireStream:  *)
(* the shots of a script, in a pool beside those slots.                    *)
FireKept ==
  /\ part = "fire"   => Fire!FireKept
  /\ part = "stream" => Stream!StreamKept

(* HostPads and HostScript: the buttons the game sees are those pressed.   *)
InputsReachTheGame ==
  /\ part = "pads"   => Pads!PadsReachTheirPlayers
  /\ part = "script" => Script!ScriptPlayedOut

(* HostConfig: what a player chose is there in the next process.           *)
ChoicesSurvive == part = "config" => Config!ChoicesSurvive

(* ModAudio: the clips are their owners' and are played as they are.       *)
ClipsKept == part = "clips" => Clips!ClipsKept
=============================================================================
