-------------------------- MODULE CoopPartsProofs --------------------------
(* The parts' properties: CoopInput's for any set of buttons and any clock *)
(* rate, SaveStates' for any number of frames, CoopReturn's for any rooms, *)
(* survivors and sprites, CoopFocus' for any roster, words and speed of    *)
(* the camera, CoopFire's for any shooters and targets, and LuaFireStream's *)
(* for any pool, rate and number of foes.                                  *)
EXTENDS CoopParts, FiniteSetTheorems, WellFoundedInduction, TLAPS

InputInv == TypeOK /\ LatchCovers

LEMMA InitInput == Init => InputInv
<1> SUFFICES ASSUME Init PROVE InputInv
  OBVIOUS
<1>1. connected \in BOOLEAN /\ steady \in BOOLEAN
  BY DEF Init
<1>2. LatchCovers
  BY DEF Init, LatchCovers
<1> QED BY <1>1, <1>2 DEF Init, InputInv, TypeOK

(* Every step keeps the types.                                             *)
LEMMA TypeStep == TypeOK /\ [Next]_vars => TypeOK'
<1> SUFFICES ASSUME TypeOK, [Next]_vars PROVE TypeOK'
  OBVIOUS
<1> USE InputAssumption DEF TypeOK
<1>1. ASSUME NEW plugged \in BOOLEAN, HostFrame(plugged) PROVE TypeOK'
  <2>1. connected' \in BOOLEAN /\ steady' \in BOOLEAN
    BY <1>1 DEF HostFrame
  <2> QED BY <1>1, <2>1 DEF HostFrame, input
<1>2. ASSUME NEW restart \in BOOLEAN, InitializeRoom(restart) PROVE TypeOK'
  BY <1>2 DEF InitializeRoom, history
<1>3. ASSUME NEW down \in SUBSET Button, Begin(down) PROVE TypeOK'
  <2>1. /\ phase' \in {"host", "begin", "end", "recover"} /\ seen' \subseteq Button
        /\ life' \in {"PLAYING", "DYING", "BUBBLE"}
        /\ recovery' \in Nat /\ stale' \subseteq ActionButton
    BY <1>3 DEF Begin
  <2>2. held' \subseteq Button /\ pressed' \subseteq Button /\ latch' \subseteq Button
    BY <1>3 DEF Begin, Effective, Kept
  <2>3. connected' \in BOOLEAN /\ steady' \in BOOLEAN
    BY <1>3 DEF Begin
  <2> QED BY <2>1, <2>2, <2>3
<1>4. CASE Frozen
  BY <1>4 DEF Frozen, input, history
<1>5. ASSUME NEW to \in {"PLAYING", "DYING", "BUBBLE"}, NEW ticks \in Nat, Settle(to, ticks)
      PROVE TypeOK'
  BY <1>5 DEF Settle, input
<1>6. Clock \in Nat
  BY DEF Clock
<1>7. 3 * TicksPerSecond \in Nat /\ TicksPerSecond \div 2 \in Nat
  OBVIOUS
<1>8. CASE Stay \/ Death \/ DeathFinished \/ CatchUp
  BY <1>5, <1>6, <1>7, <1>8 DEF Stay, Death, DeathFinished, CatchUp
<1>9. CASE Recover
  BY <1>9 DEF Recover
<1>10. CASE Wait
  BY <1>10 DEF Wait, input, history
<1>11. CASE UNCHANGED vars
  BY <1>11 DEF vars, input, history
<1> QED BY <1>1, <1>2, <1>3, <1>4, <1>8, <1>9, <1>10, <1>11 DEF Next

(* Every step keeps the latch over what it must cover.  A player who is    *)
(* left behind cannot return in the same frame: TicksPerSecond \div 2 > 0. *)
LEMMA LatchStep == InputInv /\ [Next]_vars => LatchCovers'
<1> SUFFICES ASSUME InputInv, [Next]_vars PROVE LatchCovers'
  OBVIOUS
<1> USE InputAssumption DEF InputInv, TypeOK, LatchCovers
<1>1. ASSUME NEW plugged \in BOOLEAN, HostFrame(plugged) PROVE LatchCovers'
  BY <1>1 DEF HostFrame, input
<1>2. ASSUME NEW restart \in BOOLEAN, InitializeRoom(restart) PROVE LatchCovers'
  BY <1>2 DEF InitializeRoom, history
<1>3. ASSUME NEW down \in SUBSET Button, Begin(down) PROVE LatchCovers'
  BY <1>3 DEF Begin, Effective, Kept
<1>4. CASE Frozen
  BY <1>4 DEF Frozen, input, history
<1>5. CASE Stay
  BY <1>5 DEF Stay, Settle, Clock, input
<1>6. CASE Death
  BY <1>6 DEF Death, Settle, input
<1>7. CASE DeathFinished
  <2>1. 3 * TicksPerSecond # 0
    OBVIOUS
  <2> QED BY <1>7, <2>1 DEF DeathFinished, Settle, input
<1>8. CASE CatchUp
  <2>1. TicksPerSecond \div 2 # 0
    OBVIOUS
  <2> QED BY <1>8, <2>1 DEF CatchUp, Settle, input
<1>9. CASE Recover
  BY <1>9 DEF Recover
<1>10. CASE Wait
  BY <1>10 DEF Wait, input, history
<1>11. CASE UNCHANGED vars
  BY <1>11 DEF vars, input, history
<1> QED
  BY <1>1, <1>2, <1>3, <1>4, <1>5, <1>6, <1>7, <1>8, <1>9, <1>10, <1>11 DEF Next

(* The types and the latch's cover hold in every reachable state: the      *)
(* inductive invariant of coop_player_input and SmwCoopHostFrame.          *)
THEOREM InputInvariant == Spec => [](TypeOK /\ LatchCovers)
<1>1. InputInv /\ [Next]_vars => InputInv'
  BY TypeStep, LatchStep DEF InputInv
<1> QED BY InitInput, <1>1, PTL DEF Spec, InputInv

(* Only Begin takes "begin" to "end".                                      *)
LEMMA OnlyBegin ==
  ASSUME Next, phase = "begin", phase' = "end"
  PROVE  \E down \in SUBSET Button : Begin(down)
BY DEF Next, HostFrame, InitializeRoom, Frozen, Stay, Death, DeathFinished, CatchUp,
       Settle, Recover, Wait

(* A button held over a return, or over a controller's absence, does not   *)
(* act before it was seen up, whatever the frames in between did.          *)
THEOREM PressesAreFresh == Spec => FreshPresses
<1>1. InputInv /\ [Next]_vars =>
        [phase = "begin" /\ phase' = "end" /\ life = "PLAYING" => held' \cap stale' = {}]_vars
  <2> SUFFICES ASSUME InputInv, Next, phase = "begin", phase' = "end", life = "PLAYING"
               PROVE  held' \cap stale' = {}
    OBVIOUS
  <2>1. PICK down \in SUBSET Button : Begin(down)
    BY OnlyBegin
  <2> QED BY <2>1, InputAssumption
          DEF InputInv, TypeOK, LatchCovers, Begin, Effective, Kept
<1> QED BY InputInvariant, <1>1, PTL DEF Spec, InputInv, FreshPresses

(* A button seen up by a player in play is heard when it goes down.        *)
THEOREM PressesAreHeard == Spec => NoPressIsLost
<1>1. InputInv /\ [Next]_vars =>
        [phase = "begin" /\ phase' = "end" /\ life = "PLAYING" /\ steady =>
           seen' \ seen \subseteq pressed']_vars
  <2> SUFFICES ASSUME InputInv, Next, phase = "begin", phase' = "end", life = "PLAYING", steady
               PROVE  seen' \ seen \subseteq pressed'
    OBVIOUS
  <2>1. PICK down \in SUBSET Button : Begin(down)
    BY OnlyBegin
  <2> QED BY <2>1 DEF InputInv, TypeOK, LatchCovers, Begin, Effective, Kept
<1> QED BY InputInvariant, <1>1, PTL DEF Spec, InputInv, NoPressIsLost

(* A button acts in play if and only if it was pressed anew.               *)
THEOREM ButtonsActWhenPressed == Spec => ActsWhenPressed
<1> DEFINE Begins == phase = "begin" /\ phase' = "end" /\ life = "PLAYING"
           Fresh  == Begins => held' \cap stale' = {}
           Heard  == Begins /\ steady => seen' \ seen \subseteq pressed'
           Acts   == Begins => /\ held' \cap stale' = {}
                               /\ steady => seen' \ seen \subseteq pressed'
<1>1. [Fresh]_vars /\ [Heard]_vars => [Acts]_vars
  OBVIOUS
<1> HIDE DEF Fresh, Heard, Acts
<1>2. Spec => [][Fresh]_vars
  BY PressesAreFresh DEF FreshPresses, Fresh, Begins
<1>3. Spec => [][Heard]_vars
  BY PressesAreHeard DEF NoPressIsLost, Heard, Begins
<1>4. Spec => [][Acts]_vars
  BY <1>1, <1>2, <1>3, PTL
<1> QED BY <1>4 DEF ActsWhenPressed, Acts, Begins

-----------------------------------------------------------------------------
(* SaveStates.                                                             *)

Modes       == [on : BOOLEAN, count : Nat, choosing : BOOLEAN, files : BOOLEAN]
Bodies      == [actors : Nat, frame : Nat]
Owners      == {"native", "scripted", "foreign"}
Controllers == [enabled : BOOLEAN, active : {"none", "falcon"}, own : Owners]
StagedSet   == [has : BOOLEAN, body : Bodies, consumed : BOOLEAN]
Chunks == [ok : BOOLEAN, id : {"none", "falcon", "unknown"}, own : Owners,
           version : {"ours", "other"}, fighter : Nat]
States == [magic : {"SMC1", "SMX1", "SMWS", "SFW1"}, guard : {"coop", "plain"}, guest : Nat,
           rtls : {"ours", "previous", "other"}, intact : BOOLEAN, ours : BOOLEAN,
           machine : Bodies, chunk : Chunks]

SaveTypes ==
  /\ s_at \in {"idle", "checked", "read"} /\ s_guest \in Nat /\ s_coop \in Modes
  /\ s_machine \in Bodies /\ s_staged \in StagedSet /\ s_foreign \in Controllers
  /\ s_fighter \in Nat /\ s_restored \in BOOLEAN
  /\ s_file = Saves!NoFile \/ s_file \in States

(* A file is of one frame throughout, damaged or not.                      *)
FileOfOneFrame ==
  s_file \in States =>
    /\ s_file.magic = "SMC1" <=> s_file.guard = "coop"
    /\ s_file.magic = "SMC1" => s_file.machine.frame = s_file.guest
    /\ s_file.chunk.own = "foreign" => /\ s_file.chunk.id # "none"
                                       /\ s_file.chunk.fighter = s_file.guest

Session == [actors |-> s_coop.count, frame |-> s_guest]

(* While a load is on its way the machine is still the session's, and what *)
(* was staged is of the file's frame, then of the guest's.                 *)
MachineHeld ==
  /\ s_at # "read" /\ Saves!Active => s_machine = Session
  /\ s_at = "checked" => s_file \in States
  /\ s_at = "checked" /\ Saves!Active =>
       /\ s_staged.has /\ s_file.magic = "SMC1"
       /\ s_staged.body = [actors |-> s_coop.count, frame |-> s_file.guest]
  /\ s_at = "read" /\ Saves!Active => s_staged.consumed /\ s_staged.body = Session

(* Nobody owns the movement while a mode is chosen; between the parts of a *)
(* load only a fighter that came with it has to be of the guest's frame.   *)
OwnerHeld ==
  /\ s_foreign.own = "foreign" => s_foreign.active = "falcon"
  /\ s_at # "read" \/ s_restored => (s_foreign.own = "foreign" => s_fighter = s_guest)
  /\ s_at # "read" /\ ~s_foreign.enabled =>
       s_foreign.active = "none" /\ s_foreign.own = "native"
  /\ s_coop.choosing => s_coop.on /\ s_at = "idle" /\ s_foreign.own # "foreign"

SavesInv == SaveTypes /\ FileOfOneFrame /\ MachineHeld /\ OwnerHeld

LEMMA InitSaves == Saves!Init => SavesInv
<1> SUFFICES ASSUME Saves!Init PROVE SavesInv
  OBVIOUS
<1>1. PICK package \in Saves!Packages : /\ s_coop = Saves!CoopAtBoot(package)
                                        /\ s_foreign = Saves!ForeignAtBoot(package)
  BY DEF Saves!Init
<1>2. s_coop \in Modes /\ s_coop.count = 0 /\ ~s_coop.choosing
  BY <1>1 DEF Saves!CoopAtBoot, Modes
<1>3. /\ s_foreign \in Controllers /\ s_foreign.own # "foreign"
      /\ ~s_foreign.enabled => s_foreign.active = "none" /\ s_foreign.own = "native"
  BY <1>1 DEF Saves!ForeignAtBoot, Saves!Packages, Controllers, Owners
<1>4. s_machine \in Bodies /\ s_staged \in StagedSet
  BY DEF Saves!Init, Saves!None, Saves!Empty, Bodies, StagedSet
<1>5. s_fighter \in Nat
  BY PartsAssumption DEF Saves!Init, Saves!Fresh
<1>6. s_at = "idle" /\ s_guest = 0 /\ s_restored = FALSE /\ s_file = Saves!NoFile
  BY DEF Saves!Init
<1>7. Saves!NoFile \notin States
  <2>1. \A st \in States : st.magic # "none"
    BY DEF States
  <2> QED BY <2>1 DEF Saves!NoFile
<1>8. ~Saves!Active
  BY <1>2 DEF Saves!Active
<1> QED
  BY <1>2, <1>3, <1>4, <1>5, <1>6, <1>7, <1>8
  DEF SavesInv, SaveTypes, FileOfOneFrame, MachineHeld, OwnerHeld

(* One action at a time.  What does not load touches neither what is       *)
(* staged nor the file.                                                    *)
LEMMA RestartSaves == SavesInv /\ Saves!Restart => SavesInv'
<1> SUFFICES ASSUME SavesInv, Saves!Restart PROVE SavesInv'
  OBVIOUS
<1>1. PICK package \in Saves!Packages : /\ s_coop' = Saves!CoopAtBoot(package)
                                        /\ s_foreign' = Saves!ForeignAtBoot(package)
  BY DEF Saves!Restart
<1>2. s_coop' \in Modes /\ s_coop'.count = 0 /\ ~s_coop'.choosing
  BY <1>1 DEF Saves!CoopAtBoot, Modes
<1>3. /\ s_foreign' \in Controllers /\ s_foreign'.own # "foreign"
      /\ ~s_foreign'.enabled => s_foreign'.active = "none" /\ s_foreign'.own = "native"
  BY <1>1 DEF Saves!ForeignAtBoot, Saves!Packages, Controllers, Owners
<1>4. s_machine' \in Bodies /\ s_staged' \in StagedSet
  BY DEF Saves!Restart, Saves!None, Saves!Empty, Bodies, StagedSet
<1>5. s_fighter' \in Nat
  BY PartsAssumption DEF Saves!Restart, Saves!Fresh
<1>6. s_at' = "idle" /\ s_guest' = 0 /\ s_restored' = FALSE /\ s_file' = s_file
  BY DEF Saves!Restart
<1>7. ~Saves!Active'
  BY <1>2 DEF Saves!Active
<1>8. SaveTypes'
  BY <1>2, <1>3, <1>4, <1>5, <1>6 DEF SavesInv, SaveTypes
<1>9. FileOfOneFrame' /\ MachineHeld' /\ OwnerHeld'
  BY <1>2, <1>3, <1>6, <1>7 DEF SavesInv, FileOfOneFrame, MachineHeld, OwnerHeld
<1> QED BY <1>8, <1>9 DEF SavesInv

LEMMA PlaySaves == SavesInv /\ Saves!Play => SavesInv'
<1> SUFFICES ASSUME SavesInv, Saves!Play PROVE SavesInv'
  OBVIOUS
<1>1. /\ s_at = "idle" /\ s_guest' = s_guest + 1
      /\ s_machine' = IF Saves!Active THEN [s_machine EXCEPT !.frame = @ + 1] ELSE s_machine
      /\ s_fighter' = IF s_foreign.own = "foreign" THEN s_fighter + 1 ELSE s_fighter
      /\ UNCHANGED <<s_at, s_coop, s_staged, s_foreign, s_restored, s_file>>
  BY DEF Saves!Play
<1>2. Saves!Active' = Saves!Active
  BY <1>1 DEF Saves!Active
<1>3. s_machine' \in Bodies
  BY <1>1 DEF SavesInv, SaveTypes, Bodies
<1>4. Saves!Active => s_machine' = Session'
  BY <1>1 DEF SavesInv, SaveTypes, MachineHeld, Session, Bodies, Modes
<1>5. SaveTypes'
  BY <1>1, <1>3 DEF SavesInv, SaveTypes
<1>6. FileOfOneFrame' /\ MachineHeld' /\ OwnerHeld'
  BY <1>1, <1>2, <1>4 DEF SavesInv, SaveTypes, FileOfOneFrame, MachineHeld, OwnerHeld
<1> QED BY <1>5, <1>6 DEF SavesInv

LEMMA TakeOverSaves == SavesInv /\ Saves!TakeOver => SavesInv'
<1> SUFFICES ASSUME SavesInv, Saves!TakeOver PROVE SavesInv'
  OBVIOUS
<1>1. /\ s_at = "idle" /\ s_foreign.active = "falcon" /\ ~s_coop.choosing
      /\ s_foreign' = [s_foreign EXCEPT !.own = "foreign"] /\ s_fighter' = s_guest
      /\ UNCHANGED <<s_at, s_guest, s_coop, s_machine, s_staged, s_restored, s_file>>
  BY DEF Saves!TakeOver
<1>2. /\ s_foreign' \in Controllers /\ s_foreign'.own = "foreign"
      /\ s_foreign'.active = "falcon" /\ s_foreign'.enabled
  BY <1>1 DEF SavesInv, SaveTypes, OwnerHeld, Controllers, Owners
<1>3. Saves!Active' = Saves!Active /\ Session' = Session
  BY <1>1 DEF Saves!Active, Session
<1>4. SaveTypes'
  BY <1>1, <1>2 DEF SavesInv, SaveTypes
<1>5. FileOfOneFrame' /\ MachineHeld' /\ OwnerHeld'
  BY <1>1, <1>2, <1>3 DEF SavesInv, SaveTypes, FileOfOneFrame, MachineHeld, OwnerHeld
<1> QED BY <1>4, <1>5 DEF SavesInv

LEMMA LetGoSaves == SavesInv /\ Saves!LetGo => SavesInv'
<1> SUFFICES ASSUME SavesInv, Saves!LetGo PROVE SavesInv'
  OBVIOUS
<1>1. /\ s_at = "idle" /\ s_foreign.own = "foreign"
      /\ s_foreign' = [s_foreign EXCEPT !.own = "scripted"]
      /\ UNCHANGED <<s_at, s_guest, s_coop, s_machine, s_staged, s_fighter, s_restored, s_file>>
  BY DEF Saves!LetGo
<1>2. /\ s_foreign' \in Controllers /\ s_foreign'.own # "foreign"
      /\ s_foreign'.active = "falcon" /\ s_foreign'.enabled
  BY <1>1 DEF SavesInv, SaveTypes, OwnerHeld, Controllers, Owners
<1>3. Saves!Active' = Saves!Active /\ Session' = Session
  BY <1>1 DEF Saves!Active, Session
<1>4. SaveTypes'
  BY <1>1, <1>2 DEF SavesInv, SaveTypes
<1>5. FileOfOneFrame' /\ MachineHeld' /\ OwnerHeld'
  BY <1>1, <1>2, <1>3 DEF SavesInv, SaveTypes, FileOfOneFrame, MachineHeld, OwnerHeld
<1> QED BY <1>4, <1>5 DEF SavesInv

LEMMA OpenChoiceSaves == SavesInv /\ Saves!OpenChoice => SavesInv'
<1> SUFFICES ASSUME SavesInv, Saves!OpenChoice PROVE SavesInv'
  OBVIOUS
<1>1. /\ s_at = "idle" /\ s_coop.on
      /\ s_coop' = [s_coop EXCEPT !.choosing = TRUE] /\ s_guest' = 0
      /\ s_machine' = [s_machine EXCEPT !.frame = 0]
      /\ s_foreign' = [s_foreign EXCEPT !.own = IF @ = "foreign" THEN "scripted" ELSE @]
      /\ UNCHANGED <<s_at, s_staged, s_fighter, s_restored, s_file>>
  BY DEF Saves!OpenChoice
<1>2. /\ s_foreign' \in Controllers /\ s_foreign'.own # "foreign"
      /\ ~s_foreign'.enabled => s_foreign'.active = "none" /\ s_foreign'.own = "native"
  BY <1>1 DEF SavesInv, SaveTypes, OwnerHeld, Controllers, Owners
<1>3. s_coop' \in Modes /\ s_coop'.on = s_coop.on /\ s_coop'.count = s_coop.count
  BY <1>1 DEF SavesInv, SaveTypes, Modes
<1>4. s_machine' \in Bodies
  BY <1>1 DEF SavesInv, SaveTypes, Bodies
<1>5. Saves!Active' = Saves!Active
  BY <1>3 DEF Saves!Active
<1>6. Saves!Active => s_machine' = Session'
  BY <1>1, <1>3 DEF SavesInv, SaveTypes, MachineHeld, Session, Bodies
<1>7. SaveTypes'
  BY <1>1, <1>2, <1>3, <1>4 DEF SavesInv, SaveTypes
<1>8. FileOfOneFrame' /\ MachineHeld' /\ OwnerHeld'
  BY <1>1, <1>2, <1>3, <1>5, <1>6 DEF SavesInv, SaveTypes, FileOfOneFrame, MachineHeld, OwnerHeld
<1> QED BY <1>7, <1>8 DEF SavesInv

LEMMA MachineIsASession ==
  ASSUME NEW count \in Nat
  PROVE  /\ Saves!Machine(count) \in Bodies
         /\ count > 1 => Saves!Machine(count) = [actors |-> count, frame |-> 0]
BY DEF Saves!Machine, Saves!None, Bodies

LEMMA ChooseSaves ==
  ASSUME NEW count \in {1, 2}, SavesInv, Saves!Choose(count) PROVE SavesInv'
<1>1. /\ s_at = "idle" /\ s_coop.choosing
      /\ s_coop' = [s_coop EXCEPT !.count = count, !.choosing = FALSE, !.files = TRUE]
      /\ s_machine' = Saves!Machine(count) /\ s_guest' = 0
      /\ UNCHANGED <<s_at, s_staged, s_foreign, s_fighter, s_restored, s_file>>
  BY DEF Saves!Choose
<1>2. s_coop \in Modes /\ count \in Nat
  BY DEF SavesInv, SaveTypes
<1>3. s_coop' \in Modes /\ s_coop'.count = count /\ ~s_coop'.choosing
  BY <1>1, <1>2 DEF Modes
<1>4. s_machine' \in Bodies /\ (Saves!Active' => s_machine' = Session')
  BY <1>1, <1>2, <1>3, MachineIsASession DEF Session, Saves!Active
<1>5. SaveTypes'
  BY <1>1, <1>3, <1>4 DEF SavesInv, SaveTypes
<1>6. FileOfOneFrame' /\ MachineHeld' /\ OwnerHeld'
  BY <1>1, <1>3, <1>4 DEF SavesInv, SaveTypes, FileOfOneFrame, MachineHeld, OwnerHeld
<1> QED BY <1>5, <1>6 DEF SavesInv

LEMMA ResetSaves == SavesInv /\ Saves!SmwCoopResetSession => SavesInv'
<1> SUFFICES ASSUME SavesInv, Saves!SmwCoopResetSession PROVE SavesInv'
  OBVIOUS
<1>1. /\ s_at = "idle" /\ s_guest' = 0
      /\ s_coop' = IF s_coop.on THEN [s_coop EXCEPT !.files = FALSE, !.choosing = FALSE]
                   ELSE s_coop
      /\ s_machine' = Saves!Machine(IF s_coop.on THEN s_coop.count ELSE 0)
      /\ s_foreign' = [s_foreign EXCEPT !.own = IF @ = "foreign" THEN "scripted" ELSE @]
      /\ UNCHANGED <<s_at, s_staged, s_fighter, s_restored, s_file>>
  BY DEF Saves!SmwCoopResetSession
<1>2. /\ s_foreign' \in Controllers /\ s_foreign'.own # "foreign"
      /\ ~s_foreign'.enabled => s_foreign'.active = "none" /\ s_foreign'.own = "native"
  BY <1>1 DEF SavesInv, SaveTypes, OwnerHeld, Controllers, Owners
<1>3. /\ s_coop' \in Modes /\ s_coop'.on = s_coop.on /\ s_coop'.count = s_coop.count
      /\ s_coop.on => ~s_coop'.choosing
      /\ s_coop'.choosing => s_coop.choosing
  BY <1>1 DEF SavesInv, SaveTypes, Modes
<1>4. (IF s_coop.on THEN s_coop.count ELSE 0) \in Nat
  BY DEF SavesInv, SaveTypes, Modes
<1>5. s_machine' \in Bodies
  BY <1>1, <1>4, MachineIsASession
<1>6. Saves!Active' => s_machine' = Session'
  BY <1>1, <1>3, <1>4, MachineIsASession DEF Session, Saves!Active
<1>7. SaveTypes'
  BY <1>1, <1>2, <1>3, <1>5 DEF SavesInv, SaveTypes
<1>8. FileOfOneFrame' /\ MachineHeld' /\ OwnerHeld'
  BY <1>1, <1>2, <1>3, <1>6 DEF SavesInv, SaveTypes, FileOfOneFrame, MachineHeld, OwnerHeld
<1> QED BY <1>7, <1>8 DEF SavesInv

LEMMA SaveSaves == SavesInv /\ Saves!Save => SavesInv'
<1> SUFFICES ASSUME SavesInv, Saves!Save PROVE SavesInv'
  OBVIOUS
<1> DEFINE body  == IF Saves!Active THEN s_machine ELSE Saves!None
           chunk == IF Saves!Active THEN Saves!Nothing ELSE Saves!snes_foreign_save
<1>1. /\ s_at = "idle" /\ Saves!PersistenceReady
      /\ s_file' = [magic |-> IF Saves!Active THEN "SMC1" ELSE "SMX1",
                    guard |-> Saves!Identity(s_coop), guest |-> s_guest, rtls |-> "ours",
                    intact |-> TRUE, ours |-> TRUE, machine |-> body, chunk |-> chunk]
      /\ UNCHANGED <<s_at, s_guest, s_coop, s_machine, s_staged, s_foreign, s_fighter, s_restored>>
  BY DEF Saves!Save
<1>2. body \in Bodies /\ (Saves!Active => body.frame = s_guest)
  <2>1. Saves!Active => s_machine \in Bodies /\ s_machine.frame = s_guest
    BY <1>1 DEF SavesInv, SaveTypes, MachineHeld, Session
  <2>2. Saves!None \in Bodies
    BY DEF Saves!None, Bodies
  <2> QED BY <2>1, <2>2
<1>3. chunk \in Chunks /\ (chunk.own = "foreign" => chunk.id # "none" /\ chunk.fighter = s_guest)
  <2>1. Saves!Nothing \in Chunks /\ Saves!Nothing.own # "foreign"
    BY DEF Saves!Nothing, Chunks, Owners
  <2>2. /\ Saves!snes_foreign_save \in Chunks
        /\ Saves!snes_foreign_save.own = "foreign" =>
             /\ Saves!snes_foreign_save.id # "none"
             /\ Saves!snes_foreign_save.fighter = s_guest
    BY <1>1 DEF Saves!snes_foreign_save, SavesInv, SaveTypes, OwnerHeld, Chunks, Controllers
  <2> QED BY <2>1, <2>2
<1>4. Saves!Identity(s_coop) = IF Saves!Active THEN "coop" ELSE "plain"
  BY DEF Saves!Identity, Saves!Active
<1> HIDE DEF body, chunk
<1>5. s_file' \in States
  BY <1>1, <1>2, <1>3, <1>4 DEF SavesInv, SaveTypes, States
<1>6. /\ s_file'.magic = "SMC1" <=> s_file'.guard = "coop"
      /\ s_file'.magic = "SMC1" => s_file'.machine.frame = s_file'.guest
      /\ s_file'.chunk.own = "foreign" => /\ s_file'.chunk.id # "none"
                                          /\ s_file'.chunk.fighter = s_file'.guest
  BY <1>1, <1>2, <1>3, <1>4
<1>7. Saves!Active' = Saves!Active /\ Session' = Session
  BY <1>1 DEF Saves!Active, Session
<1>8. SaveTypes' /\ FileOfOneFrame'
  BY <1>1, <1>5, <1>6 DEF SavesInv, SaveTypes, FileOfOneFrame
<1>9. MachineHeld' /\ OwnerHeld'
  BY <1>1, <1>7 DEF SavesInv, MachineHeld, OwnerHeld
<1> QED BY <1>8, <1>9 DEF SavesInv

(* Damage leaves the frames of a file as they were.                        *)
LEMMA AgedSaves == SavesInv /\ Saves!Aged => SavesInv'
<1> SUFFICES ASSUME SavesInv, Saves!Aged PROVE SavesInv'
  OBVIOUS
<1>1. /\ s_at = "idle" /\ s_file.magic # "none"
      /\ UNCHANGED <<s_at, s_guest, s_coop, s_machine, s_staged, s_foreign, s_fighter, s_restored>>
  BY DEF Saves!Aged
<1>2. PICK f \in { [s_file EXCEPT !.magic = "SMWS"], [s_file EXCEPT !.magic = "SFW1"],
                   [s_file EXCEPT !.rtls = "previous"], [s_file EXCEPT !.rtls = "other"],
                   [s_file EXCEPT !.intact = FALSE], [s_file EXCEPT !.machine.actors = 3],
                   [s_file EXCEPT !.chunk.version = "other"],
                   [s_file EXCEPT !.chunk.id = "unknown"],
                   [s_file EXCEPT !.chunk.ok = FALSE] } :
        /\ (f.magic = "SMC1") = (f.guard = "coop")
        /\ s_file' = [f EXCEPT !.ours = FALSE]
  BY DEF Saves!Aged
<1>3. s_file \in States
  BY <1>1 DEF SavesInv, SaveTypes, Saves!NoFile
<1>4. s_file.machine \in Bodies /\ s_file.chunk \in Chunks
  BY <1>3 DEF States
<1> DEFINE Frames(g) ==
      /\ g \in States /\ g.guard = s_file.guard /\ g.guest = s_file.guest
      /\ g.machine.frame = s_file.machine.frame
      /\ g.magic = "SMC1" => s_file.magic = "SMC1"
      /\ g.chunk.own = s_file.chunk.own /\ g.chunk.fighter = s_file.chunk.fighter
      /\ g.chunk.id = "none" => s_file.chunk.id = "none"
<1>5. Frames(f)
  <2>1. ASSUME NEW m \in {"SMWS", "SFW1"} PROVE Frames([s_file EXCEPT !.magic = m])
    BY <1>3 DEF States
  <2>2. ASSUME NEW r \in {"previous", "other"} PROVE Frames([s_file EXCEPT !.rtls = r])
    BY <1>3 DEF States
  <2>3. Frames([s_file EXCEPT !.intact = FALSE])
    BY <1>3 DEF States
  <2>4. Frames([s_file EXCEPT !.machine.actors = 3])
    <3>1. [s_file.machine EXCEPT !.actors = 3] \in Bodies
          /\ [s_file.machine EXCEPT !.actors = 3].frame = s_file.machine.frame
      BY <1>4 DEF Bodies
    <3> QED BY <1>3, <3>1 DEF States
  <2>5. ASSUME NEW c \in Chunks, c.own = s_file.chunk.own, c.fighter = s_file.chunk.fighter,
               c.id = "none" => s_file.chunk.id = "none"
        PROVE  Frames([s_file EXCEPT !.chunk = c])
    BY <1>3, <2>5 DEF States
  <2>6. Frames([s_file EXCEPT !.chunk.version = "other"])
    <3> DEFINE c == [s_file.chunk EXCEPT !.version = "other"]
    <3>1. c \in Chunks /\ c.own = s_file.chunk.own /\ c.fighter = s_file.chunk.fighter
          /\ c.id = s_file.chunk.id
      BY <1>4 DEF Chunks
    <3>2. [s_file EXCEPT !.chunk.version = "other"] = [s_file EXCEPT !.chunk = c]
      OBVIOUS
    <3> HIDE DEF c, Frames
    <3> QED BY <2>5, <3>1, <3>2
  <2>7. Frames([s_file EXCEPT !.chunk.id = "unknown"])
    <3> DEFINE c == [s_file.chunk EXCEPT !.id = "unknown"]
    <3>1. c \in Chunks /\ c.own = s_file.chunk.own /\ c.fighter = s_file.chunk.fighter
          /\ c.id = "unknown"
      BY <1>4 DEF Chunks
    <3>2. [s_file EXCEPT !.chunk.id = "unknown"] = [s_file EXCEPT !.chunk = c]
      OBVIOUS
    <3> HIDE DEF c, Frames
    <3> QED BY <2>5, <3>1, <3>2
  <2>8. Frames([s_file EXCEPT !.chunk.ok = FALSE])
    <3> DEFINE c == [s_file.chunk EXCEPT !.ok = FALSE]
    <3>1. c \in Chunks /\ c.own = s_file.chunk.own /\ c.fighter = s_file.chunk.fighter
          /\ c.id = s_file.chunk.id
      BY <1>4 DEF Chunks
    <3>2. [s_file EXCEPT !.chunk.ok = FALSE] = [s_file EXCEPT !.chunk = c]
      OBVIOUS
    <3> HIDE DEF c, Frames
    <3> QED BY <2>5, <3>1, <3>2
  <2> HIDE DEF Frames
  <2> QED BY <2>1, <2>2, <2>3, <2>4, <2>6, <2>7, <2>8
<1>6. s_file' \in States /\ Frames(s_file')
  BY <1>2, <1>5 DEF States
<1>7. s_file'.magic = "SMC1" <=> s_file'.guard = "coop"
  BY <1>2, <1>5 DEF States
<1>8. FileOfOneFrame'
  BY <1>3, <1>6, <1>7 DEF SavesInv, FileOfOneFrame
<1>9. Saves!Active' = Saves!Active /\ Session' = Session
  BY <1>1 DEF Saves!Active, Session
<1>10. SaveTypes'
  BY <1>1, <1>6 DEF SavesInv, SaveTypes
<1>11. MachineHeld' /\ OwnerHeld'
  BY <1>1, <1>9 DEF SavesInv, MachineHeld, OwnerHeld
<1> QED BY <1>8, <1>10, <1>11 DEF SavesInv

(* A preflight stages a machine that is the file's, or stages nothing and  *)
(* the load is off.                                                        *)
LEMMA PreflightSaves == SavesInv /\ Saves!SmwCoopSnapshotPreflight => SavesInv'
<1> SUFFICES ASSUME SavesInv, Saves!SmwCoopSnapshotPreflight PROVE SavesInv'
  OBVIOUS
<1>1. /\ s_at = "idle" /\ s_file.magic # "none"
      /\ s_file.guard = Saves!Identity(s_coop) /\ Saves!PersistenceReady
      /\ Saves!Preflight(s_file)
      /\ s_at' = IF Saves!Active /\ ~Saves!Decodes(s_file) THEN "idle" ELSE "checked"
      /\ UNCHANGED <<s_guest, s_coop, s_foreign, s_fighter, s_restored, s_file>>
  BY DEF Saves!SmwCoopSnapshotPreflight
<1>2. /\ s_staged' = IF Saves!Active /\ Saves!Decodes(s_file)
                     THEN [has |-> TRUE, body |-> s_file.machine, consumed |-> FALSE]
                     ELSE Saves!Empty
      /\ s_machine' = s_machine
  BY <1>1 DEF Saves!Preflight
<1>3. s_file \in States
  BY <1>1 DEF SavesInv, SaveTypes, Saves!NoFile
<1>4. s_file.machine \in Bodies
  BY <1>3 DEF States
<1>5. s_staged' \in StagedSet
  BY <1>2, <1>4 DEF Saves!Empty, Saves!None, StagedSet, Bodies
<1>6. Saves!Active' = Saves!Active /\ Session' = Session
  BY <1>1 DEF Saves!Active, Session
<1>7. ~s_coop.choosing
  BY <1>1 DEF Saves!PersistenceReady, SavesInv, SaveTypes, OwnerHeld, Modes
<1>8. s_at' = "checked" /\ Saves!Active =>
        /\ s_staged'.has /\ s_file.magic = "SMC1"
        /\ s_staged'.body = [actors |-> s_coop.count, frame |-> s_file.guest]
  <2> SUFFICES ASSUME s_at' = "checked", Saves!Active
               PROVE  /\ s_staged'.has /\ s_file.magic = "SMC1"
                      /\ s_staged'.body = [actors |-> s_coop.count, frame |-> s_file.guest]
    OBVIOUS
  <2>1. s_staged' = [has |-> TRUE, body |-> s_file.machine, consumed |-> FALSE]
    BY <1>1, <1>2
  <2>2. s_file.magic = "SMC1" /\ s_file.machine.actors = s_coop.count
    BY <1>1 DEF Saves!Decodes
  <2>3. s_file.machine.frame = s_file.guest
    BY <1>3, <2>2 DEF SavesInv, FileOfOneFrame
  <2>4. s_file.machine = [actors |-> s_coop.count, frame |-> s_file.guest]
    BY <1>4, <2>2, <2>3 DEF Bodies
  <2> QED BY <2>1, <2>2, <2>4
<1>9. SaveTypes'
  BY <1>1, <1>2, <1>5 DEF SavesInv, SaveTypes
<1>10. FileOfOneFrame'
  BY <1>1 DEF SavesInv, FileOfOneFrame
<1>11. MachineHeld' /\ OwnerHeld'
  BY <1>1, <1>2, <1>3, <1>6, <1>7, <1>8 DEF SavesInv, MachineHeld, OwnerHeld
<1> QED BY <1>9, <1>10, <1>11 DEF SavesInv

LEMMA RefusedSaves == SavesInv /\ Saves!LoadRefused => SavesInv'
<1> SUFFICES ASSUME SavesInv, Saves!LoadRefused PROVE SavesInv'
  OBVIOUS
<1>1. /\ s_at = "checked" /\ s_at' = "idle"
      /\ UNCHANGED <<s_guest, s_coop, s_machine, s_staged, s_foreign, s_fighter, s_restored,
                     s_file>>
  BY DEF Saves!LoadRefused
<1>2. Saves!Active' = Saves!Active /\ Session' = Session
  BY <1>1 DEF Saves!Active, Session
<1> QED
  BY <1>1, <1>2 DEF SavesInv, SaveTypes, FileOfOneFrame, MachineHeld, OwnerHeld

(* A chunk that is taken brings an owner of the file's frame; one that is  *)
(* not leaves the fighter to be chosen anew.                               *)
LEMMA ForeignIsLoaded ==
  ASSUME SavesInv, s_file \in States, Saves!ForeignLoad(s_file.chunk)
  PROVE  /\ s_foreign' \in Controllers /\ s_fighter' \in Nat /\ s_restored' \in BOOLEAN
         /\ s_foreign'.own = "foreign" => s_foreign'.active = "falcon"
         /\ s_restored' /\ s_foreign'.own = "foreign" => s_fighter' = s_file.guest
<1> DEFINE c == s_file.chunk
<1>1. /\ c \in Chunks
      /\ c.own = "foreign" => c.id # "none" /\ c.fighter = s_file.guest
  BY DEF SavesInv, FileOfOneFrame, States
<1>2. /\ s_foreign' = IF Saves!Acceptable(c)
                      THEN [s_foreign EXCEPT !.active = c.id, !.own = c.own] ELSE s_foreign
      /\ s_fighter' = IF Saves!Acceptable(c) /\ c.id = "falcon" THEN c.fighter ELSE s_fighter
      /\ s_restored' = Saves!Acceptable(c)
  BY DEF Saves!ForeignLoad
<1> HIDE DEF c
<1>3. CASE Saves!Acceptable(c)
  <2>1. c.id \in {"none", "falcon"}
    BY <1>3 DEF Saves!Acceptable
  <2>2. s_foreign' \in Controllers /\ s_foreign'.active = c.id /\ s_foreign'.own = c.own
    BY <1>1, <1>2, <1>3, <2>1 DEF SavesInv, SaveTypes, Controllers, Chunks
  <2>3. s_fighter' \in Nat /\ s_restored' \in BOOLEAN
    BY <1>1, <1>2, <1>3 DEF SavesInv, SaveTypes, Chunks
  <2> QED BY <1>1, <1>2, <1>3, <2>1, <2>2, <2>3
<1>4. CASE ~Saves!Acceptable(c)
  <2>1. Saves!Acceptable(c) = FALSE
    BY <1>4 DEF Saves!Acceptable
  <2>2. s_foreign' = s_foreign /\ s_fighter' = s_fighter /\ s_restored' = FALSE
    BY <1>2, <2>1
  <2> QED BY <2>2 DEF SavesInv, SaveTypes, OwnerHeld
<1> QED BY <1>3, <1>4

LEMMA LoadExtraSaves == SavesInv /\ Saves!SmwStateLoadExtra => SavesInv'
<1> SUFFICES ASSUME SavesInv, Saves!SmwStateLoadExtra PROVE SavesInv'
  OBVIOUS
<1>1. /\ s_at = "checked" /\ s_at' = "read" /\ s_guest' = s_file.guest
      /\ UNCHANGED <<s_coop, s_machine, s_file>>
  BY DEF Saves!SmwStateLoadExtra
<1>2. s_file \in States /\ s_guest' \in Nat
  BY <1>1 DEF SavesInv, MachineHeld, States
<1>3. Saves!Active' = Saves!Active /\ ~s_coop.choosing
  BY <1>1 DEF Saves!Active, SavesInv, OwnerHeld
<1>4. /\ s_foreign' \in Controllers /\ s_fighter' \in Nat /\ s_restored' \in BOOLEAN
      /\ s_foreign'.own = "foreign" => s_foreign'.active = "falcon"
      /\ s_restored' /\ s_foreign'.own = "foreign" => s_fighter' = s_guest'
      /\ s_staged' \in StagedSet
      /\ Saves!Active => s_staged'.consumed /\ s_staged'.body = Session'
  <2>1. CASE s_file.magic \in {"SMX1", "SFW1"}
    <3>1. Saves!ForeignLoad(s_file.chunk) /\ s_staged' = s_staged
      BY <2>1 DEF Saves!SmwStateLoadExtra
    <3>2. ~Saves!Active
      BY <1>1, <2>1 DEF SavesInv, MachineHeld
    <3> QED BY <1>1, <1>2, <3>1, <3>2, ForeignIsLoaded DEF SavesInv, SaveTypes
  <2>2. CASE s_file.magic \notin {"SMX1", "SFW1"}
    <3>1. /\ s_restored' = FALSE /\ s_foreign' = s_foreign /\ s_fighter' = s_fighter
          /\ s_staged' = IF s_file.magic = "SMC1" /\ Saves!Active /\ s_staged.has
                         THEN [s_staged EXCEPT !.consumed = TRUE] ELSE s_staged
      BY <2>2 DEF Saves!SmwStateLoadExtra
    <3>2. s_staged' \in StagedSet
      BY <3>1 DEF SavesInv, SaveTypes, StagedSet
    <3>3. ASSUME Saves!Active PROVE s_staged'.consumed /\ s_staged'.body = Session'
      <4>1. /\ s_staged.has /\ s_file.magic = "SMC1"
            /\ s_staged.body = [actors |-> s_coop.count, frame |-> s_file.guest]
        BY <1>1, <3>3 DEF SavesInv, MachineHeld
      <4>2. s_staged' = [s_staged EXCEPT !.consumed = TRUE]
        BY <3>1, <3>3, <4>1
      <4>3. s_staged'.consumed /\ s_staged'.body = s_staged.body
        BY <4>2 DEF SavesInv, SaveTypes, StagedSet
      <4> QED BY <1>1, <4>1, <4>3 DEF Session
    <3> QED BY <3>1, <3>2, <3>3 DEF SavesInv, SaveTypes, OwnerHeld
  <2> QED BY <2>1, <2>2
<1>5. SaveTypes' /\ FileOfOneFrame'
  BY <1>1, <1>2, <1>4 DEF SavesInv, SaveTypes, FileOfOneFrame
<1>6. MachineHeld' /\ OwnerHeld'
  BY <1>1, <1>3, <1>4 DEF MachineHeld, OwnerHeld
<1> QED BY <1>5, <1>6 DEF SavesInv

(* A fighter that did not come with the state owns nothing.                *)
LEMMA SelectionIsRestored ==
  ASSUME SavesInv, s_at = "read", Saves!smw_falcon_restore_selection
  PROVE  /\ s_foreign' \in Controllers /\ s_fighter' \in Nat
         /\ s_foreign'.own = "foreign" => s_foreign'.active = "falcon" /\ s_fighter' = s_guest
         /\ ~s_foreign'.enabled => s_foreign'.active = "none" /\ s_foreign'.own = "native"
<1> USE DEF SavesInv, SaveTypes, Controllers, Owners
<1>1. CASE ~s_foreign.enabled
  <2>1. /\ s_foreign' = [Saves!Selected(s_foreign, "none") EXCEPT !.own = "native"]
        /\ s_fighter' = s_fighter
    BY <1>1 DEF Saves!smw_falcon_restore_selection
  <2> QED BY <2>1 DEF Saves!Selected
<1>2. CASE s_foreign.enabled /\ (~s_restored \/ s_foreign.active # "falcon")
  <2>1. /\ s_foreign' = [Saves!Selected(s_foreign, "falcon") EXCEPT !.own = "scripted"]
        /\ s_fighter' = Saves!FighterOf("falcon")
    BY <1>2 DEF Saves!smw_falcon_restore_selection
  <2>2. s_fighter' \in Nat
    BY <2>1, PartsAssumption DEF Saves!FighterOf, Saves!Fresh
  <2> QED BY <1>2, <2>1, <2>2 DEF Saves!Selected
<1>3. CASE s_foreign.enabled /\ s_restored /\ s_foreign.active = "falcon"
  <2>1. s_foreign' = s_foreign /\ s_fighter' = s_fighter
    BY <1>3 DEF Saves!smw_falcon_restore_selection
  <2> QED BY <1>3, <2>1 DEF OwnerHeld
<1> QED BY <1>1, <1>2, <1>3

LEMMA LoadedSaves == SavesInv /\ Saves!SmwOnStateLoaded => SavesInv'
<1> SUFFICES ASSUME SavesInv, Saves!SmwOnStateLoaded PROVE SavesInv'
  OBVIOUS
<1>1. /\ s_at = "read" /\ s_at' = "idle" /\ Saves!smw_falcon_restore_selection
      /\ s_restored' = FALSE /\ s_staged' = Saves!Empty
      /\ UNCHANGED <<s_guest, s_file>>
  BY DEF Saves!SmwOnStateLoaded
<1>2. s_staged' \in StagedSet
  BY <1>1 DEF Saves!Empty, Saves!None, StagedSet, Bodies
<1>3. /\ s_machine' \in Bodies /\ s_coop' \in Modes /\ ~s_coop'.choosing
      /\ Saves!Active' => s_machine' = Session'
  <2>0. ~s_coop.choosing
    BY <1>1 DEF SavesInv, OwnerHeld
  <2>1. CASE Saves!Active
    <3>1. s_staged.consumed /\ s_staged.body = Session
      BY <1>1, <2>1 DEF SavesInv, MachineHeld
    <3>2. /\ s_machine' = s_staged.body
          /\ s_coop' = [s_coop EXCEPT !.choosing = FALSE, !.files = TRUE]
      BY <2>1, <3>1 DEF Saves!SmwOnStateLoaded
    <3>3. s_coop' \in Modes /\ ~s_coop'.choosing /\ s_coop'.count = s_coop.count
      BY <3>2 DEF SavesInv, SaveTypes, Modes
    <3>4. s_machine' \in Bodies
      BY <3>2 DEF SavesInv, SaveTypes, StagedSet
    <3> QED BY <1>1, <3>1, <3>2, <3>3, <3>4 DEF Session
  <2>2. CASE ~Saves!Active
    <3>1. s_machine' = s_machine /\ s_coop' = s_coop
      BY <2>2 DEF Saves!SmwOnStateLoaded
    <3> QED BY <2>0, <2>2, <3>1 DEF SavesInv, SaveTypes, Saves!Active
  <2> QED BY <2>1, <2>2
<1>4. /\ s_foreign' \in Controllers /\ s_fighter' \in Nat
      /\ s_foreign'.own = "foreign" => s_foreign'.active = "falcon" /\ s_fighter' = s_guest
      /\ ~s_foreign'.enabled => s_foreign'.active = "none" /\ s_foreign'.own = "native"
  BY <1>1, SelectionIsRestored
<1>5. SaveTypes' /\ FileOfOneFrame'
  BY <1>1, <1>2, <1>3, <1>4 DEF SavesInv, SaveTypes, FileOfOneFrame
<1>6. MachineHeld' /\ OwnerHeld'
  BY <1>1, <1>3, <1>4 DEF MachineHeld, OwnerHeld
<1> QED BY <1>5, <1>6 DEF SavesInv

LEMMA SavesStep == SavesInv /\ Saves!Next => SavesInv'
BY RestartSaves, PlaySaves, TakeOverSaves, LetGoSaves, OpenChoiceSaves, ChooseSaves, ResetSaves,
   SaveSaves, AgedSaves, PreflightSaves, RefusedSaves, LoadExtraSaves, LoadedSaves
DEF Saves!Next

LEMMA SavesStutter ==
  ASSUME SavesInv, UNCHANGED savesVars PROVE SavesInv'
BY DEF savesVars, SavesInv, SaveTypes, FileOfOneFrame, MachineHeld, OwnerHeld, Session,
       Saves!Active

LEMMA SavesAreWhole == SavesInv => Saves!StateIsWhole
BY DEF SavesInv, MachineHeld, OwnerHeld, Session, Saves!StateIsWhole, Saves!MachineOfGuest,
       Saves!OwnerOfGuest

(* A loaded state is one state: whatever was saved, damaged, refused or    *)
(* loaded by whichever package, the co-op machine and a fighter that owns  *)
(* the movement are of the frame the guest is at (SmwCoopStateLoaded,      *)
(* smw_falcon_restore_selection).                                          *)
THEOREM StatesAreWhole == BenchSpec => []StateIsWhole
<1> DEFINE Inv == part = "saves" => SavesInv
<1>1. BenchInit => Inv
  BY InitSaves DEF BenchInit
<1>2. Inv /\ [BenchNext]_benchVars => Inv'
  <2> SUFFICES ASSUME Inv, part' = "saves", [BenchNext]_benchVars PROVE SavesInv'
    OBVIOUS
  <2>1. part = "saves" /\ SavesInv
    BY DEF BenchNext, benchVars
  <2>2. Saves!Next \/ UNCHANGED savesVars
    BY <2>1 DEF BenchNext, MayStop, benchVars
  <2> QED BY <2>1, <2>2, SavesStep, SavesStutter
<1>3. Inv => StateIsWhole
  BY SavesAreWhole DEF StateIsWhole
<1> QED BY <1>1, <1>2, <1>3, PTL DEF BenchSpec

-----------------------------------------------------------------------------
(* CoopReturn.  The pixels at which body_clear looks meet every block that *)
(* the body meets: none is wider than the step from one to the next.       *)
LEMMA SamplesMeetEveryBlock ==
  ASSUME NEW lo \in Int, NEW hi \in Int, NEW n \in lo .. hi
  PROVE  \E m \in Return!Samples(lo, hi) : m \in lo .. hi /\ m \div 16 = n \div 16
<1>1. CASE lo \div 16 = n \div 16
  <2>1. lo \in Return!Samples(lo, hi) /\ lo \in lo .. hi
    BY DEF Return!Samples
  <2> QED BY <1>1, <2>1
<1>2. CASE lo \div 16 # n \div 16
  <2> DEFINE m == 16 * (n \div 16)
  <2>1. m \in lo .. hi /\ m % 16 = 0 /\ m \div 16 = n \div 16
    BY <1>2
  <2>2. m \in Return!Samples(lo, hi)
    BY <2>1 DEF Return!Samples
  <2> QED BY <2>1, <2>2
<1> QED BY <1>1, <1>2

(* So a body that is clear there is clear at every pixel.                  *)
LEMMA ClearEverywhere ==
  ASSUME NEW layer, layer.dx \in Int, layer.dy \in Int, NEW b, NEW water,
         b.left \in Int, b.right \in Int, b.top \in Int, b.feet \in Int,
         Return!BodyClear(layer, b, water),
         NEW x \in b.left .. b.right, NEW y \in b.top .. b.feet - 1
  PROVE  LET at == <<(x + layer.dx) \div 16, (y + layer.dy) \div 16>>
         IN  at \in DOMAIN layer.block /\ Return!Passes(layer.block[at], water)
<1>1. PICK m \in Return!Samples(b.left + layer.dx, b.right + layer.dx) :
        m \in Int /\ m \div 16 = (x + layer.dx) \div 16
  <2>1. x + layer.dx \in (b.left + layer.dx) .. (b.right + layer.dx)
    OBVIOUS
  <2>2. b.left + layer.dx \in Int /\ b.right + layer.dx \in Int
    OBVIOUS
  <2> QED BY <2>1, <2>2, SamplesMeetEveryBlock
<1>2. PICK k \in Return!Samples(b.top + layer.dy, b.feet - 1 + layer.dy) :
        k \in Int /\ k \div 16 = (y + layer.dy) \div 16
  <2>1. y + layer.dy \in (b.top + layer.dy) .. (b.feet - 1 + layer.dy)
    OBVIOUS
  <2>2. b.top + layer.dy \in Int /\ b.feet - 1 + layer.dy \in Int
    OBVIOUS
  <2> QED BY <2>1, <2>2, SamplesMeetEveryBlock
<1>3. Return!Passes(Return!Block(layer, m, k), water)
  BY <1>1, <1>2 DEF Return!BodyClear
<1>4. ~Return!Passes("none", water)
  BY DEF Return!Passes
<1>5. <<m \div 16, k \div 16>> \in DOMAIN layer.block
      /\ Return!Passes(layer.block[<<m \div 16, k \div 16>>], water)
  BY <1>3, <1>4 DEF Return!Block
<1> QED BY <1>1, <1>2, <1>5

(* The place that was found is safe for the player as it is, who is put    *)
(* there in the same frame.                                                *)
Returning == [life : {"death", "catchup"}, power : {"small", "big"}, upgrade : BOOLEAN,
              mounted : BOOLEAN]

ReturnTypes ==
  /\ r_room \in Rooms /\ r_anchor \in Anchors /\ r_others \in Others /\ r_sprites \in Sprites
  /\ r_p \in Returning /\ r_place.found \in BOOLEAN /\ r_word.placed \in BOOLEAN

(* Who died is small until it returns; who was left behind grows at once.  *)
Sizes ==
  /\ r_p.life = "death" => r_p.power = "small"
  /\ r_p.life = "catchup" /\ r_p.upgrade => r_p.power = "big"

PlaceIsSafe ==
  /\ r_place.x \in Int /\ Return!SafeAt(r_place.x)
  /\ r_place.y = r_anchor.feet - Return!Height(r_p) \div 2

ReturnInv ==
  /\ ReturnTypes
  /\ ~r_word.placed => Sizes
  /\ r_place.found /\ ~r_word.placed => PlaceIsSafe
  /\ r_word.placed => r_place.found /\ Return!ReturnIsSafe

LEMMA InitReturn == Return!Init => ReturnInv
<1> SUFFICES ASSUME Return!Init PROVE ReturnInv
  OBVIOUS
<1>1. r_place.found = FALSE /\ r_word.placed = FALSE
  BY DEF Return!Init, Return!NoPlace, Return!NoWord
<1>2. r_p \in Returning /\ r_p.upgrade = FALSE /\ (r_p.life = "death" => r_p.power = "small")
  BY DEF Return!Init, Returning
<1>3. ReturnTypes
  BY <1>1, <1>2 DEF Return!Init, ReturnTypes
<1> QED BY <1>1, <1>2, <1>3 DEF ReturnInv, Sizes

LEMMA WaitReturns == ReturnInv /\ Return!Wait => ReturnInv'
<1> SUFFICES ASSUME ReturnInv, Return!Wait PROVE ReturnInv'
  OBVIOUS
<1>1. /\ ~r_place.found /\ r_anchor' \in Anchors /\ r_others' \in Others
      /\ r_sprites' \in Sprites /\ UNCHANGED <<r_room, r_p, r_place, r_word>>
  BY DEF Return!Wait
<1> QED BY <1>1 DEF ReturnInv, ReturnTypes, Sizes

LEMMA CheckpointReturns == ReturnInv /\ Return!Checkpoint => ReturnInv'
<1> SUFFICES ASSUME ReturnInv, Return!Checkpoint PROVE ReturnInv'
  OBVIOUS
<1>1. /\ ~r_place.found
      /\ r_p' = [r_p EXCEPT !.upgrade = TRUE,
                            !.power = IF r_p.life = "catchup" THEN "big" ELSE @]
      /\ UNCHANGED <<r_room, r_anchor, r_others, r_sprites, r_place, r_word>>
  BY DEF Return!Checkpoint
<1>2. /\ r_p' \in Returning /\ r_p'.life = r_p.life
      /\ r_p'.power = IF r_p.life = "catchup" THEN "big" ELSE r_p.power
  BY <1>1 DEF ReturnInv, ReturnTypes, Returning
<1> QED BY <1>1, <1>2 DEF ReturnInv, ReturnTypes, Sizes

LEMMA FirstOffset ==
  ASSUME NEW S \in SUBSET (1 .. 6), S # {}
  PROVE  (CHOOSE n \in S : \A k \in S : n <= k) \in S
<1>1. S \subseteq {1, 2, 3, 4, 5, 6}
  OBVIOUS
<1>2. \E n \in S : \A k \in S : n <= k
  <2>1. CASE 1 \in S
    BY <1>1, <2>1
  <2>2. CASE 1 \notin S /\ 2 \in S
    BY <1>1, <2>2
  <2>3. CASE 1 \notin S /\ 2 \notin S /\ 3 \in S
    BY <1>1, <2>3
  <2>4. CASE 1 \notin S /\ 2 \notin S /\ 3 \notin S /\ 4 \in S
    BY <1>1, <2>4
  <2>5. CASE S \subseteq {5, 6} /\ 5 \in S
    BY <2>5
  <2>6. CASE S = {6}
    BY <2>6
  <2> QED BY <1>1, <2>1, <2>2, <2>3, <2>4, <2>5, <2>6
<1> QED BY <1>2

LEMMA SafetyStays ==
  ASSUME UNCHANGED <<r_room, r_anchor, r_others, r_sprites, r_p, r_place>>, PlaceIsSafe
  PROVE  PlaceIsSafe'
BY DEF PlaceIsSafe, Return!SafeAt, Return!BodyAt, Return!Supported, Return!AnchorFeet,
       Return!AnchorAsOther

LEMMA SeekReturns == ReturnInv /\ Return!Seek => ReturnInv'
<1> SUFFICES ASSUME ReturnInv, Return!Seek PROVE ReturnInv'
  OBVIOUS
<1> DEFINE safe == {i \in DOMAIN Return!Offsets : Return!SafeAt(r_anchor.x + Return!Offsets[i])}
           i == CHOOSE n \in safe : \A k \in safe : n <= k
<1>1. /\ ~r_place.found
      /\ IF safe = {} THEN UNCHANGED r_place
         ELSE r_place' = [found |-> TRUE, x |-> r_anchor.x + Return!Offsets[i],
                          y |-> r_anchor.feet - Return!Height(r_p) \div 2]
      /\ UNCHANGED <<r_room, r_anchor, r_others, r_sprites, r_p, r_word>>
  BY DEF Return!Seek, Return!AnchorFeet
<1>2. ~r_word.placed
  BY <1>1 DEF ReturnInv
<1>3. DOMAIN Return!Offsets = 1 .. 6 /\ \A k \in 1 .. 6 : Return!Offsets[k] \in Int
  BY DEF Return!Offsets
<1>4. CASE safe = {}
  BY <1>1, <1>4 DEF ReturnInv, ReturnTypes, Sizes
<1>5. CASE safe # {}
  <2>1. i \in safe
    BY <1>3, <1>5, FirstOffset
  <2>2. r_place'.x \in Int /\ Return!SafeAt(r_place'.x)
    BY <1>1, <1>3, <1>5, <2>1, PartsAssumption DEF ReturnInv, ReturnTypes
  <2>3. r_place'.y = r_anchor.feet - Return!Height(r_p) \div 2 /\ r_place'.found = TRUE
    BY <1>1, <1>5
  <2>4. PlaceIsSafe'
    BY <1>1, <2>2, <2>3
    DEF PlaceIsSafe, Return!SafeAt, Return!BodyAt, Return!Supported, Return!AnchorFeet,
        Return!AnchorAsOther
  <2> QED BY <1>1, <1>2, <2>3, <2>4 DEF ReturnInv, ReturnTypes, Sizes
<1> QED BY <1>4, <1>5

(* The body that was sought for has the size of the one that is put there, *)
(* and its feet, read back, are the survivor's.                            *)
LEMMA Heights ==
  ASSUME NEW r \in Returning,
         r.life = "death" => r.power = "small",
         r.life = "catchup" /\ r.upgrade => r.power = "big",
         NEW power, power = IF r.life = "catchup" THEN r.power
                            ELSE IF r.upgrade THEN "big" ELSE "small"
  PROVE  /\ power \in {"small", "big"}
         /\ Return!Shape(power, r.mounted) \in {"big", "small", "bigRider", "smallRider"}
         /\ Return!Height(r) \in {12, 24, 26, 32}
         /\ Return!ClipHeight[Return!Shape(power, r.mounted)] = Return!Height(r)
         /\ Return!ClipY[Return!Shape(power, r.mounted)] \in Int
<1> DEFINE shape == Return!Shape(power, r.mounted)
<1>1. /\ Return!ClipHeight["big"] = 26 /\ Return!ClipHeight["small"] = 12
      /\ Return!ClipHeight["bigRider"] = 32 /\ Return!ClipHeight["smallRider"] = 24
  BY DEF Return!ClipHeight
<1>2. \A s \in {"big", "small", "bigRider", "smallRider"} : Return!ClipY[s] \in Int
  BY DEF Return!ClipY
<1>3. power \in {"small", "big"} /\ (power = "big" <=> r.upgrade \/ r.power # "small")
  BY DEF Returning
<1>4. CASE r.mounted
  BY <1>1, <1>2, <1>3, <1>4 DEF Return!Shape, Return!Height
<1>5. CASE ~r.mounted
  BY <1>1, <1>2, <1>3, <1>5 DEF Return!Shape, Return!Height
<1> QED BY <1>4, <1>5 DEF Returning

Body == Return!BodyAt(r_p, r_place.x)

LEMMA BodyIsPlaced ==
  ASSUME ReturnInv, Return!Return
  PROVE  /\ Body.left \in Int /\ Body.right \in Int /\ Body.top \in Int
         /\ Body.feet = r_anchor.feet /\ r_anchor.feet \in Int
         /\ Return!Columns' = Body.left .. Body.right
         /\ Return!Rows' = Body.top .. Body.feet - 1
         /\ (Return!ReadX - Return!Half)' = Body.left
         /\ (Return!ReadX + Return!Half - 1)' = Body.right
         /\ Return!ReadFeet' = r_anchor.feet
         /\ r_p' \in Returning /\ r_word'.placed = TRUE
<1> DEFINE power == IF r_p.life = "catchup" THEN r_p.power
                    ELSE IF r_p.upgrade THEN "big" ELSE "small"
           shape == Return!Shape(power, r_p.mounted)
<1>1. /\ r_place.found /\ ~r_word.placed
      /\ r_p' = [r_p EXCEPT !.power = power, !.upgrade = FALSE]
      /\ r_word' = [placed |-> TRUE, x |-> r_place.x - 8,
                    y |-> r_place.y - Return!ClipY[shape] - Return!ClipHeight[shape] \div 2]
  BY DEF Return!Return
<1>2. /\ power \in {"small", "big"} /\ Return!Height(r_p) \in {12, 24, 26, 32}
      /\ Return!ClipHeight[shape] = Return!Height(r_p) /\ Return!ClipY[shape] \in Int
  BY <1>1, Heights DEF ReturnInv, ReturnTypes, Sizes
<1>3. r_p \in Returning /\ r_p.mounted \in BOOLEAN
  BY DEF ReturnInv, ReturnTypes, Returning
<1>4. r_p' \in Returning /\ r_p'.power = power /\ r_p'.mounted = r_p.mounted
  BY <1>1, <1>2, <1>3 DEF Returning
<1> HIDE DEF power
<1>5. Return!Shape(r_p'.power, r_p'.mounted) = shape
  BY <1>4
<1> HIDE DEF shape
<1>6. /\ r_place.x \in Int /\ r_place.y = r_anchor.feet - Return!Height(r_p) \div 2
      /\ r_anchor.feet \in Int
  BY <1>1, PartsAssumption DEF ReturnInv, ReturnTypes, PlaceIsSafe
<1>7. /\ r_word'.placed = TRUE /\ r_word'.x = r_place.x - 8
      /\ r_word'.y = r_place.y - Return!ClipY[shape] - Return!ClipHeight[shape] \div 2
  BY <1>1
<1>8. Return!ReadFeet' = r_word'.y + Return!ClipY[shape] + Return!ClipHeight[shape]
  BY <1>5 DEF Return!ReadFeet
<1>9. Return!ReadFeet' = r_anchor.feet
  BY ONLY <1>2, <1>6, <1>7, <1>8
<1>10. Return!ReadX' = r_place.x
  BY <1>6, <1>7 DEF Return!ReadX
<1>11. Return!Half' = IF r_p.mounted THEN 16 ELSE 6
  BY <1>4 DEF Return!Half
<1> DEFINE half == IF r_p.mounted THEN 16 ELSE 6
           high == IF r_p.mounted THEN 48 ELSE Return!Height(r_p)
<1>12. /\ Body.left = r_place.x - half /\ Body.right = r_place.x + half - 1
       /\ Body.top = r_anchor.feet - high /\ Body.feet = r_anchor.feet
  BY DEF Body, Return!BodyAt, Return!AnchorFeet
<1>13. Return!Columns' = r_place.x - half .. r_place.x + half - 1
  BY <1>10, <1>11 DEF Return!Columns
<1>14. Return!Rows' = r_anchor.feet - high .. r_anchor.feet - 1
  BY <1>2, <1>4, <1>5, <1>9 DEF Return!Rows
<1>15. half \in Int /\ high \in Int
  BY <1>2
<1> HIDE DEF half, high
<1>16. /\ Body.left \in Int /\ Body.right \in Int /\ Body.top \in Int
  BY <1>6, <1>12, <1>15
<1>17. /\ (Return!ReadX - Return!Half)' = Body.left
       /\ (Return!ReadX + Return!Half - 1)' = Body.right
  BY <1>10, <1>11, <1>12 DEF half
<1> QED BY <1>4, <1>6, <1>7, <1>9, <1>12, <1>13, <1>14, <1>16, <1>17

LEMMA IntervalsApart ==
  ASSUME NEW a \in Int, NEW b \in Int, NEW c \in Int, NEW d \in Int, b < c \/ d < a
  PROVE  (a .. b) \cap (c .. d) = {}
OBVIOUS

(* Out of the margin kept round a thing is out of the thing itself.         *)
LEMMA BeyondTheMargin ==
  ASSUME NEW l \in Int, NEW r \in Int, NEW t \in Int, NEW f \in Int,
         NEW x \in Int, NEW y \in Int,
         \/ r < x - 16 \/ l >= x + 48 \/ f <= y - 16 \/ t >= y + 48
  PROVE  \/ r < x \/ x + 15 < l \/ f - 1 < y \/ y + 31 < t
OBVIOUS

(* Four pixels from a player is beside him.                                *)
LEMMA BesideAPlayer ==
  ASSUME NEW l \in Int, NEW r \in Int, NEW t \in Int, NEW f \in Int,
         NEW ol \in Int, NEW or \in Int, NEW ot \in Int, NEW of \in Int,
         \/ r < ol - 4 \/ l > or + 4 \/ f <= ot \/ t >= of
  PROVE  \/ r < ol \/ or < l \/ f - 1 < ot \/ of - 1 < t
OBVIOUS

(* Free of blocks, of sprites and of players.                              *)
LEMMA BodyIsClear ==
  ASSUME ReturnInv, Return!Return
  PROVE  Return!ReturnIsClear'
<1> USE DEF ReturnInv, ReturnTypes
<1>1. /\ r_place.found /\ ~r_word.placed
      /\ UNCHANGED <<r_room, r_anchor, r_others, r_sprites, r_place>>
  BY DEF Return!Return
<1>2. /\ Body.left \in Int /\ Body.right \in Int /\ Body.top \in Int
      /\ Body.feet = r_anchor.feet /\ Body.feet \in Int
      /\ Return!Columns' = Body.left .. Body.right
      /\ Return!Rows' = Body.top .. Body.feet - 1
  BY BodyIsPlaced
<1>3. /\ \A layer \in r_room : Return!BodyClear(layer, Body, r_anchor.swims)
      /\ \A s \in r_sprites : Return!SpriteClear(s, Body)
      /\ \A q \in r_others \cup {Return!AnchorAsOther} : Return!PlayerClear(q, Body)
  BY <1>1 DEF PlaceIsSafe, Return!SafeAt, Body
<1>4. ASSUME NEW layer \in r_room,
             NEW x \in Body.left .. Body.right, NEW y \in Body.top .. Body.feet - 1
      PROVE  LET at == <<(x + layer.dx) \div 16, (y + layer.dy) \div 16>>
             IN  at \in DOMAIN layer.block /\ Return!Passes(layer.block[at], r_anchor.swims)
  <2>1. layer.dx \in Int /\ layer.dy \in Int
    BY PartsAssumption
  <2> QED BY <1>2, <1>3, <2>1, ClearEverywhere
<1>5. ASSUME NEW s \in r_sprites, s.kind = "foe"
      PROVE  \/ (Body.left .. Body.right) \cap (s.x .. s.x + 15) = {}
             \/ (Body.top .. Body.feet - 1) \cap (s.y .. s.y + 31) = {}
  <2>1. s.x \in Int /\ s.y \in Int
    BY PartsAssumption
  <2>2. \/ Body.right < s.x - 16 \/ Body.left >= s.x + 48
        \/ Body.feet <= s.y - 16 \/ Body.top >= s.y + 48
    BY <1>3, <1>5 DEF Return!SpriteClear, Return!OnPlatform
  <2>3. \/ Body.right < s.x \/ s.x + 15 < Body.left
        \/ Body.feet - 1 < s.y \/ s.y + 31 < Body.top
    BY ONLY <1>2, <2>1, <2>2, BeyondTheMargin
  <2>4. s.x + 15 \in Int /\ s.y + 31 \in Int /\ Body.feet - 1 \in Int
    BY ONLY <1>2, <2>1
  <2>5. CASE Body.right < s.x \/ s.x + 15 < Body.left
    BY ONLY <1>2, <2>1, <2>4, <2>5, IntervalsApart
  <2>6. CASE Body.feet - 1 < s.y \/ s.y + 31 < Body.top
    BY ONLY <1>2, <2>1, <2>4, <2>6, IntervalsApart
  <2> QED BY <2>3, <2>5, <2>6
<1>6. ASSUME NEW q \in r_others \cup {Return!AnchorAsOther}
      PROVE  LET o == Return!BodyOf(q)
             IN  \/ (Body.left .. Body.right) \cap (o.left .. o.right) = {}
                 \/ (Body.top .. Body.feet - 1) \cap (o.top .. o.feet - 1) = {}
  <2> DEFINE o == Return!BodyOf(q)
  <2>1. q.x \in Int /\ q.feet \in Int
    BY PartsAssumption DEF Return!AnchorAsOther
  <2>2. o.left \in Int /\ o.right \in Int /\ o.top \in Int /\ o.feet \in Int
    BY <2>1 DEF Return!BodyOf
  <2>3. \/ Body.right < o.left - 4 \/ Body.left > o.right + 4
        \/ Body.feet <= o.top \/ Body.top >= o.feet
    BY <1>3 DEF Return!PlayerClear
  <2> HIDE DEF o
  <2>4. \/ (Body.left .. Body.right) \cap (o.left .. o.right) = {}
        \/ (Body.top .. Body.feet - 1) \cap (o.top .. o.feet - 1) = {}
    <3>1. \/ Body.right < o.left \/ o.right < Body.left
          \/ Body.feet - 1 < o.top \/ o.feet - 1 < Body.top
      BY ONLY <1>2, <2>2, <2>3, BesideAPlayer
    <3>2. Body.feet - 1 \in Int /\ o.feet - 1 \in Int
      BY ONLY <1>2, <2>2
    <3>3. CASE Body.right < o.left \/ o.right < Body.left
      BY ONLY <1>2, <2>2, <3>3, IntervalsApart
    <3>4. CASE Body.feet - 1 < o.top \/ o.feet - 1 < Body.top
      BY ONLY <1>2, <2>2, <3>2, <3>4, IntervalsApart
    <3> QED BY <3>1, <3>3, <3>4
  <2> QED BY <2>4 DEF o
<1>7. Return!AnchorAsOther' = Return!AnchorAsOther
  BY <1>1 DEF Return!AnchorAsOther
<1> QED BY <1>1, <1>2, <1>4, <1>5, <1>6, <1>7 DEF Return!ReturnIsClear

LEMMA BodyStands ==
  ASSUME ReturnInv, Return!Return
  PROVE  Return!ReturnStands'
<1> USE DEF ReturnInv, ReturnTypes
<1>1. /\ r_place.found /\ ~r_word.placed
      /\ UNCHANGED <<r_room, r_anchor, r_others, r_sprites, r_place>>
  BY DEF Return!Return
<1>2. /\ Body.left \in Int /\ Body.right \in Int /\ Body.feet = r_anchor.feet
      /\ Return!Columns' = Body.left .. Body.right
      /\ (Return!ReadX - Return!Half)' = Body.left
      /\ (Return!ReadX + Return!Half - 1)' = Body.right
      /\ Return!ReadFeet' = r_anchor.feet
  BY BodyIsPlaced
<1>3. Return!Supported(Body)
  BY <1>1 DEF PlaceIsSafe, Return!SafeAt, Body
<1>4. CASE r_anchor.swims
  BY <1>1, <1>2, <1>4 DEF Return!ReturnStands, Return!AnchorFeet
<1>5. ASSUME NEW layer \in r_room, Return!Footing(layer, Body.left, Body.feet),
             Return!Footing(layer, Body.right, Body.feet)
      PROVE  Return!ReturnStands'
  <2>1. \A x \in {Body.left, Body.right} :
          Return!Block(layer, x + layer.dx, r_anchor.feet + layer.dy) \in {"ledge", "floor"}
    BY <1>2, <1>5 DEF Return!Footing
  <2> QED BY <1>1, <1>2, <2>1 DEF Return!ReturnStands, Return!AnchorFeet
<1>6. ASSUME NEW s \in r_sprites, Return!OnPlatform(s, Body) PROVE Return!ReturnStands'
  <2>1. s.x \in Int
    BY PartsAssumption
  <2>2. /\ s.kind = "platform" /\ Body.feet = s.y + 1
        /\ Body.left >= s.x /\ Body.right < s.x + 48
    BY <1>6 DEF Return!OnPlatform
  <2>3. Body.left .. Body.right \subseteq s.x .. s.x + 47
    BY ONLY <1>2, <2>1, <2>2
  <2> QED BY <1>1, <1>2, <2>2, <2>3 DEF Return!ReturnStands, Return!AnchorFeet
<1> QED BY <1>3, <1>4, <1>5, <1>6 DEF Return!Supported

LEMMA ReturnReturns == ReturnInv /\ Return!Return => ReturnInv'
<1> SUFFICES ASSUME ReturnInv, Return!Return PROVE ReturnInv'
  OBVIOUS
<1>1. r_place.found /\ UNCHANGED <<r_room, r_anchor, r_others, r_sprites, r_place>>
  BY DEF Return!Return
<1>2. r_p' \in Returning /\ r_word'.placed = TRUE
  BY BodyIsPlaced
<1>3. Return!ReturnIsSafe'
  BY BodyIsClear, BodyStands DEF Return!ReturnIsSafe
<1> QED BY <1>1, <1>2, <1>3 DEF ReturnInv, ReturnTypes

(* A player who has returned stays where the check left it.                *)
LEMMA ReturnStutter == ASSUME ReturnInv, UNCHANGED returnVars PROVE ReturnInv'
<1>1. Return!ReturnIsSafe' <=> Return!ReturnIsSafe
  BY DEF returnVars, Return!ReturnIsSafe, Return!ReturnIsClear, Return!ReturnStands,
         Return!Columns, Return!Rows, Return!ReadX, Return!ReadFeet, Return!Half,
         Return!AnchorAsOther, Return!AnchorFeet
<1>2. r_place.found /\ ~r_word.placed => PlaceIsSafe'
  BY SafetyStays DEF returnVars, ReturnInv
<1> QED BY <1>1, <1>2 DEF returnVars, ReturnInv, ReturnTypes, Sizes

LEMMA ReturnStep == ReturnInv /\ Return!Next => ReturnInv'
BY SeekReturns, WaitReturns, CheckpointReturns, ReturnReturns DEF Return!Next

(* Whoever returns does so into free space and onto footing, for any rooms *)
(* of any layers, any survivors and any sprites (coop_terrain_safe,        *)
(* coop_guest_place_player): the few pixels the search looks at are enough *)
(* for all of the body.                                                    *)
THEOREM ReturnsAreSafe == BenchSpec => []ReturnIsSafe
<1> DEFINE Inv == part = "return" => ReturnInv
<1>1. BenchInit => Inv
  BY InitReturn DEF BenchInit
<1>2. Inv /\ [BenchNext]_benchVars => Inv'
  <2> SUFFICES ASSUME Inv, part' = "return", [BenchNext]_benchVars PROVE ReturnInv'
    OBVIOUS
  <2>1. part = "return" /\ ReturnInv
    BY DEF BenchNext, benchVars
  <2>2. Return!Next \/ UNCHANGED returnVars
    BY <2>1 DEF BenchNext, benchVars
  <2> QED BY <2>1, <2>2, ReturnStep, ReturnStutter
<1>3. Inv => ReturnIsSafe
  BY DEF ReturnIsSafe, ReturnInv, Return!ReturnIsSafe, Return!ReturnIsClear,
         Return!ReturnStands
<1> QED BY <1>1, <1>2, <1>3, PTL DEF BenchSpec
-----------------------------------------------------------------------------
(* The focus.  While nothing but deaths happens the framing of a team that *)
(* lost nobody is the one that its focus was last continued from.          *)

Watched == Focus!Active
Count == Focus!Cardinality(Watched)

FocusTypes ==
  /\ f_stage \in {"camera", "play", "end"}
  /\ f_word \in [1 .. Viewers -> Positions]
  /\ f_life \in [1 .. Viewers -> {"playing", "dying", "bubble"}]
  /\ f_stir \in Nat
  /\ f_focus \in [at : Int, centre : Int, count : Nat, known : BOOLEAN, hold : BOOLEAN]
  /\ f_framing = [leader |-> f_framing.leader, travel |-> f_framing.travel,
                  centre |-> f_framing.centre, known |-> f_framing.known,
                  width |-> f_framing.width, view |-> f_framing.view]

Fits == Focus!RightOf(Watched) - Focus!LeftOf(Watched) <= f_framing.width - Focus!Margin

(* The session's framing is of the players in play and where they are.     *)
TeamIsFramed ==
  f_framing.known =>
    /\ f_framing.centre = Focus!Centre(Watched)
    /\ f_framing.leader = IF Fits THEN Focus!Nobody ELSE Focus!Leader(f_framing.travel)

(* Nobody was lost, or the focus was continued from where the team is.     *)
Followed == Count = f_focus.count /\ f_focus.centre = Focus!Framed

FramingIsFresh ==
  Watched # {} =>
    /\ f_stage = "camera" /\ f_stir <= 1 => TeamIsFramed
    /\ f_stage = "play" /\ f_stir = 0 => TeamIsFramed

CentreIsFollowed ==
  Watched # {} /\ f_stir = 0 =>
    /\ f_stage = "play" => f_focus.known /\ Followed
    /\ f_stage = "end" => f_focus.known /\ (Count < f_focus.count \/ (Followed /\ TeamIsFramed))
    /\ f_stage = "camera" => \/ Count < f_focus.count
                             \/ Count = f_focus.count /\ (f_focus.hold => Followed)

(* A focus that is held has been through an end of a frame, which knows    *)
(* the team's framing.                                                     *)
HoldIsKnown ==
  /\ f_focus.hold => f_focus.known
  /\ Watched # {} /\ (f_focus.hold \/ (f_focus.known /\ f_stage = "camera")) => f_framing.known

FocusInv == FocusTypes /\ FramingIsFresh /\ CentreIsFollowed /\ HoldIsKnown

LEMMA NatLeast ==
  ASSUME NEW T \in SUBSET Nat, T # {}
  PROVE  \E m \in T : \A n \in T : m <= n
<1> DEFINE R == OpToRel(<, Nat)
<1>1. IsWellFoundedOn(R, Nat)
  BY NatLessThanWellFounded
<1>2. ASSUME NEW x \in Nat, NEW y \in Nat, x < y PROVE <<x, y>> \in R
  BY <1>2 DEF OpToRel
<1> HIDE DEF R
<1>3. PICK m \in T : \A n \in T : ~(<<n, m>> \in R)
  BY <1>1, WFMin
<1>4. ASSUME NEW n \in T PROVE m <= n
  <2>1. m \in Nat /\ n \in Nat /\ ~(n < m)
    BY <1>2, <1>3
  <2> QED BY <2>1
<1> QED BY <1>4

LEMMA NatGreatest ==
  ASSUME NEW T \in SUBSET Nat, T # {}, NEW b \in Nat, \A n \in T : n <= b
  PROVE  \E m \in T : \A n \in T : n <= m
<1> DEFINE U == {u \in Nat : \A n \in T : n <= u}
<1>1. PICK m \in U : \A u \in U : m <= u
  BY NatLeast
<1>2. m \in T
  <2> SUFFICES ASSUME m \notin T PROVE FALSE
    OBVIOUS
  <2>1. \A n \in T : n < m
    BY <1>1
  <2>2. PICK n \in T : n < m
    BY <2>1
  <2>3. m - 1 \in U
    BY <1>1, <2>1, <2>2
  <2> QED BY <1>1, <2>3
<1> QED BY <1>1, <1>2

LEMMA FocusBounds ==
  /\ Viewers \in Nat /\ Positions \subseteq 0 .. Words - 1 /\ Words \in Nat
  /\ HalfBody \in Nat /\ Limit \in Nat /\ Far \in Nat
BY PartsAssumption

LEMMA LeastIsOne ==
  ASSUME NEW T \in SUBSET Nat, T # {}
  PROVE  Focus!Min(T) \in T
BY NatLeast DEF Focus!Min

LEMMA GreatestIsOne ==
  ASSUME NEW T \in SUBSET Nat, T # {}, NEW b \in Nat, \A n \in T : n <= b
  PROVE  Focus!Max(T) \in T
BY NatGreatest DEF Focus!Max

(* The larger of a count and one.                                          *)
LEMMA AtLeastOne ==
  ASSUME NEW n \in Nat
  PROVE  Focus!Max({n, 1}) \in Nat /\ Focus!Max({n, 1}) >= 1
<1>1. CASE n >= 1
  <2>1. \A x \in {n, 1} : n >= x
    BY <1>1
  <2> QED BY <1>1, <2>1 DEF Focus!Max
<1>2. CASE n < 1
  <2>1. \A x \in {n, 1} : 1 >= x
    BY <1>2
  <2> QED BY <1>2, <2>1 DEF Focus!Max
<1> QED BY <1>1, <1>2

(* Nothing to follow, no step.                                             *)
LEMMA NoStep == Focus!Step(0) = 0
<1>1. Limit \in Nat /\ -Limit \in Int /\ -Limit <= 0
  BY FocusBounds
<1>2. Focus!Min({Limit, 0}) = 0
  <2>1. \A x \in {Limit, 0} : 0 <= x
    BY <1>1
  <2>2. \A m \in {Limit, 0} : (\A x \in {Limit, 0} : m <= x) => m = 0
    BY <1>1
  <2> QED BY <2>1, <2>2 DEF Focus!Min
<1>3. Focus!Max({-Limit, 0}) = 0
  <2>1. \A x \in {-Limit, 0} : 0 >= x
    BY <1>1
  <2>2. \A m \in {-Limit, 0} : (\A x \in {-Limit, 0} : m >= x) => m = 0
    BY <1>1
  <2> QED BY <2>1, <2>2 DEF Focus!Max
<1> QED BY <1>2, <1>3 DEF Focus!Step

LEMMA PlayerIsSomewhere ==
  ASSUME FocusTypes, NEW p \in Watched
  PROVE  p \in 1 .. Viewers /\ f_word[p] \in Nat /\ f_word[p] <= Words
<1>1. p \in 1 .. Viewers
  BY DEF Watched, Focus!Active
<1>2. f_word[p] \in Positions
  BY <1>1 DEF FocusTypes
<1>3. f_word[p] \in 0 .. Words - 1 /\ Words \in Nat
  BY <1>2, FocusBounds
<1>4. f_word[p] \in Nat /\ f_word[p] <= Words
  BY ONLY <1>3
<1> QED BY <1>1, <1>4

(* Where a team is, is a number.                                           *)
LEMMA TeamIsSomewhere ==
  ASSUME FocusTypes, Watched # {}
  PROVE  Focus!Centre(Watched) \in Int
<1>1. \A p \in Watched : /\ p \in 1 .. Viewers /\ f_word[p] \in Nat /\ f_word[p] <= Words
  BY PlayerIsSomewhere
<1> DEFINE L == {Focus!At(p) - HalfBody : p \in Watched}
           R == {Focus!At(p) + HalfBody : p \in Watched}
<1>2. L \in SUBSET Nat /\ L # {}
  BY <1>1, FocusBounds DEF Focus!At
<1>3. R \in SUBSET Nat /\ R # {} /\ \A n \in R : n <= Words + 2 * HalfBody
  BY <1>1, FocusBounds DEF Focus!At
<1>4. Words + 2 * HalfBody \in Nat
  BY FocusBounds
<1>5. Focus!LeftOf(Watched) = Focus!Min(L) /\ Focus!RightOf(Watched) = Focus!Max(R)
  BY DEF Focus!LeftOf, Focus!RightOf
<1> HIDE DEF L, R
<1>6. Focus!Min(L) \in Nat
  BY <1>2, LeastIsOne
<1>7. Focus!Max(R) \in Nat
  BY <1>3, <1>4, GreatestIsOne
<1> QED BY <1>5, <1>6, <1>7 DEF Focus!Centre

LEMMA FramedIsSomewhere ==
  ASSUME FocusTypes, Watched # {}
  PROVE  Focus!Framed \in Int
<1>1. \A p \in Watched : Focus!At(p) \in Int
  BY PlayerIsSomewhere, FocusBounds DEF Focus!At
<1> QED BY <1>1, TeamIsSomewhere DEF Focus!Framed, Watched

(* A team's count is a number, smaller without one of it.                  *)
LEMMA CountsOfTheTeam ==
  /\ IsFiniteSet(Watched) /\ Count \in Nat
  /\ \A p \in Watched : Focus!Cardinality(Watched \ {p}) = Count - 1
<1>1. IsFiniteSet(1 .. Viewers) /\ Watched \subseteq 1 .. Viewers
  BY FS_Interval, FocusBounds DEF Watched, Focus!Active
<1>2. IsFiniteSet(Watched)
  BY <1>1, FS_Subset
<1>3. \A S : Focus!Cardinality(S) = Cardinality(S)
  BY DEF Focus!Cardinality, Cardinality, Focus!IsFiniteSet, IsFiniteSet
<1> QED BY <1>2, <1>3, FS_CardinalityType, FS_RemoveElement DEF Count
LEMMA InitFocus == Focus!Init => FocusInv
<1> SUFFICES ASSUME Focus!Init PROVE FocusInv
  OBVIOUS
<1> USE DEF Focus!Init
<1>1. FocusTypes
  <2>1. /\ f_focus = [at |-> 0, centre |-> 0, count |-> 0, known |-> FALSE, hold |-> FALSE]
        /\ f_stir = 1 /\ f_stage = "camera" /\ f_word \in [1 .. Viewers -> Positions]
        /\ f_life \in [1 .. Viewers -> {"playing", "dying", "bubble"}]
    OBVIOUS
  <2>2. f_framing = [leader |-> f_framing.leader, travel |-> f_framing.travel,
                     centre |-> f_framing.centre, known |-> f_framing.known,
                     width |-> f_framing.width, view |-> f_framing.view]
    OBVIOUS
  <2> QED BY <2>1, <2>2 DEF FocusTypes
<1>2. FramingIsFresh /\ CentreIsFollowed /\ HoldIsKnown
  BY DEF FramingIsFresh, CentreIsFollowed, HoldIsKnown, TeamIsFramed
<1> QED BY <1>1, <1>2 DEF FocusInv

(* Who is watched and where they are, is told by the players alone; the    *)
(* framing is the session's, but for the view.                             *)
LEMMA TeamStays ==
  ASSUME UNCHANGED <<f_word, f_life>>
  PROVE  /\ Watched' = Watched /\ Count' = Count
         /\ Focus!Centre(Watched)' = Focus!Centre(Watched)
BY DEF Watched, Count, Focus!Active, Focus!Centre, Focus!LeftOf, Focus!RightOf, Focus!At

LEMMA FramedStays ==
  ASSUME UNCHANGED <<f_word, f_life>>, f_framing'.leader = f_framing.leader
  PROVE  Focus!Framed' = Focus!Framed
BY TeamStays DEF Focus!Framed, Watched, Focus!Active, Focus!At, Focus!Centre, Focus!LeftOf,
                 Focus!RightOf

LEMMA LeaderStays ==
  ASSUME UNCHANGED <<f_word, f_life>>, f_framing'.travel = f_framing.travel
  PROVE  Focus!Leader(f_framing.travel)' = Focus!Leader(f_framing.travel)
BY DEF Focus!Leader, Focus!Active, Focus!At

LEMMA FitsStays ==
  ASSUME UNCHANGED <<f_word, f_life>>, f_framing'.width = f_framing.width
  PROVE  Fits' <=> Fits
BY DEF Fits, Watched, Focus!Active, Focus!LeftOf, Focus!RightOf, Focus!At, Focus!Margin

LEMMA FramingStays ==
  ASSUME UNCHANGED <<f_word, f_life>>, TeamIsFramed,
         f_framing'.leader = f_framing.leader, f_framing'.travel = f_framing.travel,
         f_framing'.centre = f_framing.centre, f_framing'.known = f_framing.known,
         f_framing'.width = f_framing.width
  PROVE  TeamIsFramed'
<1>1. Focus!Leader(f_framing.travel)' = Focus!Leader(f_framing.travel)
  BY LeaderStays
<1>2. Fits' <=> Fits
  BY FitsStays
<1>3. Focus!Centre(Watched)' = Focus!Centre(Watched)
  BY TeamStays
<1> QED BY <1>1, <1>2, <1>3 DEF TeamIsFramed, Focus!Nobody

(* The focus after the camera has run for a team.                          *)
LEMMA FocusRuns ==
  ASSUME FocusTypes, Focus!Camera, Watched # {}
  PROVE  /\ f_focus' \in [at : Int, centre : Int, count : Nat, known : BOOLEAN,
                          hold : BOOLEAN]
         /\ f_focus'.known /\ f_focus'.count = Count /\ f_focus'.centre = Focus!Framed
         /\ f_focus'.hold => f_focus.hold \/ f_focus.known
<1>1. f_focus' = Focus!Focused(f_focus, Focus!Framed, Count) /\ f_focus'.at \in -Far .. Words + Far
  BY DEF Focus!Camera, Watched, Count
<1>2. f_focus'.at \in Int
  BY <1>1, FocusBounds
<1>3. Focus!Framed \in Int /\ Count \in Nat
  BY FramedIsSomewhere, CountsOfTheTeam
<1> DEFINE same == Count = f_focus.count
           hold == IF same THEN f_focus.hold ELSE Count < f_focus.count
           step == IF ~hold THEN Focus!Step(Focus!Framed - f_focus.at)
                   ELSE IF same THEN Focus!Step(Focus!Framed - f_focus.centre) ELSE 0
<1>4. f_focus' = IF ~f_focus.known
                 THEN [at |-> Focus!Framed, centre |-> Focus!Framed, count |-> Count,
                       known |-> TRUE, hold |-> f_focus.hold]
                 ELSE [at |-> f_focus.at + step, centre |-> Focus!Framed, count |-> Count,
                       known |-> TRUE, hold |-> hold]
  BY <1>1 DEF Focus!Focused
<1>5. f_focus.hold \in BOOLEAN /\ f_focus.known \in BOOLEAN /\ hold \in BOOLEAN
  <2>1. f_focus.hold \in BOOLEAN /\ f_focus.known \in BOOLEAN
    BY DEF FocusTypes
  <2>2. CASE same
    BY <2>1, <2>2
  <2>3. CASE ~same
    BY <2>1, <2>3
  <2> QED BY <2>2, <2>3
<1> HIDE DEF step, hold, same
<1>6. CASE ~f_focus.known
  BY <1>2, <1>3, <1>4, <1>5, <1>6
<1>7. CASE f_focus.known
  BY <1>2, <1>3, <1>4, <1>5, <1>7
<1> QED BY <1>6, <1>7
LEMMA CameraFocus == ASSUME FocusInv, Focus!Camera PROVE FocusInv'
<1>1. /\ f_stage = "camera" /\ f_stage' = "play" /\ UNCHANGED <<f_word, f_life>>
      /\ f_stir' = IF f_stir = 0 THEN 0 ELSE f_stir - 1
      /\ f_framing' = [f_framing EXCEPT !.view = f_focus'.at]
  BY DEF Focus!Camera
<1>2. FocusTypes /\ f_stir \in Nat
  BY DEF FocusInv, FocusTypes
<1>3. /\ f_framing'.leader = f_framing.leader /\ f_framing'.travel = f_framing.travel
      /\ f_framing'.centre = f_framing.centre /\ f_framing'.known = f_framing.known
      /\ f_framing'.width = f_framing.width
      /\ f_framing' = [leader |-> f_framing'.leader, travel |-> f_framing'.travel,
                       centre |-> f_framing'.centre, known |-> f_framing'.known,
                       width |-> f_framing'.width, view |-> f_framing'.view]
  <2> DEFINE a == f_focus'.at
  <2>1. f_framing' = [f_framing EXCEPT !.view = a]
    BY <1>1
  <2> HIDE DEF a
  <2> QED BY <1>2, <2>1 DEF FocusTypes
<1>4. Watched' = Watched /\ Count' = Count /\ Focus!Framed' = Focus!Framed
  BY <1>1, <1>3, TeamStays, FramedStays
<1>5. f_focus' \in [at : Int, centre : Int, count : Nat, known : BOOLEAN, hold : BOOLEAN]
  <2>1. CASE Watched = {}
    <3>1. f_focus' = f_focus
      BY <2>1 DEF Focus!Camera, Watched
    <3> QED BY <1>2, <3>1 DEF FocusTypes
  <2> QED BY <1>2, <2>1, FocusRuns
<1>6. FocusTypes'
  BY <1>1, <1>2, <1>3, <1>5 DEF FocusTypes
<1>7. FramingIsFresh'
  <2> SUFFICES ASSUME Watched # {}, f_stir' = 0 PROVE TeamIsFramed'
    BY <1>1, <1>4 DEF FramingIsFresh
  <2>1. f_stir <= 1
    BY <1>1, <1>2
  <2>2. TeamIsFramed
    BY <1>1, <2>1 DEF FocusInv, FramingIsFresh
  <2> QED BY <1>1, <1>3, <2>2, FramingStays
<1>8. CentreIsFollowed'
  <2> SUFFICES ASSUME Watched # {} PROVE (f_focus.known /\ Followed)'
    BY <1>1, <1>4 DEF CentreIsFollowed
  <2> QED BY <1>2, <1>4, FocusRuns DEF Followed
<1>9. HoldIsKnown'
  <2>1. CASE Watched = {}
    <3>1. f_focus' = f_focus
      BY <2>1 DEF Focus!Camera, Watched
    <3> QED BY <1>4, <2>1, <3>1 DEF FocusInv, HoldIsKnown
  <2>2. CASE Watched # {}
    <3>1. f_focus'.known /\ (f_focus'.hold => f_focus.known)
      BY <1>2, <2>2, FocusRuns DEF FocusInv, HoldIsKnown
    <3>2. f_focus.known => f_framing'.known
      BY <1>1, <1>3, <2>2 DEF FocusInv, HoldIsKnown
    <3> QED BY <1>1, <3>1, <3>2 DEF HoldIsKnown
  <2> QED BY <2>1, <2>2
<1> QED BY <1>6, <1>7, <1>8, <1>9 DEF FocusInv

LEMMA PlayFocus == ASSUME FocusInv, Focus!Play PROVE FocusInv'
<1>1. /\ f_stage = "play" /\ f_stage' = "end" /\ UNCHANGED <<f_framing, f_focus>>
  BY DEF Focus!Play
<1>2. FocusTypes /\ f_stir \in Nat
  BY DEF FocusInv, FocusTypes
<1>3. FramingIsFresh'
  BY <1>1 DEF FramingIsFresh
<1>4. CASE UNCHANGED <<f_word, f_life, f_stir>>
  <2>1. FocusTypes'
    BY <1>1, <1>2, <1>4 DEF FocusTypes
  <2>2. Watched' = Watched /\ Count' = Count /\ Focus!Framed' = Focus!Framed
    BY <1>1, <1>4, TeamStays, FramedStays
  <2>3. CentreIsFollowed'
    <3> SUFFICES ASSUME Watched # {}, f_stir = 0
                 PROVE  (f_focus.known /\ Followed /\ TeamIsFramed)'
      BY <1>1, <1>4, <2>2 DEF CentreIsFollowed
    <3>1. f_focus.known /\ Followed /\ TeamIsFramed
      BY <1>1 DEF FocusInv, CentreIsFollowed, FramingIsFresh
    <3> QED BY <1>1, <1>4, <2>2, <3>1, FramingStays DEF Followed
  <2>4. HoldIsKnown'
    BY <1>1, <2>2 DEF FocusInv, HoldIsKnown
  <2> QED BY <1>3, <2>1, <2>3, <2>4 DEF FocusInv
<1>5. ASSUME NEW p \in Focus!Active, NEW d \in {-1, 1},
             f_word' = [f_word EXCEPT ![p] = (@ + d) % Words], f_word'[p] \in Positions,
             f_stir' = Focus!Max({f_stir, 1}), f_life' = f_life
      PROVE  FocusInv'
  <2>1. f_stir' \in Nat /\ f_stir' # 0
    BY <1>2, <1>5, AtLeastOne
  <2>2. p \in 1 .. Viewers
    BY DEF Focus!Active
  <2>3. f_word' \in [1 .. Viewers -> Positions]
    <3> DEFINE w == (f_word[p] + d) % Words
    <3>1. f_word' = [f_word EXCEPT ![p] = w]
      BY <1>5
    <3> HIDE DEF w
    <3> QED BY <1>2, <1>5, <2>2, <3>1 DEF FocusTypes
  <2>4. FocusTypes'
    BY <1>1, <1>2, <1>5, <2>1, <2>3 DEF FocusTypes
  <2>5. CentreIsFollowed'
    BY <2>1 DEF CentreIsFollowed
  <2>6. Watched' = Watched
    BY <1>5 DEF Watched, Focus!Active
  <2>7. HoldIsKnown'
    BY <1>1, <2>6 DEF FocusInv, HoldIsKnown
  <2> QED BY <1>3, <2>4, <2>5, <2>7 DEF FocusInv
<1>6. ASSUME NEW p \in Focus!Active, f_life' = [f_life EXCEPT ![p] = "dying"],
             UNCHANGED <<f_word, f_stir>>
      PROVE  FocusInv'
  <2>1. p \in 1 .. Viewers /\ f_life[p] = "playing"
    BY DEF Focus!Active
  <2>2. FocusTypes'
    BY <1>1, <1>2, <1>6, <2>1 DEF FocusTypes
  <2>3. Watched' = Watched \ {p} /\ p \in Watched
    BY <1>2, <1>6, <2>1 DEF Watched, Focus!Active, FocusTypes
  <2>4. Count' = Count - 1 /\ Count \in Nat
    <3>1. Count' = Focus!Cardinality(Watched')
      BY DEF Count, Focus!Cardinality
    <3> QED BY <2>3, <3>1, CountsOfTheTeam
  <2>5. CentreIsFollowed'
    <3> SUFFICES ASSUME f_stir = 0 PROVE f_focus.known /\ Count' < f_focus.count
      BY <1>1, <1>6 DEF CentreIsFollowed
    <3> QED BY <1>1, <2>3, <2>4 DEF FocusInv, CentreIsFollowed, Followed
  <2>6. HoldIsKnown'
    BY <1>1, <2>3 DEF FocusInv, HoldIsKnown
  <2> QED BY <1>3, <2>2, <2>5, <2>6 DEF FocusInv
<1> QED BY <1>4, <1>5, <1>6 DEF Focus!Play

(* Everybody is at an entrance, whose focus and framing are new.           *)
LEMMA EnterFocus == ASSUME FocusInv, Focus!EnterRoom PROVE FocusInv'
<1>1. /\ f_stage = "camera" /\ f_stage' = "camera" /\ f_stir' = 1
      /\ f_focus' = [f_focus EXCEPT !.known = FALSE, !.hold = FALSE, !.count = 0]
      /\ f_framing' = [f_framing EXCEPT !.known = FALSE, !.leader = 0]
      /\ f_life' = [p \in 1 .. Viewers |-> "playing"]
  BY DEF Focus!EnterRoom, Focus!Nobody
<1>2. f_word' \in [1 .. Viewers -> Positions]
  <2>1. PICK w \in Positions : f_word' = [p \in 1 .. Viewers |-> w]
    BY DEF Focus!EnterRoom
  <2> QED BY <2>1
<1>3. FocusTypes
  BY DEF FocusInv
<1>4. f_focus' \in [at : Int, centre : Int, count : Nat, known : BOOLEAN, hold : BOOLEAN]
      /\ ~f_focus'.known /\ ~f_focus'.hold
  BY <1>1, <1>3 DEF FocusTypes
<1>5. /\ ~f_framing'.known
      /\ f_framing' = [leader |-> f_framing'.leader, travel |-> f_framing'.travel,
                       centre |-> f_framing'.centre, known |-> f_framing'.known,
                       width |-> f_framing'.width, view |-> f_framing'.view]
  BY <1>1, <1>3 DEF FocusTypes
<1>6. FocusTypes'
  <2>1. f_life' \in [1 .. Viewers -> {"playing", "dying", "bubble"}]
    BY <1>1
  <2> QED BY <1>1, <1>2, <1>4, <1>5, <2>1 DEF FocusTypes
<1>7. FramingIsFresh' /\ CentreIsFollowed' /\ HoldIsKnown'
  BY <1>1, <1>4, <1>5 DEF FramingIsFresh, CentreIsFollowed, HoldIsKnown, TeamIsFramed
<1> QED BY <1>6, <1>7 DEF FocusInv
(* What the end of a frame leaves: the framing is of the team before any   *)
(* bubble or return, and the focus only forgets that it was held.          *)
LEMMA FrameEnds ==
  ASSUME FocusTypes, NEW width, f_framing' = Focus!Framing(width),
         f_focus' = Focus!Refit(width)
  PROVE  /\ f_focus' \in [at : Int, centre : Int, count : Nat, known : BOOLEAN,
                          hold : BOOLEAN]
         /\ f_focus'.known = f_focus.known /\ f_focus'.count = f_focus.count
         /\ f_focus'.centre = f_focus.centre /\ (f_focus'.hold => f_focus.hold)
         /\ width = f_framing.width => f_focus' = f_focus
         /\ f_framing' = [leader |-> f_framing'.leader, travel |-> f_framing'.travel,
                          centre |-> f_framing'.centre, known |-> f_framing'.known,
                          width |-> f_framing'.width, view |-> f_framing'.view]
         /\ f_framing'.width = width
         /\ Watched # {} =>
              /\ f_framing'.known
              /\ f_framing'.centre = Focus!Centre(Watched)
              /\ f_framing'.leader =
                   IF Focus!RightOf(Watched) - Focus!LeftOf(Watched) <= width - Focus!Margin
                   THEN Focus!Nobody ELSE Focus!Leader(f_framing'.travel)
              /\ Focus!Centre(Watched) - f_framing.centre = 0 =>
                   f_framing'.travel = f_framing.travel
<1>1. f_focus' = f_focus \/ f_focus' = [f_focus EXCEPT !.hold = FALSE]
  BY DEF Focus!Refit
<1>2. width = f_framing.width => f_focus' = f_focus
  BY DEF Focus!Refit
<1>3. /\ f_focus' \in [at : Int, centre : Int, count : Nat, known : BOOLEAN, hold : BOOLEAN]
      /\ f_focus'.known = f_focus.known /\ f_focus'.count = f_focus.count
      /\ f_focus'.centre = f_focus.centre /\ (f_focus'.hold => f_focus.hold)
  BY <1>1 DEF FocusTypes
<1> DEFINE fits == Focus!RightOf(Watched) - Focus!LeftOf(Watched) <= width - Focus!Margin
           dx == Focus!Centre(Watched) - f_framing.centre
           travel == IF f_framing.known /\ fits /\ dx # 0 THEN Focus!Sign(dx)
                     ELSE f_framing.travel
           leader == IF fits THEN Focus!Nobody ELSE Focus!Leader(travel)
           centre == Focus!Centre(Watched)
<1>4. f_framing' = IF Watched = {} THEN [f_framing EXCEPT !.width = width]
                   ELSE [f_framing EXCEPT !.width = width, !.known = TRUE, !.centre = centre,
                            !.travel = travel, !.leader = leader]
  BY DEF Focus!Framing, Watched
<1>5. leader = IF fits THEN Focus!Nobody ELSE Focus!Leader(travel)
  OBVIOUS
<1>6. dx = 0 => travel = f_framing.travel
  OBVIOUS
<1> HIDE DEF leader, travel, centre
<1>7. CASE Watched = {}
  <2>1. f_framing' = [f_framing EXCEPT !.width = width]
    BY <1>4, <1>7
  <2>2. /\ f_framing' = [leader |-> f_framing'.leader, travel |-> f_framing'.travel,
                         centre |-> f_framing'.centre, known |-> f_framing'.known,
                         width |-> f_framing'.width, view |-> f_framing'.view]
        /\ f_framing'.width = width
    BY <2>1 DEF FocusTypes
  <2> QED BY <1>2, <1>3, <1>7, <2>2
<1>8. CASE Watched # {}
  <2>1. f_framing' = [f_framing EXCEPT !.width = width, !.known = TRUE, !.centre = centre,
                         !.travel = travel, !.leader = leader]
    BY <1>4, <1>8
  <2>2. /\ f_framing' = [leader |-> f_framing'.leader, travel |-> f_framing'.travel,
                         centre |-> f_framing'.centre, known |-> f_framing'.known,
                         width |-> f_framing'.width, view |-> f_framing'.view]
        /\ f_framing'.width = width /\ f_framing'.known /\ f_framing'.centre = centre
        /\ f_framing'.travel = travel /\ f_framing'.leader = leader
    BY <2>1 DEF FocusTypes
  <2>3. f_framing'.leader = IF fits THEN Focus!Nobody ELSE Focus!Leader(f_framing'.travel)
    BY <1>5, <2>2
  <2>4. f_framing'.centre = Focus!Centre(Watched)
    BY <2>2 DEF centre
  <2>5. dx = 0 => f_framing'.travel = f_framing.travel
    BY <1>6, <2>2
  <2> QED BY <1>2, <1>3, <2>2, <2>3, <2>4, <2>5
<1> QED BY <1>7, <1>8

(* A frame's end in which nobody was left behind or came back.             *)
LEMMA QuietEnd ==
  ASSUME FocusInv, f_stage = "end", f_stage' = "camera", NEW width,
         f_framing' = Focus!Framing(width), f_focus' = Focus!Refit(width),
         UNCHANGED <<f_word, f_life>>,
         f_stir' = IF width = f_framing.width THEN f_stir ELSE Focus!Max({f_stir, 1})
  PROVE  FocusInv'
<1>1. FocusTypes /\ f_stir \in Nat
  BY DEF FocusInv, FocusTypes
<1>2. f_stir' \in Nat /\ (f_stir' = 0 => f_stir = 0 /\ width = f_framing.width)
  BY <1>1, AtLeastOne
<1>3. Watched' = Watched /\ Count' = Count /\ Focus!Centre(Watched)' = Focus!Centre(Watched)
  BY TeamStays
<1>4. FocusTypes'
  BY <1>1, <1>2, FrameEnds DEF FocusTypes
<1>5. ASSUME Watched # {} PROVE TeamIsFramed' /\ f_framing'.known
  <2>1. /\ f_framing'.known /\ f_framing'.width = width
        /\ f_framing'.centre = Focus!Centre(Watched)
        /\ f_framing'.leader =
             IF Focus!RightOf(Watched) - Focus!LeftOf(Watched) <= width - Focus!Margin
             THEN Focus!Nobody ELSE Focus!Leader(f_framing'.travel)
    BY <1>1, <1>5, FrameEnds
  <2>2. Fits' <=> Focus!RightOf(Watched) - Focus!LeftOf(Watched) <= width - Focus!Margin
    BY <2>1 DEF Fits, Watched, Focus!Active, Focus!RightOf, Focus!LeftOf, Focus!At, Focus!Margin
  <2>3. Focus!Leader(f_framing.travel)' = Focus!Leader(f_framing'.travel)
    BY DEF Focus!Leader, Focus!Active, Focus!At
  <2> QED BY <1>3, <2>1, <2>2, <2>3 DEF TeamIsFramed, Focus!Nobody
<1>6. FramingIsFresh'
  BY <1>3, <1>5 DEF FramingIsFresh
<1>7. HoldIsKnown'
  <2>1. f_focus'.hold => f_focus'.known
    BY <1>1, FrameEnds DEF FocusInv, HoldIsKnown
  <2> QED BY <1>3, <1>5, <2>1 DEF HoldIsKnown
<1>8. CentreIsFollowed'
  <2> SUFFICES ASSUME Watched # {}, f_stir' = 0
               PROVE  (\/ Count < f_focus.count
                       \/ Count = f_focus.count /\ (f_focus.hold => Followed))'
    BY <1>3 DEF CentreIsFollowed
  <2>1. f_stir = 0 /\ width = f_framing.width
    BY <1>2
  <2>2. f_focus' = f_focus
    BY <1>1, <2>1, FrameEnds
  <2>3. Count < f_focus.count \/ (Followed /\ TeamIsFramed)
    BY <2>1 DEF FocusInv, CentreIsFollowed
  <2>4. ASSUME Followed, TeamIsFramed, f_focus.hold PROVE Followed'
    <3>1. /\ f_framing.known /\ f_framing.centre = Focus!Centre(Watched)
          /\ f_framing.leader = IF Fits THEN Focus!Nobody ELSE Focus!Leader(f_framing.travel)
      BY <2>4 DEF FocusInv, HoldIsKnown, TeamIsFramed
    <3>2. Focus!Centre(Watched) - f_framing.centre = 0
      BY <1>1, <3>1, TeamIsSomewhere
    <3>3. f_framing'.leader = f_framing.leader
      BY <1>1, <2>1, <3>1, <3>2, FrameEnds DEF Fits
    <3>4. Focus!Framed' = Focus!Framed
      BY <3>3, FramedStays
    <3> QED BY <1>3, <2>2, <2>4, <3>4 DEF Followed
  <2>5. CASE Count < f_focus.count
    BY <1>3, <2>2, <2>5
  <2>6. CASE Followed /\ TeamIsFramed
    <3>1. Count = f_focus.count
      BY <2>6 DEF Followed
    <3> QED BY <1>3, <2>2, <2>4, <2>6, <3>1
  <2> QED BY <2>3, <2>5, <2>6
<1> QED BY <1>4, <1>6, <1>7, <1>8 DEF FocusInv

(* One that was left behind, or came back: the team is framed anew.        *)
LEMMA BusyEnd ==
  ASSUME FocusInv, f_stage = "end", f_stage' = "camera", NEW width,
         f_framing' = Focus!Framing(width), f_focus' = Focus!Refit(width),
         Watched # {}, f_stir' = 2,
         f_word' \in [1 .. Viewers -> Positions],
         f_life' \in [1 .. Viewers -> {"playing", "dying", "bubble"}]
  PROVE  FocusInv'
<1>1. FocusTypes
  BY DEF FocusInv
<1>2. FocusTypes'
  BY <1>1, FrameEnds DEF FocusTypes
<1>3. FramingIsFresh' /\ CentreIsFollowed'
  BY DEF FramingIsFresh, CentreIsFollowed
<1>4. HoldIsKnown'
  BY <1>1, FrameEnds DEF FocusInv, HoldIsKnown
<1> QED BY <1>2, <1>3, <1>4 DEF FocusInv

LEMMA EndFocus == ASSUME FocusInv, Focus!End PROVE FocusInv'
<1>1. f_stage = "end" /\ f_stage' = "camera" /\ FocusTypes
  BY DEF Focus!End, FocusInv
<1>2. PICK width \in Widths :
        /\ f_framing' = Focus!Framing(width) /\ f_focus' = Focus!Refit(width)
        /\ \/ /\ UNCHANGED <<f_word, f_life>>
              /\ f_stir' = IF width = f_framing.width THEN f_stir ELSE Focus!Max({f_stir, 1})
           \/ \E p \in 1 .. Viewers :
                /\ Focus!MayCatchUp(p, width)
                /\ f_life' = [f_life EXCEPT ![p] = "bubble"] /\ f_stir' = 2
                /\ UNCHANGED f_word
           \/ \E p \in 1 .. Viewers, q \in Focus!Active :
                /\ Focus!MayReturn(p)
                /\ f_life' = [f_life EXCEPT ![p] = "playing"] /\ f_stir' = 2
                /\ \E d \in {-1, 1} :
                     /\ (f_word[q] + d) % Words \in Positions
                     /\ f_word' = [f_word EXCEPT ![p] = (f_word[q] + d) % Words]
  BY DEF Focus!End
<1>3. CASE /\ UNCHANGED <<f_word, f_life>>
           /\ f_stir' = IF width = f_framing.width THEN f_stir ELSE Focus!Max({f_stir, 1})
  BY <1>1, <1>2, <1>3, QuietEnd
<1>4. ASSUME NEW p \in 1 .. Viewers, Focus!MayCatchUp(p, width), f_stir' = 2,
             f_life' = [f_life EXCEPT ![p] = "bubble"], UNCHANGED f_word
      PROVE  FocusInv'
  <2>1. Watched # {}
    BY <1>4 DEF Focus!MayCatchUp, Watched
  <2>2. /\ f_word' \in [1 .. Viewers -> Positions]
        /\ f_life' \in [1 .. Viewers -> {"playing", "dying", "bubble"}]
    BY <1>1, <1>4 DEF FocusTypes
  <2> QED BY <1>1, <1>2, <1>4, <2>1, <2>2, BusyEnd
<1>5. ASSUME NEW p \in 1 .. Viewers, NEW q \in Focus!Active, NEW w \in Positions,
             f_life' = [f_life EXCEPT ![p] = "playing"], f_stir' = 2,
             f_word' = [f_word EXCEPT ![p] = w]
      PROVE  FocusInv'
  <2>1. Watched # {}
    BY DEF Watched
  <2>2. /\ f_word' \in [1 .. Viewers -> Positions]
        /\ f_life' \in [1 .. Viewers -> {"playing", "dying", "bubble"}]
    BY <1>1, <1>5 DEF FocusTypes
  <2> QED BY <1>1, <1>2, <1>5, <2>1, <2>2, BusyEnd
<1> QED BY <1>2, <1>3, <1>4, <1>5

(* A held view, or one whose team lost somebody, is not moved.             *)
LEMMA ViewStays ==
  ASSUME FocusInv, Focus!Camera, f_stir = 0, Focus!Active # {}, f_focus.known,
         f_focus.hold \/ Focus!Cardinality(Focus!Active) < f_focus.count
  PROVE  f_focus'.at = f_focus.at
<1>1. f_stage = "camera" /\ FocusTypes /\ Watched # {}
  BY DEF Focus!Camera, FocusInv, Watched
<1>2. f_focus' = Focus!Focused(f_focus, Focus!Framed, Count) /\ f_focus.at \in Int
  BY <1>1 DEF Focus!Camera, Watched, Count, FocusTypes
<1>3. /\ Count \in Nat /\ f_focus.count \in Nat
      /\ Count < f_focus.count \/ (Count = f_focus.count /\ (f_focus.hold => Followed))
  <2>1. Count \in Nat
    BY CountsOfTheTeam
  <2>2. f_focus.count \in Nat
    BY <1>1 DEF FocusTypes
  <2>3. Count < f_focus.count \/ (Count = f_focus.count /\ (f_focus.hold => Followed))
    BY <1>1 DEF FocusInv, CentreIsFollowed
  <2> QED BY <2>1, <2>2, <2>3
<1>4. CASE Count < f_focus.count
  <2>1. f_focus'.at = f_focus.at + 0
    BY <1>2, <1>3, <1>4 DEF Focus!Focused
  <2> QED BY <1>2, <2>1
<1>5. CASE Count = f_focus.count
  <2>1. f_focus.hold /\ Focus!Framed = f_focus.centre
    BY <1>3, <1>5 DEF Followed, Count, Watched
  <2>2. Focus!Framed - f_focus.centre = 0
    BY <1>1, <2>1, FramedIsSomewhere
  <2>3. f_focus'.at = f_focus.at + Focus!Step(Focus!Framed - f_focus.centre)
    BY <1>2, <1>5, <2>1 DEF Focus!Focused
  <2> QED BY <1>2, <2>2, <2>3, NoStep
<1> QED BY <1>3, <1>4, <1>5

LEMMA FocusStep == FocusInv /\ Focus!Next => FocusInv'
BY CameraFocus, PlayFocus, EnterFocus, EndFocus DEF Focus!Next

LEMMA FocusStutter == ASSUME FocusInv, UNCHANGED focusVars PROVE FocusInv'
<1>1. /\ Watched' = Watched /\ Count' = Count /\ Focus!Framed' = Focus!Framed
      /\ TeamIsFramed' = TeamIsFramed
  BY DEF focusVars, Watched, Count, Focus!Active, Focus!Framed, Focus!Centre, Focus!LeftOf,
         Focus!RightOf, Focus!At, TeamIsFramed, Fits, Focus!Margin, Focus!Leader, Focus!Nobody
<1> QED BY <1>1 DEF focusVars, FocusInv, FocusTypes, FramingIsFresh, CentreIsFollowed,
                    HoldIsKnown, Followed

(* A death does not move the survivors' view, whoever led the team and     *)
(* however often the view was resized before (coop_machine_focus,          *)
(* coop_camera_frame), for any roster, word and speed of the camera.       *)
THEOREM DeathsKeepTheView == BenchSpec => DeathKeepsView
<1> DEFINE Inv == part = "focus" => FocusInv
<1>1. BenchInit => Inv
  BY InitFocus DEF BenchInit
<1>2. Inv /\ [BenchNext]_benchVars => Inv'
  <2> SUFFICES ASSUME Inv, part' = "focus", [BenchNext]_benchVars PROVE FocusInv'
    OBVIOUS
  <2>1. part = "focus" /\ FocusInv
    BY DEF BenchNext, benchVars
  <2>2. Focus!Next \/ UNCHANGED focusVars
    BY <2>1 DEF BenchNext, benchVars
  <2> QED BY <2>1, <2>2, FocusStep, FocusStutter
<1> DEFINE Moves == (/\ f_stage = "camera" /\ f_stage' = "play" /\ f_stir = 0
                     /\ Focus!Active # {} /\ f_focus.known
                     /\ f_focus.hold \/ Focus!Cardinality(Focus!Active) < f_focus.count)
                    => f_focus'.at = f_focus.at
<1>3. Inv /\ [BenchNext]_benchVars => [Moves]_(Focus!vars)
  <2> SUFFICES ASSUME Inv, [BenchNext]_benchVars, Focus!vars' # Focus!vars, f_stir = 0,
                      f_stage = "camera", f_stage' = "play", Focus!Active # {}, f_focus.known,
                      f_focus.hold \/ Focus!Cardinality(Focus!Active) < f_focus.count
               PROVE  f_focus'.at = f_focus.at
    OBVIOUS
  <2>1. focusVars' # focusVars
    BY DEF focusVars, Focus!vars
  <2>2. part = "focus" /\ Focus!Next
    BY <2>1 DEF BenchNext, benchVars
  <2>3. Focus!Camera
    BY <2>2 DEF Focus!Next, Focus!Play, Focus!EnterRoom, Focus!End
  <2> QED BY <2>2, <2>3, ViewStays
<1> QED BY <1>1, <1>2, <1>3, PTL DEF BenchSpec, DeathKeepsView, Focus!DeathKeepsView
-----------------------------------------------------------------------------
(* CoopFire.  The two slots of the guest are the place of nobody, 0; a     *)
(* shot that was fired is in at most one place, and a foe was struck if    *)
(* and only if its slot remembers its identity.                            *)
Kinds   == {"none", "shot", "puff"}
Stages  == {"begin", "players", "bosses", "boss, shared", "foes", "shots",
            "second shots", "shared shots", "nmi"}
Flights == [kind : Kinds, shot : Nat]
Banked  == [kind : Kinds, shot : Nat, id : Nat, pending : BOOLEAN, visible : BOOLEAN]
Holders == 0 .. Shooters

FireTypes ==
  /\ b_at \in [name : Stages, next : 1 .. Shooters]
  /\ b_native \in [{8, 9} -> Flights]
  /\ b_bank \in [1 .. Shooters -> [{8, 9} -> Banked]]
  /\ b_adopted \in BOOLEAN /\ b_fired \in Nat /\ b_next \in Nat \ {0}
  /\ b_foe \in [1 .. Targets -> [id : Nat, life : Int]]
  /\ b_damaged \in [1 .. Targets -> Nat] /\ b_struck \in [1 .. Targets -> Nat]

ShotAt(p, j) == IF p = 0 THEN b_native[j].shot ELSE b_bank[p][j].shot
Taken(p, j)  == IF p = 0 THEN b_native[j].kind # "none" ELSE b_bank[p][j].kind # "none"

ShotsApart ==
  /\ \A p \in Holders, j \in {8, 9} : Taken(p, j) => ShotAt(p, j) \in 1 .. b_fired
  /\ \A p \in Holders, q \in Holders, j \in {8, 9}, k \in {8, 9} :
       Taken(p, j) /\ Taken(q, k) /\ ShotAt(p, j) = ShotAt(q, k) => p = q /\ j = k

ShotsEnd ==
  \A n \in 1 .. b_fired :
    n \in b_ended \/ \E p \in Holders, j \in {8, 9} : Taken(p, j) /\ ShotAt(p, j) = n

FoesAnswer ==
  \A e \in 1 .. Targets :
    /\ 0 < b_foe[e].id /\ b_foe[e].id < b_next /\ b_damaged[e] < b_next
    /\ b_struck[e] = IF b_damaged[e] = b_foe[e].id THEN 1 ELSE 0

Adopts == b_adopted \/ b_at.name = "begin"

FireInv == FireTypes /\ ShotsApart /\ ShotsEnd /\ FoesAnswer /\ Adopts /\ Fire!BanksValid

(* The instances count as this module does.                                *)
LEMMA CountsAlike ==
  \A S : Fire!Cardinality(S) = Cardinality(S) /\ Stream!Cardinality(S) = Cardinality(S)
BY DEF Fire!Cardinality, Stream!Cardinality, Cardinality

LEMMA Slot8and9 == Fire!Both = {8, 9} /\ Fire!Last = Shooters
<1>1. Shooters \in Nat \ {0}
  BY PartsAssumption
<1>2. Cardinality(1 .. Shooters) = Shooters
  BY ONLY <1>1, FS_Interval
<1> QED BY <1>2, CountsAlike DEF Fire!Both, Fire!Last

(* Shots only leave their places, into those that ended, or stay there.    *)
LEMMA ShotsLeave ==
  ASSUME FireTypes, ShotsApart, ShotsEnd, b_fired' = b_fired, b_ended \subseteq b_ended',
         \A p \in Holders, j \in {8, 9} :
           Taken(p, j)' => Taken(p, j) /\ ShotAt(p, j)' = ShotAt(p, j),
         \A p \in Holders, j \in {8, 9} :
           Taken(p, j) => Taken(p, j)' \/ ShotAt(p, j) \in b_ended'
  PROVE  ShotsApart' /\ ShotsEnd'
<1>1. ShotsApart'
  BY DEF ShotsApart
<1>2. ASSUME NEW n \in 1 .. b_fired
      PROVE  n \in b_ended' \/ \E p \in Holders, j \in {8, 9} : Taken(p, j)' /\ ShotAt(p, j)' = n
  BY DEF ShotsEnd
<1> QED BY <1>1, <1>2 DEF ShotsEnd

(* A foe that is met answers at most the first time.                       *)
LEMMA HitOnce ==
  ASSUME FireTypes, FoesAnswer, NEW e \in 1 .. Targets, Fire!Hit(e), b_next' = b_next
  PROVE  /\ FoesAnswer'
         /\ b_foe' \in [1 .. Targets -> [id : Nat, life : Int]]
         /\ b_damaged' \in [1 .. Targets -> Nat] /\ b_struck' \in [1 .. Targets -> Nat]
         /\ \A f \in 1 .. Targets : b_foe'[f].id = b_foe[f].id
<1> USE DEF FireTypes
<1>1. b_damaged' = [b_damaged EXCEPT ![e] = b_foe[e].id]
  BY DEF Fire!Hit
<1>2. b_foe[e].id \in Nat /\ b_foe[e].life \in Int
  OBVIOUS
<1>3. b_damaged' \in [1 .. Targets -> Nat]
  BY <1>1, <1>2
<1>4. CASE Fire!Answered(e)
  <2>1. b_foe' = b_foe /\ b_struck' = b_struck
    BY <1>4 DEF Fire!Hit
  <2>2. b_damaged' = b_damaged
    BY <1>1, <1>4 DEF Fire!Answered
  <2> QED BY <2>1, <2>2 DEF FoesAnswer
<1>5. CASE ~Fire!Answered(e)
  <2>1. /\ b_foe' = [b_foe EXCEPT ![e].life = @ - 1]
        /\ b_struck' = [b_struck EXCEPT ![e] = @ + 1]
    BY <1>5 DEF Fire!Hit
  <2> DEFINE r == [b_foe[e] EXCEPT !.life = @ - 1]
  <2>2. r \in [id : Nat, life : Int] /\ r.id = b_foe[e].id
    BY <1>2
  <2>3. b_foe' = [b_foe EXCEPT ![e] = r]
    BY <2>1
  <2> HIDE DEF r
  <2>4. b_foe' \in [1 .. Targets -> [id : Nat, life : Int]]
    BY <2>2, <2>3
  <2>5. \A f \in 1 .. Targets : b_foe'[f].id = b_foe[f].id
    BY <2>2, <2>3
  <2>6. b_struck[e] = 0 /\ b_struck'[e] = 1 /\ b_struck' \in [1 .. Targets -> Nat]
    BY <1>5, <2>1 DEF FoesAnswer, Fire!Answered
  <2>7. ASSUME NEW f \in 1 .. Targets
        PROVE  /\ 0 < b_foe'[f].id /\ b_foe'[f].id < b_next' /\ b_damaged'[f] < b_next'
               /\ b_struck'[f] = IF b_damaged'[f] = b_foe'[f].id THEN 1 ELSE 0
    <3>1. CASE f = e
      BY <1>1, <2>5, <2>6, <3>1 DEF FoesAnswer
    <3>2. CASE f # e
      BY <1>1, <2>1, <2>5, <3>2 DEF FoesAnswer
    <3> QED BY <3>1, <3>2
  <2> QED BY <1>3, <2>4, <2>5, <2>6, <2>7 DEF FoesAnswer
<1> QED BY <1>4, <1>5

LEMMA MissAnswersNothing ==
  ASSUME FireTypes, FoesAnswer, Fire!Miss, b_next' = b_next
  PROVE  /\ FoesAnswer'
         /\ b_foe' \in [1 .. Targets -> [id : Nat, life : Int]]
         /\ b_damaged' \in [1 .. Targets -> Nat] /\ b_struck' \in [1 .. Targets -> Nat]
         /\ \A f \in 1 .. Targets : b_foe'[f].id = b_foe[f].id
BY DEF FireTypes, FoesAnswer, Fire!Miss

(* A bank whose identities stay and in which nothing begins stays valid.   *)
LEMMA BanksStay ==
  ASSUME FireTypes, Fire!BanksValid, b_next' = b_next,
         b_adopted \in BOOLEAN, b_adopted => b_adopted',
         b_bank' \in [1 .. Shooters -> [{8, 9} -> Banked]],
         \A f \in 1 .. Targets : b_foe'[f].id = b_foe[f].id,
         \A p \in 1 .. Shooters, j \in {8, 9} :
           /\ b_bank'[p][j].id = b_bank[p][j].id
           /\ b_bank[p][j].kind = "none" => b_bank'[p][j].kind = "none"
           /\ b_bank'[p][j].pending \/ b_bank'[p][j].visible =>
                b_bank[p][j].kind # "none" \/ b_bank[p][j].pending \/ b_bank[p][j].visible
  PROVE  Fire!BanksValid'
BY Slot8and9 DEF Fire!BanksValid

(* The beginning, with at most one shot of an older state.                 *)
LEMMA InitFire == Fire!Init => FireInv
<1> SUFFICES ASSUME Fire!Init PROVE FireInv
  OBVIOUS
<1>1. /\ b_at = [name |-> "begin", next |-> 1]
      /\ b_bank = [p \in 1 .. Shooters |-> [j \in {8, 9} |->
           [kind |-> "none", shot |-> 0, id |-> 0, pending |-> FALSE, visible |-> FALSE]]]
      /\ b_native \in [{8, 9} -> {[kind |-> "none", shot |-> 0], [kind |-> "shot", shot |-> 1]}]
      /\ b_adopted = \A j \in {8, 9} : b_native[j] = [kind |-> "none", shot |-> 0]
      /\ b_foe = [e \in 1 .. Targets |-> [id |-> e, life |-> MaxLife]]
      /\ b_damaged = [e \in 1 .. Targets |-> 0] /\ b_struck = [e \in 1 .. Targets |-> 0]
  BY DEF Fire!Init, Fire!Both, Fire!Stage, Fire!Unused, Fire!None
<1> DEFINE Old == {j \in {8, 9} : b_native[j] # [kind |-> "none", shot |-> 0]}
<1>2. b_fired = Cardinality(Old) /\ b_fired <= 1
  BY CountsAlike DEF Fire!Init, Fire!Both, Fire!None
<1>3. b_next = Targets + 1
  <2>1. Targets \in Nat
    BY PartsAssumption
  <2>2. Cardinality(1 .. Targets) = Targets
    BY ONLY <2>1, FS_Interval
  <2> QED BY <2>2, CountsAlike DEF Fire!Init
<1>4. b_fired \in Nat /\ (Old = {} => b_fired = 0)
      /\ (\A j \in {8, 9} : Old = {j} => b_fired = 1) /\ Old # {8, 9}
  <2>1. IsFiniteSet({8, 9}) /\ Cardinality({8, 9}) = 2
    <3>1. IsFiniteSet({8}) /\ Cardinality({8}) = 1
      BY FS_Singleton
    <3>2. \A S : \A x : IsFiniteSet(S) /\ x \notin S =>
            IsFiniteSet(S \cup {x}) /\ Cardinality(S \cup {x}) = Cardinality(S) + 1
      BY FS_AddElement
    <3>3. IsFiniteSet({8} \cup {9}) /\ Cardinality({8} \cup {9}) = 1 + 1
      BY <3>1, <3>2, 9 \notin {8}
    <3>4. {8} \cup {9} = {8, 9}
      OBVIOUS
    <3> QED BY <3>3, <3>4
  <2>2. IsFiniteSet(Old)
    BY <2>1, FS_Subset
  <2> HIDE DEF Old
  <2>3. b_fired \in Nat
    BY <1>2, <2>2, FS_CardinalityType
  <2>4. (Old = {} => b_fired = 0) /\ \A j \in {8, 9} : Old = {j} => b_fired = 1
    BY <1>2, FS_EmptySet, FS_Singleton
  <2> QED BY <1>2, <2>1, <2>3, <2>4
<1>5. Targets \in Nat /\ MaxLife \in Int /\ Shooters \in Nat \ {0}
  BY PartsAssumption
<1>6. FireTypes
  BY <1>1, <1>3, <1>4, <1>5 DEF FireTypes, Stages, Kinds, Flights, Banked
<1>7. ShotsApart
  <2>1. \A p \in Holders, j \in {8, 9} : Taken(p, j) => p = 0 /\ ShotAt(p, j) = 1 /\ j \in Old
    BY <1>1, <1>5 DEF Taken, ShotAt, Holders
  <2>2. \A j \in {8, 9}, k \in {8, 9} : j \in Old /\ k \in Old => j = k
    BY <1>4
  <2>3. Old # {} => b_fired = 1
    BY <1>4, <2>2
  <2> HIDE DEF Old
  <2> QED BY <2>1, <2>2, <2>3 DEF ShotsApart
<1>8. ShotsEnd
  <2>1. ASSUME NEW n \in 1 .. b_fired
        PROVE  \E p \in Holders, j \in {8, 9} : Taken(p, j) /\ ShotAt(p, j) = n
    <3>1. b_fired = 1 /\ n = 1
      BY <1>2, <1>4
    <3>2. PICK j \in {8, 9} : j \in Old
      BY <1>4, <3>1
    <3>3. Taken(0, j) /\ ShotAt(0, j) = 1 /\ 0 \in Holders
      BY <1>1, <1>5, <3>2 DEF Taken, ShotAt, Holders
    <3> QED BY <3>1, <3>3
  <2> QED BY <2>1 DEF ShotsEnd
<1>9. FoesAnswer
  BY <1>1, <1>3, <1>5 DEF FoesAnswer
<1>10. Adopts /\ Fire!BanksValid
  BY <1>1, <1>3, <1>5, Slot8and9 DEF Adopts, Fire!BanksValid
<1> QED BY <1>6, <1>7, <1>8, <1>9, <1>10 DEF FireInv

LEMMA BeginFire == FireInv /\ Fire!Begin => FireInv'
<1> SUFFICES ASSUME FireInv, Fire!Begin PROVE FireInv'
  OBVIOUS
<1> USE DEF FireInv
<1>1. /\ b_at' = [name |-> "players", next |-> 1] /\ b_adopted' = TRUE
      /\ b_damaged' = [e \in 1 .. Targets |-> 0] /\ b_struck' = [e \in 1 .. Targets |-> 0]
      /\ UNCHANGED <<b_native, b_bank, b_fired, b_next, b_foe, b_ended>>
  BY DEF Fire!Begin, Fire!Stage
<1>2. FireTypes'
  <2>1. Shooters \in Nat \ {0}
    BY PartsAssumption
  <2>2. b_at' \in [name : Stages, next : 1 .. Shooters]
    BY <1>1, <2>1 DEF Stages
  <2>3. b_damaged' \in [1 .. Targets -> Nat] /\ b_struck' \in [1 .. Targets -> Nat]
    BY <1>1
  <2> QED BY <1>1, <2>2, <2>3 DEF FireTypes
<1>3. ShotsApart' /\ ShotsEnd'
  BY <1>1, ShotsLeave DEF Taken, ShotAt
<1>4. FoesAnswer'
  BY <1>1 DEF FoesAnswer, FireTypes
<1>5. Fire!BanksValid'
  BY <1>1, BanksStay DEF FireTypes
<1> QED BY <1>1, <1>2, <1>3, <1>4, <1>5 DEF Adopts

LEMMA FollowingStage ==
  ASSUME FireTypes, NEW name \in Stages, NEW then \in Stages
  PROVE  Fire!After(name, b_at.next, then) \in [name : Stages, next : 1 .. Shooters]
BY Slot8and9, PartsAssumption DEF FireTypes, Fire!After, Fire!Stage

(* The steps that change nothing but the stage.                            *)
LEMMA StageOnly ==
  ASSUME FireInv, b_at.name # "begin",
         b_at' \in [name : Stages, next : 1 .. Shooters],
         UNCHANGED <<b_native, b_bank, b_adopted, b_fired, b_next, b_foe, b_damaged,
                     b_struck, b_ended>>
  PROVE  FireInv'
<1> USE DEF FireInv
<1>1. FireTypes'
  BY DEF FireTypes
<1>2. ShotsApart' /\ ShotsEnd'
  BY ShotsLeave DEF Taken, ShotAt
<1>3. FoesAnswer' /\ Adopts'
  BY DEF FoesAnswer, Adopts
<1>4. Fire!BanksValid'
  BY BanksStay DEF FireTypes
<1> QED BY <1>1, <1>2, <1>3, <1>4

LEMMA MovesOnFire ==
  ASSUME FireInv, Fire!PlayerMoves \/ Fire!FoesStay
  PROVE  FireInv'
<1>1. CASE Fire!PlayerMoves
  <2>1. "players" \in Stages /\ "bosses" \in Stages
    BY DEF Stages
  <2> QED BY <1>1, <2>1, FollowingStage, StageOnly DEF Fire!PlayerMoves, Fire!Players_, FireInv
<1>2. CASE Fire!FoesStay
  BY <1>2, StageOnly, PartsAssumption DEF Fire!FoesStay, Fire!Stage, Stages
<1> QED BY <1>1, <1>2

LEMMA NewShot ==
  ASSUME NEW b \in Banked, NEW n \in Nat, NEW m \in Nat
  PROVE  [b EXCEPT !.kind = "shot", !.shot = n, !.id = m] \in Banked
BY DEF Banked, Kinds

(* A player's shot takes a place that was free, with a new number and a    *)
(* new identity.                                                           *)
LEMMA SpawnAt ==
  ASSUME FireInv, b_at.name # "begin", NEW a \in 1 .. Shooters, NEW new \in {8, 9},
         b_native[new].kind = "none", b_bank[a][new].kind = "none",
         b_fired' = b_fired + 1, b_next' = b_next + 1, b_native' = b_native,
         b_bank' = [b_bank EXCEPT ![a][new] =
           [@ EXCEPT !.kind = "shot", !.shot = b_fired + 1, !.id = b_next]],
         b_at' \in [name : Stages, next : 1 .. Shooters],
         UNCHANGED <<b_adopted, b_foe, b_damaged, b_struck, b_ended>>
  PROVE  FireInv'
<1> USE DEF FireInv
<1> DEFINE r == [b_bank[a][new] EXCEPT !.kind = "shot", !.shot = b_fired + 1, !.id = b_next]
<1>4. /\ b_bank[a][new] \in Banked /\ b_bank' = [b_bank EXCEPT ![a][new] = r]
      /\ b_fired \in Nat /\ b_next \in Nat \ {0}
  BY DEF FireTypes
<1>5. /\ r \in Banked /\ r.kind = "shot" /\ r.shot = b_fired + 1 /\ r.id = b_next
      /\ r.pending = b_bank[a][new].pending /\ r.visible = b_bank[a][new].visible
  <2>1. r \in Banked
    <3>1. b_fired + 1 \in Nat /\ b_next \in Nat /\ b_bank[a][new] \in Banked
      BY <1>4
    <3> QED BY <3>1, NewShot
  <2>2. r.kind = "shot"
    BY <1>4 DEF Banked, Kinds
  <2>3. r.shot = b_fired + 1
    BY <1>4 DEF Banked, Kinds
  <2>4. r.id = b_next
    BY <1>4 DEF Banked, Kinds
  <2>5. r.pending = b_bank[a][new].pending /\ r.visible = b_bank[a][new].visible
    BY <1>4 DEF Banked, Kinds
  <2> QED BY <2>1, <2>2, <2>3, <2>4, <2>5
<1> HIDE DEF r
<1>6. /\ b_bank' \in [1 .. Shooters -> [{8, 9} -> Banked]] /\ b_bank'[a][new] = r
      /\ \A p \in 1 .. Shooters, k \in {8, 9} :
           p # a \/ k # new => b_bank'[p][k] = b_bank[p][k]
  <2>1. b_bank \in [1 .. Shooters -> [{8, 9} -> Banked]]
    BY DEF FireTypes
  <2> DEFINE row == [b_bank[a] EXCEPT ![new] = r]
  <2>2. /\ row \in [{8, 9} -> Banked] /\ row[new] = r
        /\ \A k \in {8, 9} : k # new => row[k] = b_bank[a][k]
    BY <1>5, <2>1
  <2>3. b_bank' = [b_bank EXCEPT ![a] = row]
    BY <1>4
  <2> HIDE DEF row
  <2> QED BY <2>1, <2>2, <2>3
<1>7. FireTypes'
  BY <1>4, <1>6 DEF FireTypes
<1>8. /\ Taken(a, new)' /\ ShotAt(a, new)' = b_fired + 1 /\ ~Taken(a, new)
      /\ \A p \in Holders, k \in {8, 9} :
           p # a \/ k # new => /\ Taken(p, k)' = Taken(p, k)
                               /\ ShotAt(p, k)' = ShotAt(p, k)
  BY <1>5, <1>6 DEF Taken, ShotAt, Holders
<1>9. a \in Holders
  BY PartsAssumption DEF Holders
<1>10. ShotsApart'
  <2>1. ASSUME NEW p \in Holders, NEW k \in {8, 9}, Taken(p, k)'
        PROVE  ShotAt(p, k)' \in 1 .. b_fired'
    BY <1>4, <1>8, <2>1 DEF ShotsApart
  <2>2. ASSUME NEW p \in Holders, NEW q \in Holders, NEW k \in {8, 9}, NEW l \in {8, 9},
               Taken(p, k)', Taken(q, l)', ShotAt(p, k)' = ShotAt(q, l)'
        PROVE  p = q /\ k = l
    <3>1. \A x \in Holders, y \in {8, 9} : Taken(x, y) => ShotAt(x, y) # b_fired + 1
      BY <1>4 DEF ShotsApart
    <3> QED BY <1>8, <2>2, <3>1 DEF ShotsApart
  <2> QED BY <2>1, <2>2 DEF ShotsApart
<1>11. ShotsEnd'
  <2>1. ASSUME NEW n \in 1 .. b_fired'
        PROVE  n \in b_ended' \/ \E p \in Holders, k \in {8, 9} : Taken(p, k)' /\ ShotAt(p, k)' = n
    <3>1. CASE n = b_fired + 1
      BY <1>8, <1>9, <3>1
    <3>2. CASE n # b_fired + 1
      <4>1. n \in 1 .. b_fired
        BY <1>4, <3>2
      <4>2. CASE n \in b_ended
        BY <4>2
      <4>3. ASSUME NEW p \in Holders, NEW k \in {8, 9}, Taken(p, k), ShotAt(p, k) = n
            PROVE  Taken(p, k)' /\ ShotAt(p, k)' = n
        BY <1>8, <4>3
      <4> QED BY <4>1, <4>2, <4>3 DEF ShotsEnd
    <3> QED BY <3>1, <3>2
  <2> QED BY <2>1 DEF ShotsEnd
<1>12. FoesAnswer' /\ Adopts'
  BY <1>4 DEF FoesAnswer, Adopts, FireTypes
<1>13. ASSUME NEW p \in 1 .. Shooters, NEW k \in {8, 9}
       PROVE  /\ b_bank'[p][k].id < b_next'
              /\ b_bank'[p][k].id = 0 \/ ~b_adopted' =>
                   b_bank'[p][k].kind = "none" /\ ~b_bank'[p][k].pending /\ ~b_bank'[p][k].visible
              /\ b_bank'[p][k].id # 0 =>
                   /\ \A e \in 1 .. Targets : b_foe'[e].id # b_bank'[p][k].id
                   /\ \A q \in 1 .. Shooters, l \in {8, 9} :
                        b_bank'[q][l].id = b_bank'[p][k].id => p = q /\ k = l
  <2>1. \A q \in 1 .. Shooters, l \in {8, 9} :
          b_bank[q][l].id < b_next /\ b_bank[q][l].id \in Nat
    <3>1. \A q \in 1 .. Shooters, l \in {8, 9} : b_bank[q][l] \in Banked
      BY DEF FireTypes
    <3>2. \A q \in 1 .. Shooters, l \in {8, 9} : b_bank[q][l].id \in Nat
      BY <3>1 DEF Banked
    <3> QED BY <3>2, Slot8and9 DEF Fire!BanksValid
  <2>2. \A e \in 1 .. Targets : b_foe'[e].id < b_next /\ b_foe'[e].id \in Nat
    BY DEF FoesAnswer, FireTypes
  <2>3. b_adopted' /\ b_next # 0
    BY <1>4 DEF Adopts
  <2>4. CASE p = a /\ k = new
    <3>1. b_bank'[p][k].id = b_next
      BY <1>5, <1>6, <2>4
    <3>2. \A q \in 1 .. Shooters, l \in {8, 9} : b_bank'[q][l].id = b_next => q = a /\ l = new
      BY <1>4, <1>6, <2>1
    <3> QED BY <1>4, <2>2, <2>3, <2>4, <3>1, <3>2
  <2>5. CASE p # a \/ k # new
    <3>1. b_bank'[p][k] = b_bank[p][k]
      BY <1>6, <2>5
    <3>2. b_bank'[p][k].id # b_bank'[a][new].id
      BY <1>4, <1>5, <1>6, <2>1, <3>1
    <3>3. b_bank'[p][k].id < b_next'
      BY <1>4, <2>1, <3>1
    <3> QED BY <1>6, <2>3, <3>1, <3>2, <3>3, Slot8and9 DEF Fire!BanksValid
  <2> QED BY <2>4, <2>5
<1>14. Fire!BanksValid'
  BY <1>13, Slot8and9 DEF Fire!BanksValid
<1> QED BY <1>7, <1>10, <1>11, <1>12, <1>14

LEMMA SpawnFire ==
  ASSUME FireInv, b_at.name = "players", Fire!spawn_owned_fireball(b_at.next),
         b_at' \in [name : Stages, next : 1 .. Shooters],
         UNCHANGED <<b_adopted, b_foe, b_damaged, b_struck, b_ended>>
  PROVE  FireInv'
<1> USE DEF FireInv
<1> DEFINE a == b_at.next
<1> DEFINE guest == Fire!Slots(a)
<1> DEFINE free == {j \in {8, 9} : guest[j].kind = "none"}
<1> DEFINE new == CHOOSE k \in free : \A i \in free : i <= k
<1>1. a \in 1 .. Shooters
  BY DEF FireTypes
<1>2. CASE free = {}
  <2>1. UNCHANGED <<b_native, b_bank, b_fired, b_next>>
    BY <1>2, Slot8and9 DEF Fire!spawn_owned_fireball
  <2> QED BY <2>1, StageOnly
<1>3. CASE free # {}
  <2>1. /\ b_fired' = b_fired + 1 /\ b_next' = b_next + 1 /\ b_native' = b_native
        /\ b_bank' = [b_bank EXCEPT ![a][new] =
             [@ EXCEPT !.kind = "shot", !.shot = b_fired + 1, !.id = b_next]]
    BY <1>3, Slot8and9 DEF Fire!spawn_owned_fireball, Fire!PutBack, Fire!Following
  <2>2. new \in free
    <3>1. free = {8} \/ free = {9} \/ free = {8, 9}
      BY <1>3
    <3> HIDE DEF free
    <3>2. \E k \in free : \A i \in free : i <= k
      BY <3>1
    <3> QED BY <3>2
  <2> HIDE DEF new
  <2>3. new \in {8, 9} /\ b_native[new].kind = "none" /\ b_bank[a][new].kind = "none"
    BY <1>1, <2>2, Slot8and9 DEF Fire!Slots, Fire!Held
  <2> HIDE DEF free, guest
  <2> HIDE DEF free, guest, a
  <2> QED BY <1>1, <2>1, <2>3, SpawnAt
<1> QED BY <1>2, <1>3

LEMMA FiresFire == FireInv /\ Fire!PlayerFires => FireInv'
<1> SUFFICES ASSUME FireInv, Fire!PlayerFires PROVE FireInv'
  OBVIOUS
<1>1. "players" \in Stages /\ "bosses" \in Stages
  BY DEF Stages
<1>2. b_at' \in [name : Stages, next : 1 .. Shooters]
  BY <1>1, FollowingStage DEF Fire!PlayerFires, FireInv
<1> QED BY <1>2, SpawnFire DEF Fire!PlayerFires, Fire!Players_

(* The steps in which shots move, meet a foe, end or are shown.            *)
LEMMA FireGoesOn ==
  ASSUME FireInv, b_at.name # "begin",
         b_at' \in [name : Stages, next : 1 .. Shooters],
         UNCHANGED <<b_adopted, b_fired, b_next>>,
         Fire!Miss \/ \E e \in 1 .. Targets : Fire!Hit(e),
         b_ended \subseteq b_ended',
         b_native' \in [{8, 9} -> Flights],
         \A j \in {8, 9} :
           /\ b_native'[j].kind # "none" =>
                b_native[j].kind # "none" /\ b_native'[j].shot = b_native[j].shot
           /\ b_native[j].kind # "none" =>
                b_native'[j].kind # "none" \/ b_native[j].shot \in b_ended',
         b_bank' \in [1 .. Shooters -> [{8, 9} -> Banked]],
         \A p \in 1 .. Shooters, j \in {8, 9} :
           /\ b_bank'[p][j].id = b_bank[p][j].id /\ b_bank'[p][j].shot = b_bank[p][j].shot
           /\ b_bank[p][j].kind = "none" => b_bank'[p][j].kind = "none"
           /\ b_bank[p][j].kind # "none" =>
                b_bank'[p][j].kind # "none" \/ b_bank[p][j].shot \in b_ended'
           /\ b_bank'[p][j].pending \/ b_bank'[p][j].visible =>
                b_bank[p][j].kind # "none" \/ b_bank[p][j].pending \/ b_bank[p][j].visible
  PROVE  FireInv'
<1> USE DEF FireInv
<1>1. /\ FoesAnswer'
      /\ b_foe' \in [1 .. Targets -> [id : Nat, life : Int]]
      /\ b_damaged' \in [1 .. Targets -> Nat] /\ b_struck' \in [1 .. Targets -> Nat]
      /\ \A f \in 1 .. Targets : b_foe'[f].id = b_foe[f].id
  <2>1. CASE Fire!Miss
    BY <2>1, MissAnswersNothing
  <2>2. ASSUME NEW e \in 1 .. Targets, Fire!Hit(e) PROVE <1>1
    BY <2>2, HitOnce
  <2> QED BY <2>1, <2>2
<1>2. FireTypes'
  BY <1>1 DEF FireTypes
<1>3. ASSUME NEW p \in Holders, NEW j \in {8, 9}
      PROVE  /\ Taken(p, j)' => Taken(p, j) /\ ShotAt(p, j)' = ShotAt(p, j)
             /\ Taken(p, j) => Taken(p, j)' \/ ShotAt(p, j) \in b_ended'
  <2>1. CASE p = 0
    BY <2>1 DEF Taken, ShotAt
  <2>2. CASE p # 0
    <3>1. p \in 1 .. Shooters
      BY <2>2, PartsAssumption DEF Holders
    <3> QED BY <2>2, <3>1 DEF Taken, ShotAt
  <2> QED BY <2>1, <2>2
<1>4. ShotsApart' /\ ShotsEnd'
  BY <1>3, ShotsLeave
<1>5. Fire!BanksValid'
  BY <1>1, BanksStay DEF FireTypes
<1> QED BY <1>1, <1>2, <1>4, <1>5 DEF Adopts

LEMMA PuffOfBank ==
  ASSUME NEW f \in Banked
  PROVE  /\ Fire!Puff(f) \in Banked /\ Fire!Puff(f).kind = "puff"
         /\ Fire!Puff(f).id = f.id /\ Fire!Puff(f).shot = f.shot
         /\ Fire!Puff(f).pending = f.pending /\ Fire!Puff(f).visible = f.visible
<1>1. Fire!Puff(f) = [f EXCEPT !.kind = "puff"]
  BY DEF Fire!Puff
<1> QED BY <1>1 DEF Banked, Kinds

LEMMA PuffOfSlot ==
  ASSUME NEW f \in Flights
  PROVE  Fire!Puff(f) \in Flights /\ Fire!Puff(f).kind = "puff" /\ Fire!Puff(f).shot = f.shot
<1>1. Fire!Puff(f) = [f EXCEPT !.kind = "puff"]
  BY DEF Fire!Puff
<1> QED BY <1>1 DEF Flights, Kinds

LEMMA BankIsRows ==
  ASSUME FireTypes
  PROVE  /\ \A p \in 1 .. Shooters : b_bank[p] \in [{8, 9} -> Banked]
         /\ \A p \in 1 .. Shooters, j \in {8, 9} : b_bank[p][j] \in Banked
         /\ b_native \in [{8, 9} -> Flights] /\ \A j \in {8, 9} : b_native[j] \in Flights
BY DEF FireTypes

LEMMA OwnedMeets ==
  ASSUME FireInv, b_at.name # "begin", NEW p \in 1 .. Shooters, Fire!MeetsOwned(p),
         UNCHANGED <<b_adopted, b_fired, b_next>>
  PROVE  FireInv'
<1>1. PICK e \in 1 .. Targets, j \in {8, 9} :
        /\ b_bank' = [b_bank EXCEPT ![p][j] = Fire!Puff(@)]
        /\ b_bank[p][j].kind = "shot"
        /\ b_ended' = b_ended \union {b_bank[p][j].shot} /\ Fire!Hit(e)
        /\ UNCHANGED <<b_at, b_native>>
  BY Slot8and9 DEF Fire!MeetsOwned
<1> DEFINE f == Fire!Puff(b_bank[p][j])
<1>2. /\ f \in Banked /\ f.kind = "puff" /\ f.id = b_bank[p][j].id
      /\ f.shot = b_bank[p][j].shot
      /\ f.pending = b_bank[p][j].pending /\ f.visible = b_bank[p][j].visible
  BY PuffOfBank, BankIsRows DEF FireInv
<1>3. b_bank' = [b_bank EXCEPT ![p] = [b_bank[p] EXCEPT ![j] = f]]
  BY <1>1
<1> HIDE DEF f
<1> DEFINE row == [b_bank[p] EXCEPT ![j] = f]
<1>4. /\ row \in [{8, 9} -> Banked] /\ row[j] = f
      /\ \A k \in {8, 9} : k # j => row[k] = b_bank[p][k]
  BY <1>2, BankIsRows DEF FireInv
<1> HIDE DEF row
<1>5. /\ b_bank' \in [1 .. Shooters -> [{8, 9} -> Banked]] /\ b_bank'[p] = row
      /\ \A q \in 1 .. Shooters : q # p => b_bank'[q] = b_bank[q]
  BY <1>3, <1>4 DEF FireInv, FireTypes, row
<1>6. \A q \in 1 .. Shooters, k \in {8, 9} :
        /\ b_bank'[q][k].id = b_bank[q][k].id /\ b_bank'[q][k].shot = b_bank[q][k].shot
        /\ b_bank[q][k].kind = "none" <=> b_bank'[q][k].kind = "none"
        /\ b_bank'[q][k].pending = b_bank[q][k].pending
        /\ b_bank'[q][k].visible = b_bank[q][k].visible
  BY <1>1, <1>2, <1>4, <1>5
<1>7. b_at' \in [name : Stages, next : 1 .. Shooters] /\ b_native' \in [{8, 9} -> Flights]
  BY <1>1 DEF FireInv, FireTypes
<1> QED BY <1>1, <1>5, <1>6, <1>7, FireGoesOn

LEMMA SharedMeets ==
  ASSUME FireInv, b_at.name # "begin", Fire!MeetsShared,
         UNCHANGED <<b_adopted, b_fired, b_next>>
  PROVE  FireInv'
<1>1. PICK e \in 1 .. Targets, j \in {8, 9} :
        /\ b_native' = [b_native EXCEPT ![j] = Fire!Puff(@)]
        /\ b_native[j].kind = "shot"
        /\ b_ended' = b_ended \union {b_native[j].shot} /\ Fire!Hit(e)
        /\ UNCHANGED <<b_at, b_bank>>
  BY Slot8and9 DEF Fire!MeetsShared
<1> DEFINE f == Fire!Puff(b_native[j])
<1>2. f \in Flights /\ f.kind = "puff" /\ f.shot = b_native[j].shot
  BY PuffOfSlot, BankIsRows DEF FireInv
<1>3. b_native' = [b_native EXCEPT ![j] = f]
  BY <1>1
<1> HIDE DEF f
<1>4. /\ b_native' \in [{8, 9} -> Flights] /\ b_native'[j] = f
      /\ \A k \in {8, 9} : k # j => b_native'[k] = b_native[k]
  BY <1>2, <1>3, BankIsRows DEF FireInv
<1>5. \A k \in {8, 9} : /\ b_native'[k].shot = b_native[k].shot
                        /\ b_native[k].kind = "none" <=> b_native'[k].kind = "none"
  BY <1>1, <1>2, <1>4
<1>6. /\ b_at' \in [name : Stages, next : 1 .. Shooters]
      /\ b_bank' \in [1 .. Shooters -> [{8, 9} -> Banked]]
  BY <1>1 DEF FireInv, FireTypes
<1> QED BY <1>1, <1>4, <1>5, <1>6, FireGoesOn

LEMMA BossFire ==
  ASSUME FireInv, Fire!BossMeetsOwned \/ Fire!BossMeetsShared
  PROVE  FireInv'
<1>1. CASE Fire!BossMeetsOwned
  <2>1. "bosses" \in Stages /\ "boss, shared" \in Stages
    BY DEF Stages
  <2>2. b_at.next \in 1 .. Shooters /\ FireTypes
    BY DEF FireInv, FireTypes
  <2>3. CASE Fire!MeetsOwned(b_at.next)
    BY <1>1, <2>2, <2>3, OwnedMeets DEF Fire!BossMeetsOwned
  <2>4. CASE Fire!Passes(Fire!After("bosses", b_at.next, "boss, shared"))
    BY <1>1, <2>1, <2>2, <2>4, FollowingStage, StageOnly
       DEF Fire!BossMeetsOwned, Fire!Passes, Fire!Miss
  <2> QED BY <1>1, <2>3, <2>4 DEF Fire!BossMeetsOwned
<1>2. CASE Fire!BossMeetsShared
  <2>1. CASE Fire!MeetsShared
    BY <1>2, <2>1, SharedMeets DEF Fire!BossMeetsShared
  <2>2. CASE Fire!Passes(Fire!Stage("foes", 1))
    <3>1. Fire!Stage("foes", 1) \in [name : Stages, next : 1 .. Shooters]
      BY PartsAssumption DEF Fire!Stage, Stages
    <3> QED BY <1>2, <2>2, <3>1, StageOnly DEF Fire!BossMeetsShared, Fire!Passes, Fire!Miss
  <2> QED BY <1>2, <2>1, <2>2 DEF Fire!BossMeetsShared
<1> QED BY <1>1, <1>2

LEMMA MovedOfBank ==
  ASSUME NEW f \in Banked, NEW ends \in {"no", "gone", "puff"}
  PROVE  /\ Fire!Moved(f, ends) \in Banked
         /\ Fire!Moved(f, ends).id = f.id /\ Fire!Moved(f, ends).shot = f.shot
         /\ ends # "gone" /\ f.kind # "none" => Fire!Moved(f, ends).kind # "none"
<1> DEFINE k == IF ends = "gone" THEN "none" ELSE IF ends = "puff" THEN "puff" ELSE f.kind
<1>1. Fire!Moved(f, ends) = [f EXCEPT !.pending = TRUE, !.kind = k]
  BY DEF Fire!Moved
<1>2. k \in Kinds /\ (ends # "gone" /\ f.kind # "none" => k # "none")
  BY DEF Banked, Kinds
<1> HIDE DEF k
<1>3. [f EXCEPT !.pending = TRUE, !.kind = k] \in Banked
  BY <1>2 DEF Banked
<1>4. [f EXCEPT !.pending = TRUE, !.kind = k].id = f.id
  BY <1>2 DEF Banked
<1>5. [f EXCEPT !.pending = TRUE, !.kind = k].shot = f.shot
  BY <1>2 DEF Banked
<1>6. [f EXCEPT !.pending = TRUE, !.kind = k].kind = k
  BY <1>2 DEF Banked
<1> QED BY <1>1, <1>2, <1>3, <1>4, <1>5, <1>6

Drawn(f, b) == [f EXCEPT !.pending = b]
Shown(f, b) == [f EXCEPT !.visible = b]

LEMMA DrawnOfBank ==
  ASSUME NEW f \in Banked, NEW b \in BOOLEAN
  PROVE  /\ Drawn(f, b) \in Banked /\ Drawn(f, b).id = f.id /\ Drawn(f, b).shot = f.shot
         /\ Drawn(f, b).kind = f.kind /\ Drawn(f, b).pending = b
         /\ Drawn(f, b).visible = f.visible
BY DEF Banked, Drawn

LEMMA ShownOfBank ==
  ASSUME NEW f \in Banked, NEW b \in BOOLEAN
  PROVE  /\ Shown(f, b) \in Banked /\ Shown(f, b).id = f.id /\ Shown(f, b).shot = f.shot
         /\ Shown(f, b).kind = f.kind /\ Shown(f, b).pending = f.pending
         /\ Shown(f, b).visible = b
BY DEF Banked, Shown

LEMMA FlownOfBank ==
  ASSUME NEW f \in Banked, NEW its \in BOOLEAN,
         NEW ends \in {"no", "gone", "puff"}, NEW g, g = Fire!Flown(f, its, ends)
  PROVE  /\ g \in Banked /\ g.id = f.id /\ g.shot = f.shot
         /\ f.kind = "none" => g.kind = "none"
         /\ f.kind # "none" => g.kind # "none" \/ (ends = "gone" /\ its)
         /\ f.kind # "none" \/ (g.pending => f.pending)
         /\ f.kind # "none" \/ (g.visible => f.visible)
<1>1. CASE its /\ f.kind # "none"
  <2>1. g = Fire!Moved(f, ends)
    BY <1>1 DEF Fire!Flown
  <2>2. /\ g \in Banked /\ g.id = f.id /\ g.shot = f.shot
        /\ ends # "gone" /\ f.kind # "none" => g.kind # "none"
    BY <2>1, MovedOfBank
  <2> QED BY <1>1, <2>2
<1>2. CASE ~(its /\ f.kind # "none")
  <2> DEFINE b == f.pending /\ ~its
  <2>1. g = Drawn(f, b)
    BY <1>2 DEF Fire!Flown, Drawn
  <2>2. b \in BOOLEAN /\ (b => f.pending)
    OBVIOUS
  <2> HIDE DEF b
  <2>3. g \in Banked /\ g.id = f.id /\ g.shot = f.shot /\ g.kind = f.kind
    BY <2>1, <2>2, DrawnOfBank
  <2>4. g.pending = b /\ g.visible = f.visible
    BY <2>1, <2>2, DrawnOfBank
  <2>5. (g.pending => f.pending) /\ (g.visible => f.visible)
    BY <2>2, <2>4
  <2>6. /\ f.kind = "none" => g.kind = "none"
        /\ f.kind # "none" => g.kind # "none" \/ (ends = "gone" /\ its)
    BY <2>3
  <2>7. f.kind # "none" \/ (g.pending => f.pending)
    BY <2>5
  <2>8. f.kind # "none" \/ (g.visible => f.visible)
    BY <2>5
  <2> QED BY <2>3, <2>6, <2>7, <2>8
<1> QED BY <1>1, <1>2

(* One of the two shots of a bank moves; the other is only not drawn by it.*)
LEMMA RowFlies ==
  ASSUME FireTypes, NEW p \in 1 .. Shooters, NEW j \in {8, 9},
         NEW ends \in {"no", "gone", "puff"}, Fire!Flies(p, j, ends)
  PROVE  /\ b_bank' \in [1 .. Shooters -> [{8, 9} -> Banked]]
         /\ \A q \in 1 .. Shooters, k \in {8, 9} :
              /\ b_bank'[q][k].id = b_bank[q][k].id /\ b_bank'[q][k].shot = b_bank[q][k].shot
              /\ b_bank[q][k].kind = "none" => b_bank'[q][k].kind = "none"
              /\ b_bank[q][k].kind # "none" =>
                   b_bank'[q][k].kind # "none" \/ (ends = "gone" /\ q = p /\ k = j)
              /\ b_bank'[q][k].pending \/ b_bank'[q][k].visible =>
                   b_bank[q][k].kind # "none" \/ b_bank[q][k].pending \/ b_bank[q][k].visible
<1> DEFINE row == [k \in {8, 9} |-> Fire!Flown(b_bank[p][k], k = j, ends)]
<1>1. b_bank' = [b_bank EXCEPT ![p] = row]
  BY Slot8and9 DEF Fire!Flies
<1>2. ASSUME NEW k \in {8, 9}
      PROVE  /\ row[k] \in Banked
             /\ row[k].id = b_bank[p][k].id /\ row[k].shot = b_bank[p][k].shot
             /\ b_bank[p][k].kind = "none" => row[k].kind = "none"
             /\ b_bank[p][k].kind # "none" => row[k].kind # "none" \/ (ends = "gone" /\ k = j)
             /\ b_bank[p][k].kind # "none" \/ (row[k].pending => b_bank[p][k].pending)
             /\ b_bank[p][k].kind # "none" \/ (row[k].visible => b_bank[p][k].visible)
  <2> DEFINE its == k = j
  <2>1. b_bank[p][k] \in Banked /\ its \in BOOLEAN /\ (its => k = j)
    BY BankIsRows
  <2>2. row[k] = Fire!Flown(b_bank[p][k], its, ends)
    OBVIOUS
  <2> HIDE DEF row, its
  <2>3. /\ row[k] \in Banked
        /\ row[k].id = b_bank[p][k].id /\ row[k].shot = b_bank[p][k].shot
        /\ b_bank[p][k].kind = "none" => row[k].kind = "none"
        /\ b_bank[p][k].kind # "none" => row[k].kind # "none" \/ (ends = "gone" /\ its)
        /\ b_bank[p][k].kind # "none" \/ (row[k].pending => b_bank[p][k].pending)
        /\ b_bank[p][k].kind # "none" \/ (row[k].visible => b_bank[p][k].visible)
    <3> DEFINE f == b_bank[p][k]
    <3> DEFINE g == row[k]
    <3>1. f \in Banked /\ its \in BOOLEAN /\ g = Fire!Flown(f, its, ends)
      BY <2>1, <2>2
    <3> HIDE DEF f, g
    <3>2. /\ g \in Banked /\ g.id = f.id /\ g.shot = f.shot
          /\ f.kind = "none" => g.kind = "none"
          /\ f.kind # "none" => g.kind # "none" \/ (ends = "gone" /\ its)
      BY <3>1, FlownOfBank
    <3>3. /\ f.kind # "none" \/ (g.pending => f.pending)
          /\ f.kind # "none" \/ (g.visible => f.visible)
      BY <3>1, FlownOfBank
    <3> QED BY <3>2, <3>3 DEF f, g
  <2> QED BY <2>1, <2>3
<1>3. row \in [{8, 9} -> Banked]
  BY <1>2
<1> HIDE DEF row
<1>4. /\ b_bank' \in [1 .. Shooters -> [{8, 9} -> Banked]] /\ b_bank'[p] = row
      /\ \A q \in 1 .. Shooters : q # p => b_bank'[q] = b_bank[q]
  BY <1>1, <1>3 DEF FireTypes
<1>5. ASSUME NEW q \in 1 .. Shooters, NEW k \in {8, 9}, q # p
      PROVE  b_bank'[q][k] = b_bank[q][k]
  BY <1>4, <1>5
<1>6. \A k \in {8, 9} : b_bank'[p][k] = row[k]
  BY <1>4
<1>7. ASSUME NEW k \in {8, 9}
      PROVE  b_bank'[p][k].pending \/ b_bank'[p][k].visible =>
               b_bank[p][k].kind # "none" \/ b_bank[p][k].pending \/ b_bank[p][k].visible
  BY <1>2, <1>6
<1>8. ASSUME NEW q \in 1 .. Shooters, NEW k \in {8, 9}
      PROVE  /\ b_bank'[q][k].id = b_bank[q][k].id /\ b_bank'[q][k].shot = b_bank[q][k].shot
             /\ b_bank[q][k].kind = "none" => b_bank'[q][k].kind = "none"
             /\ b_bank[q][k].kind # "none" =>
                  b_bank'[q][k].kind # "none" \/ (ends = "gone" /\ q = p /\ k = j)
  <2>1. CASE q = p
    BY <1>2, <1>6, <2>1
  <2>2. CASE q # p
    BY <1>5, <2>2
  <2> QED BY <2>1, <2>2
<1>9. ASSUME NEW q \in 1 .. Shooters, NEW k \in {8, 9}
      PROVE  b_bank'[q][k].pending \/ b_bank'[q][k].visible =>
               b_bank[q][k].kind # "none" \/ b_bank[q][k].pending \/ b_bank[q][k].visible
  BY <1>5, <1>7
<1> QED BY <1>4, <1>8, <1>9

LEMMA ShotFliesFire ==
  ASSUME FireInv, b_at.name # "begin", NEW j \in {8, 9}, NEW then, Fire!ShotFlies(j, then),
         then \in [name : Stages, next : 1 .. Shooters]
  PROVE  FireInv'
<1>1. b_at.next \in 1 .. Shooters /\ FireTypes
  BY DEF FireInv, FireTypes
<1>2. /\ b_at' = then /\ b_native' \in [{8, 9} -> Flights]
      /\ UNCHANGED <<b_native, b_adopted, b_fired, b_next>>
  BY <1>1 DEF Fire!ShotFlies, FireTypes
<1>3. PICK ends \in {"no", "gone", "puff"} :
        /\ Fire!Flies(b_at.next, j, ends)
        /\ Fire!Miss \/ \E e \in 1 .. Targets : Fire!Hit(e)
        /\ b_ended \subseteq b_ended'
        /\ ends = "gone" /\ b_bank[b_at.next][j].kind # "none" =>
             b_bank[b_at.next][j].shot \in b_ended'
  BY DEF Fire!ShotFlies
<1>4. /\ b_bank' \in [1 .. Shooters -> [{8, 9} -> Banked]]
      /\ \A q \in 1 .. Shooters, k \in {8, 9} :
              /\ b_bank'[q][k].id = b_bank[q][k].id /\ b_bank'[q][k].shot = b_bank[q][k].shot
              /\ b_bank[q][k].kind = "none" => b_bank'[q][k].kind = "none"
              /\ b_bank[q][k].kind # "none" =>
                   b_bank'[q][k].kind # "none" \/ (ends = "gone" /\ q = b_at.next /\ k = j)
              /\ b_bank'[q][k].pending \/ b_bank'[q][k].visible =>
                   b_bank[q][k].kind # "none" \/ b_bank[q][k].pending \/ b_bank[q][k].visible
  BY <1>1, <1>3, RowFlies
<1> QED BY <1>2, <1>3, <1>4, FireGoesOn

LEMMA ShotsFire ==
  ASSUME FireInv, Fire!FirstFlies \/ Fire!SecondFlies
  PROVE  FireInv'
<1>1. /\ b_at.next \in 1 .. Shooters /\ FireTypes
      /\ \A s \in {"shots", "second shots", "shared shots"} : s \in Stages
  BY DEF FireInv, FireTypes, Stages
<1>2. CASE Fire!FirstFlies
  <2>1. Fire!Stage("second shots", b_at.next) \in [name : Stages, next : 1 .. Shooters]
    BY <1>1 DEF Fire!Stage
  <2> QED BY <1>2, <2>1, ShotFliesFire DEF Fire!FirstFlies
<1>3. CASE Fire!SecondFlies
  <2>1. Fire!After("shots", b_at.next, "shared shots") \in [name : Stages, next : 1 .. Shooters]
    BY <1>1, FollowingStage
  <2> QED BY <1>3, <2>1, ShotFliesFire DEF Fire!SecondFlies
<1> QED BY <1>2, <1>3

LEMMA SharedFire ==
  ASSUME FireInv, Fire!SharedMeet \/ Fire!SharedFly
  PROVE  FireInv'
<1>1. CASE Fire!SharedMeet
  BY <1>1, SharedMeets DEF Fire!SharedMeet
<1>2. CASE Fire!SharedFly
  <2>1. PICK gone \in SUBSET {j \in {8, 9} : b_native[j].kind # "none"} :
          /\ b_native' = [j \in {8, 9} |->
               IF j \in gone THEN [kind |-> "none", shot |-> 0] ELSE b_native[j]]
          /\ b_ended' = b_ended \union {b_native[j].shot : j \in gone}
    BY <1>2, Slot8and9 DEF Fire!SharedFly, Fire!None
  <2>2. /\ b_at.name # "begin" /\ b_at' = Fire!Stage("nmi", 1)
        /\ UNCHANGED <<b_bank, b_adopted, b_fired, b_next, b_foe, b_damaged, b_struck>>
    BY <1>2 DEF Fire!SharedFly
  <2>3. b_at' \in [name : Stages, next : 1 .. Shooters]
    BY <2>2, PartsAssumption DEF Fire!Stage, Stages
  <2>4. b_native' \in [{8, 9} -> Flights]
    <3>1. [kind |-> "none", shot |-> 0] \in Flights
      BY DEF Flights, Kinds
    <3> QED BY <2>1, <3>1, BankIsRows DEF FireInv
  <2>5. \A j \in {8, 9} :
          /\ b_native'[j].kind # "none" =>
               b_native[j].kind # "none" /\ b_native'[j].shot = b_native[j].shot
          /\ b_native[j].kind # "none" =>
               b_native'[j].kind # "none" \/ b_native[j].shot \in b_ended'
    BY <2>1
  <2>6. Fire!Miss /\ b_bank' \in [1 .. Shooters -> [{8, 9} -> Banked]]
    BY <2>2 DEF FireInv, FireTypes, Fire!Miss
  <2>7. b_ended \subseteq b_ended'
    BY <2>1
  <2> QED BY <2>2, <2>3, <2>4, <2>5, <2>6, <2>7, FireGoesOn
<1> QED BY <1>1, <1>2

LEMMA LatchFire == FireInv /\ Fire!Latch => FireInv'
<1> SUFFICES ASSUME FireInv, Fire!Latch PROVE FireInv'
  OBVIOUS
<1>1. /\ b_at.name # "begin" /\ b_at' = Fire!Stage("begin", 1)
      /\ b_bank' = [p \in 1 .. Shooters |-> [j \in {8, 9} |->
           [b_bank[p][j] EXCEPT !.visible = b_bank[p][j].pending]]]
      /\ UNCHANGED <<b_native, b_adopted, b_fired, b_next, b_foe, b_damaged, b_struck, b_ended>>
  BY Slot8and9 DEF Fire!Latch
<1>2. \A p \in 1 .. Shooters, j \in {8, 9} :
        b_bank[p][j] \in Banked /\ b_bank[p][j].pending \in BOOLEAN
  BY BankIsRows DEF FireInv, Banked
<1>3. ASSUME NEW p \in 1 .. Shooters, NEW j \in {8, 9}
      PROVE  /\ b_bank'[p][j] \in Banked
             /\ b_bank'[p][j].id = b_bank[p][j].id /\ b_bank'[p][j].shot = b_bank[p][j].shot
             /\ b_bank'[p][j].kind = b_bank[p][j].kind
             /\ b_bank'[p][j].pending = b_bank[p][j].pending
             /\ b_bank'[p][j].visible = b_bank[p][j].pending
  <2>1. b_bank'[p][j] = Shown(b_bank[p][j], b_bank[p][j].pending)
    BY <1>1 DEF Shown
  <2> DEFINE f == b_bank[p][j]
  <2> DEFINE g == b_bank'[p][j]
  <2>2. f \in Banked /\ f.pending \in BOOLEAN /\ g = Shown(f, f.pending)
    BY <1>2, <2>1
  <2> HIDE DEF f, g
  <2>3. /\ g \in Banked /\ g.id = f.id /\ g.shot = f.shot /\ g.kind = f.kind
        /\ g.pending = f.pending /\ g.visible = f.pending
    BY <2>2, ShownOfBank
  <2> QED BY <2>3 DEF f, g
<1>4. b_bank' \in [1 .. Shooters -> [{8, 9} -> Banked]]
  <2>1. \A p \in 1 .. Shooters, j \in {8, 9} :
          Shown(b_bank[p][j], b_bank[p][j].pending) \in Banked
    BY <1>2, ShownOfBank
  <2> QED BY <1>1, <2>1 DEF Shown
<1>5. b_at' \in [name : Stages, next : 1 .. Shooters]
  BY <1>1, PartsAssumption DEF Fire!Stage, Stages
<1>6. Fire!Miss /\ b_native' \in [{8, 9} -> Flights]
  BY <1>1 DEF FireInv, FireTypes, Fire!Miss
<1> QED BY <1>1, <1>3, <1>4, <1>5, <1>6, FireGoesOn

LEMMA RoomFire == FireInv /\ Fire!EnterRoom => FireInv'
<1> SUFFICES ASSUME FireInv, Fire!EnterRoom PROVE FireInv'
  OBVIOUS
<1>1. /\ b_bank' = [p \in 1 .. Shooters |-> [j \in {8, 9} |->
           [kind |-> "none", shot |-> 0, id |-> 0, pending |-> FALSE, visible |-> FALSE]]]
      /\ b_native' = [j \in {8, 9} |-> [kind |-> "none", shot |-> 0]]
      /\ b_adopted' = TRUE /\ b_ended' = 1 .. b_fired
      /\ UNCHANGED <<b_at, b_fired, b_next, b_foe, b_damaged, b_struck>>
  BY Slot8and9 DEF Fire!EnterRoom, Fire!Unused, Fire!None
<1>2. FireTypes'
  BY <1>1 DEF FireInv, FireTypes, Flights, Banked, Kinds
<1>3. \A p \in Holders, j \in {8, 9} : ~Taken(p, j)'
  BY <1>1 DEF Taken, Holders
<1>4. ShotsApart' /\ ShotsEnd'
  BY <1>1, <1>3 DEF ShotsApart, ShotsEnd
<1>5. FoesAnswer' /\ Adopts'
  BY <1>1 DEF FireInv, FoesAnswer, Adopts
<1>6. Fire!BanksValid'
  BY <1>1, Slot8and9 DEF FireInv, FireTypes, Fire!BanksValid
<1> QED BY <1>2, <1>4, <1>5, <1>6 DEF FireInv

(* Who takes the slot of a foe has an identity that nobody had.            *)
LEMMA LeavesFire == FireInv /\ Fire!FoeLeaves => FireInv'
<1> SUFFICES ASSUME FireInv, Fire!FoeLeaves PROVE FireInv'
  OBVIOUS
<1>1. PICK e \in 1 .. Targets :
        /\ b_foe' = [b_foe EXCEPT ![e] = [id |-> b_next, life |-> MaxLife]]
        /\ b_struck' = [b_struck EXCEPT ![e] = 0]
  BY DEF Fire!FoeLeaves
<1>2. /\ b_at.name # "begin" /\ b_at' = Fire!Stage("shots", 1) /\ b_next' = b_next + 1
      /\ UNCHANGED <<b_native, b_bank, b_adopted, b_fired, b_damaged, b_ended>>
  BY DEF Fire!FoeLeaves, Fire!Following
<1>3. /\ b_next \in Nat \ {0} /\ MaxLife \in Int
      /\ b_foe \in [1 .. Targets -> [id : Nat, life : Int]]
      /\ b_struck \in [1 .. Targets -> Nat] /\ b_damaged \in [1 .. Targets -> Nat]
  BY PartsAssumption DEF FireInv, FireTypes
<1>4. /\ b_foe' \in [1 .. Targets -> [id : Nat, life : Int]]
      /\ b_struck' \in [1 .. Targets -> Nat]
      /\ b_foe'[e].id = b_next /\ b_struck'[e] = 0
      /\ \A f \in 1 .. Targets : f # e => b_foe'[f] = b_foe[f] /\ b_struck'[f] = b_struck[f]
  BY <1>1, <1>3
<1>5. b_at' \in [name : Stages, next : 1 .. Shooters]
  BY <1>2, PartsAssumption DEF Fire!Stage, Stages
<1>6. FireTypes'
  BY <1>2, <1>3, <1>4, <1>5 DEF FireInv, FireTypes
<1>7. ShotsApart' /\ ShotsEnd'
  BY <1>2, ShotsLeave DEF FireInv, Taken, ShotAt
<1>8. FoesAnswer'
  <2>1. ASSUME NEW f \in 1 .. Targets
        PROVE  /\ 0 < b_foe'[f].id /\ b_foe'[f].id < b_next' /\ b_damaged'[f] < b_next'
               /\ b_struck'[f] = IF b_damaged'[f] = b_foe'[f].id THEN 1 ELSE 0
    <3>1. b_damaged[f] < b_next /\ b_damaged[f] \in Nat /\ b_foe[f].id \in Nat
      BY <1>3 DEF FireInv, FoesAnswer
    <3>2. CASE f = e
      BY <1>2, <1>3, <1>4, <3>1, <3>2
    <3>3. CASE f # e
      BY <1>2, <1>3, <1>4, <3>1, <3>3 DEF FireInv, FoesAnswer
    <3> QED BY <3>2, <3>3
  <2> QED BY <2>1 DEF FoesAnswer
<1>9. Fire!BanksValid'
  <2>1. \A p \in 1 .. Shooters, j \in {8, 9} :
          b_bank[p][j].id < b_next /\ b_bank[p][j].id \in Nat
    <3>1. \A p \in 1 .. Shooters, j \in {8, 9} : b_bank[p][j].id \in Nat
      BY BankIsRows DEF FireInv, Banked
    <3> QED BY <3>1, Slot8and9 DEF FireInv, Fire!BanksValid
  <2>2. \A f \in 1 .. Targets, p \in 1 .. Shooters, j \in {8, 9} :
          b_bank[p][j].id # 0 => b_foe'[f].id # b_bank[p][j].id
    BY <1>3, <1>4, <2>1, Slot8and9 DEF FireInv, Fire!BanksValid
  <2>3. \A p \in 1 .. Shooters, j \in {8, 9} : b_bank[p][j].id < b_next'
    BY <1>2, <1>3, <2>1
  <2> QED BY <1>2, <2>2, <2>3, Slot8and9 DEF FireInv, Fire!BanksValid
<1> QED BY <1>2, <1>6, <1>7, <1>8, <1>9 DEF FireInv, Adopts

LEMMA FireStep == FireInv /\ Fire!Next => FireInv'
BY BeginFire, FiresFire, MovesOnFire, BossFire, LeavesFire, ShotsFire, SharedFire, LatchFire,
   RoomFire DEF Fire!Next

LEMMA FireStutter == ASSUME FireInv, UNCHANGED fireVars PROVE FireInv'
BY DEF fireVars, FireInv, FireTypes, ShotsApart, ShotsEnd, FoesAnswer, Adopts, Taken, ShotAt,
       Fire!BanksValid

LEMMA AtMostOne ==
  ASSUME NEW S, \A x \in S, y \in S : x = y
  PROVE  Cardinality(S) = IF S = {} THEN 0 ELSE 1
<1>1. CASE S = {}
  BY <1>1, FS_EmptySet
<1>2. CASE S # {}
  <2>1. PICK x \in S : TRUE
    BY <1>2
  <2>2. S = {x}
    BY <2>1
  <2> QED BY <1>2, <2>2, FS_Singleton
<1> QED BY <1>1, <1>2

LEMMA FireIsKept == FireInv => Fire!FireKept
<1> SUFFICES ASSUME FireInv PROVE Fire!FireKept
  OBVIOUS
<1> USE DEF FireInv
<1>1. ASSUME NEW n \in 1 .. b_fired
      PROVE  LET places == Fire!Cardinality(Fire!Places(n)) + Fire!Cardinality(Fire!Shared(n))
             IN  places <= 1 /\ (places = 0 => n \in b_ended)
  <2>1. /\ \A s \in Fire!Places(n) :
             /\ s[1] \in 1 .. Shooters /\ s[2] \in {8, 9} /\ s = <<s[1], s[2]>>
             /\ Taken(s[1], s[2]) /\ ShotAt(s[1], s[2]) = n
        /\ \A p \in 1 .. Shooters, j \in {8, 9} :
             Taken(p, j) /\ ShotAt(p, j) = n => <<p, j>> \in Fire!Places(n)
    BY Slot8and9, PartsAssumption DEF Fire!Places, Taken, ShotAt
  <2>2. \A j : j \in Fire!Shared(n) <=> j \in {8, 9} /\ Taken(0, j) /\ ShotAt(0, j) = n
    BY Slot8and9 DEF Fire!Shared, Taken, ShotAt
  <2>3. Holders = {0} \cup 1 .. Shooters /\ 0 \notin 1 .. Shooters
    BY PartsAssumption DEF Holders
  <2>4. \A s \in Fire!Places(n), t \in Fire!Places(n) : s = t
    BY <2>1, <2>3 DEF ShotsApart
  <2>5. \A j \in Fire!Shared(n), k \in Fire!Shared(n) : j = k
    BY <2>2, <2>3 DEF ShotsApart
  <2>6. Fire!Places(n) = {} \/ Fire!Shared(n) = {}
    <3>1. ASSUME NEW s \in Fire!Places(n), NEW j \in Fire!Shared(n) PROVE FALSE
      <4>1. s[1] \in Holders /\ 0 \in Holders /\ s[2] \in {8, 9} /\ j \in {8, 9} /\ s[1] # 0
        BY <2>1, <2>2, <2>3
      <4> QED BY <2>1, <2>2, <4>1 DEF ShotsApart
    <3> QED BY <3>1
  <2>7. Fire!Places(n) = {} /\ Fire!Shared(n) = {} => n \in b_ended
    BY <2>1, <2>2, <2>3 DEF ShotsEnd
  <2>8. /\ Fire!Cardinality(Fire!Places(n)) = IF Fire!Places(n) = {} THEN 0 ELSE 1
        /\ Fire!Cardinality(Fire!Shared(n)) = IF Fire!Shared(n) = {} THEN 0 ELSE 1
    BY <2>4, <2>5, AtMostOne, CountsAlike
  <2> QED BY <2>6, <2>7, <2>8
<1>2. Fire!ShotsAreKept
  BY <1>1 DEF Fire!ShotsAreKept
<1>3. Fire!OneAnswerAFrame
  BY DEF FoesAnswer, Fire!OneAnswerAFrame
<1> QED BY <1>2, <1>3 DEF Fire!FireKept
-----------------------------------------------------------------------------
(* LuaFireStream.  Shots and the share of the next one make up what was    *)
(* asked for; the count of the shots that fly is that of the slots seen so *)
(* far; what was spent is what the copy of memory has burnt.               *)
Counts == [run : Nat, fired : Int, spent : Nat, taken : Nat]

StreamTypes ==
  /\ l_pool \in [1 .. Pool -> Nat] /\ l_rate \in Nat /\ l_credit \in 0 .. Second - 1
  /\ l_active \in Nat /\ l_failed \in BOOLEAN /\ l_at \in 0 .. Pool + 1
  /\ l_foe \in [Foes -> {"none", "alive", "burnt"}]
  /\ l_shadow \in [Foes -> {"none", "alive", "burnt"}]
  /\ l_ghost \in Counts

Flying(n) == {i \in 1 .. n : l_pool[i] > 0}
Burnt == {f \in Foes : l_shadow[f] = "burnt" /\ l_foe[f] # "burnt"}

RateHeld == ~l_failed => l_rate * l_ghost.run = Second * l_ghost.fired + l_credit
ActiveHeld ==
  ~l_failed => l_active = Cardinality(Flying(IF l_at = 0 THEN Pool ELSE l_at - 1))
SpentHeld ==
  ~l_failed => l_ghost.spent = IF l_at = 0 THEN l_ghost.taken ELSE Cardinality(Burnt)

StreamInv ==
  /\ StreamTypes /\ RateHeld /\ ActiveHeld /\ SpentHeld
  /\ l_at # 0 => ~l_failed /\ \A f \in Foes : l_shadow[f] = "alive" => l_foe[f] = "alive"

LEMMA Quotient ==
  ASSUME NEW s \in Nat \ {0}, NEW q \in Int, NEW c \in 0 .. s - 1
  PROVE  (s * q + c) \div s = q
OBVIOUS

LEMMA Division ==
  ASSUME NEW s \in Nat \ {0}, NEW x \in Nat
  PROVE  /\ x \div s \in Nat /\ x % s \in 0 .. s - 1 /\ x = s * (x \div s) + (x % s)
OBVIOUS

(* A frame more of a second, and the last one.                             *)
LEMMA Share ==
  ASSUME NEW s \in Nat \ {0}, NEW r \in Nat, NEW run \in Nat, NEW fired \in Int,
         NEW credit \in 0 .. s - 1, r * run = s * fired + credit,
         NEW n \in Nat, NEW rest \in 0 .. s - 1, credit + r = s * n + rest
  PROVE  /\ r * (run + 1) = s * (fired + n) + rest
         /\ run + 1 = s => r * 0 = s * (fired + n - r) + rest
<1>1. r * (run + 1) = r * run + r
  OBVIOUS
<1>2. s * (fired + n) = s * fired + s * n
  OBVIOUS
<1>3. r * (run + 1) = s * (fired + n) + rest
  BY <1>1, <1>2
<1>4. s * (fired + n - r) = s * (fired + n) - s * r
  OBVIOUS
<1>5. ASSUME run + 1 = s PROVE r * 0 = s * (fired + n - r) + rest
  <2>1. s * r = s * (fired + n) + rest
    BY <1>3, <1>5
  <2> QED BY <1>4, <2>1
<1> QED BY <1>3, <1>5

LEMMA CountsStart == [run |-> 0, fired |-> 0, spent |-> 0, taken |-> 0] \in Counts
BY DEF Counts

LEMMA CountsGoOn ==
  ASSUME NEW g \in Counts, NEW m \in Nat, NEW k \in Int
  PROVE  [g EXCEPT !.run = m, !.fired = k] \in Counts
BY DEF Counts

LEMMA StreamSizes ==
  /\ Pool \in Nat /\ MaxAge \in Nat /\ Second \in Nat \ {0} /\ Rates \subseteq Nat
  /\ IsFiniteSet(Foes) /\ IsFiniteSet(Burnt) /\ \A n \in Nat : IsFiniteSet(Flying(n))
<1>1. /\ Pool \in Nat /\ MaxAge \in Nat /\ Second \in Nat \ {0} /\ Rates \subseteq Nat
      /\ IsFiniteSet(Foes)
  BY PartsAssumption
<1>2. IsFiniteSet(Burnt)
  BY <1>1, FS_Subset DEF Burnt
<1>3. ASSUME NEW n \in Nat PROVE IsFiniteSet(Flying(n))
  <2>1. IsFiniteSet(1 .. n)
    BY FS_Interval
  <2> QED BY <2>1, FS_Subset DEF Flying
<1> QED BY <1>1, <1>2, <1>3

LEMMA InitStream == Stream!Init => StreamInv
<1> SUFFICES ASSUME Stream!Init PROVE StreamInv
  OBVIOUS
<1>1. /\ l_pool = [i \in 1 .. Pool |-> 0] /\ l_rate = 0 /\ l_credit = 0 /\ l_active = 0
      /\ l_failed = FALSE /\ l_at = 0 /\ l_shadow = l_foe
      /\ l_foe = [f \in Foes |-> "none"]
      /\ l_ghost = [run |-> 0, fired |-> 0, spent |-> 0, taken |-> 0]
  BY DEF Stream!Init, Stream!smw_fire_stream_init, Stream!Nothing, Stream!Second0, Stream!Slots
<1>2. StreamTypes
  <2>1. 0 \in 0 .. Second - 1 /\ 0 \in 0 .. Pool + 1
    BY StreamSizes
  <2>2. l_ghost \in Counts
    BY <1>1 DEF Counts
  <2>3. l_pool \in [1 .. Pool -> Nat] /\ l_foe \in [Foes -> {"none", "alive", "burnt"}]
    BY <1>1
  <2> QED BY <1>1, <2>1, <2>2, <2>3 DEF StreamTypes
<1>3. Flying(Pool) = {}
  BY <1>1 DEF Flying
<1> QED BY <1>1, <1>2, <1>3, StreamSizes, FS_EmptySet DEF StreamInv, RateHeld, ActiveHeld, SpentHeld

(* What does not tick: the guest, a rate, a reset, and a level that was    *)
(* left.                                                                   *)
LEMMA GameStream == StreamInv /\ Stream!Game => StreamInv'
BY DEF StreamInv, StreamTypes, RateHeld, ActiveHeld, SpentHeld, Flying, Stream!Game

LEMMA CommandStream ==
  ASSUME StreamInv, NEW n \in Rates, Stream!fire_stream(n)
  PROVE  StreamInv'
<1>1. /\ l_at = 0 /\ ~l_failed /\ l_rate' = n /\ l_credit' = 0
      /\ l_ghost' = [run |-> 0, fired |-> 0, spent |-> 0, taken |-> 0]
      /\ UNCHANGED <<l_foe, l_pool, l_active, l_failed, l_at, l_shadow>>
  BY DEF Stream!fire_stream, Stream!Second0
<1>2. n \in Nat /\ Second \in Nat \ {0}
  BY StreamSizes
<1>3. StreamTypes'
  <2>1. 0 \in 0 .. Second - 1
    BY <1>2
  <2> QED BY <1>1, <1>2, <2>1, CountsStart DEF StreamInv, StreamTypes
<1>4. n * 0 = Second * 0 + 0
  BY <1>2
<1>5. RateHeld' /\ SpentHeld'
  BY <1>1, <1>4 DEF RateHeld, SpentHeld
<1>6. ActiveHeld'
  BY <1>1 DEF StreamInv, ActiveHeld, Flying
<1> QED BY <1>1, <1>3, <1>5, <1>6 DEF StreamInv

LEMMA ClearedStream ==
  ASSUME StreamInv, Stream!fire_stream_reset \/ Stream!LeftLevel
  PROVE  StreamInv'
<1>1. /\ l_at = 0 /\ l_pool' = [i \in 1 .. Pool |-> 0] /\ l_credit' = 0 /\ l_active' = 0
      /\ l_ghost' = [run |-> 0, fired |-> 0, spent |-> 0, taken |-> 0]
      /\ l_rate' \in {0, l_rate} /\ l_failed' \in {FALSE, l_failed}
      /\ UNCHANGED <<l_foe, l_at, l_shadow>>
  BY DEF Stream!fire_stream_reset, Stream!LeftLevel, Stream!Second0, Stream!Nothing, Stream!Slots
<1>2. l_rate' \in Nat /\ Second \in Nat \ {0}
  <2>1. l_rate \in Nat
    BY DEF StreamInv, StreamTypes
  <2> QED BY <1>1, <2>1, StreamSizes
<1>3. StreamTypes'
  <2>1. 0 \in 0 .. Second - 1
    BY <1>2
  <2>2. l_ghost' \in Counts
    BY <1>1, CountsStart
  <2>3. l_pool' \in [1 .. Pool -> Nat]
    BY <1>1
  <2>4. l_failed' \in BOOLEAN
    BY <1>1 DEF StreamInv, StreamTypes
  <2>5. /\ l_at' \in 0 .. Pool + 1 /\ l_foe' \in [Foes -> {"none", "alive", "burnt"}]
        /\ l_shadow' \in [Foes -> {"none", "alive", "burnt"}]
    BY <1>1 DEF StreamInv, StreamTypes
  <2>6. l_active' \in Nat /\ l_credit' \in 0 .. Second - 1
    BY <1>1, <2>1
  <2>7. l_rate' \in Nat
    BY <1>2
  <2>8. /\ l_pool' \in [1 .. Pool -> Nat] /\ l_rate' \in Nat /\ l_credit' \in 0 .. Second - 1
        /\ l_active' \in Nat /\ l_failed' \in BOOLEAN /\ l_at' \in 0 .. Pool + 1
    BY ONLY <2>3, <2>4, <2>5, <2>6, <2>7
  <2> QED BY ONLY <2>2, <2>5, <2>8 DEF StreamTypes
<1>4. l_rate' * 0 = Second * 0 + 0
  <2>1. \A r \in Nat, s \in Nat : r * 0 = s * 0 + 0
    OBVIOUS
  <2> QED BY ONLY <1>2, <2>1
<1>5. RateHeld' /\ SpentHeld'
  BY <1>1, <1>4 DEF RateHeld, SpentHeld
<1>6. Flying(Pool)' = {}
  BY <1>1 DEF Flying
<1>7. ActiveHeld'
  BY <1>1, <1>6, FS_EmptySet DEF ActiveHeld
<1> QED BY <1>1, <1>3, <1>5, <1>7 DEF StreamInv

(* A tick shares the rate out.                                             *)
LEMMA CountIsShare ==
  ASSUME StreamInv, ~l_failed, NEW rest, rest = IF Stream!Fires THEN (l_credit + l_rate) % Second ELSE l_credit
  PROVE  /\ Stream!Count \in Nat /\ rest \in 0 .. Second - 1
         /\ Stream!Counted \in Counts
         /\ l_rate * Stream!Counted.run = Second * Stream!Counted.fired + rest
<1>1. /\ l_credit \in 0 .. Second - 1 /\ l_rate \in Nat /\ Second \in Nat \ {0}
      /\ l_ghost \in Counts
      /\ l_rate * l_ghost.run = Second * l_ghost.fired + l_credit
  BY StreamSizes DEF StreamInv, StreamTypes, RateHeld
<1>2. CASE ~Stream!Fires
  BY <1>1, <1>2 DEF Stream!Count, Stream!Counted
<1>3. CASE Stream!Fires
  <2> DEFINE n == (l_credit + l_rate) \div Second
  <2>1. rest = (l_credit + l_rate) % Second /\ Stream!Count = n
    BY <1>3 DEF Stream!Count
  <2>2. l_credit + l_rate \in Nat /\ l_ghost.run \in Nat /\ l_ghost.fired \in Int
        /\ l_ghost.spent \in Nat /\ l_ghost.taken \in Nat
    BY <1>1 DEF Counts
  <2>3. n \in Nat /\ rest \in 0 .. Second - 1 /\ l_credit + l_rate = Second * n + rest
    BY ONLY <1>1, <2>1, <2>2, Division
  <2> HIDE DEF n
  <2>4. /\ l_rate * (l_ghost.run + 1) = Second * (l_ghost.fired + n) + rest
        /\ l_ghost.run + 1 = Second =>
             l_rate * 0 = Second * (l_ghost.fired + n - l_rate) + rest
    <3> DEFINE run == l_ghost.run
    <3> DEFINE fired == l_ghost.fired
    <3>1. /\ run \in Nat /\ fired \in Int /\ n \in Nat /\ l_rate \in Nat
          /\ l_credit \in 0 .. Second - 1 /\ rest \in 0 .. Second - 1 /\ Second \in Nat \ {0}
          /\ l_rate * run = Second * fired + l_credit /\ l_credit + l_rate = Second * n + rest
      BY <1>1, <2>2, <2>3
    <3> HIDE DEF run, fired
    <3>2. /\ l_rate * (run + 1) = Second * (fired + n) + rest
          /\ run + 1 = Second => l_rate * 0 = Second * (fired + n - l_rate) + rest
      BY ONLY <3>1, Share
    <3> QED BY <3>2 DEF run, fired
  <2>5. CASE l_ghost.run + 1 = Second
    <3> DEFINE g == [l_ghost EXCEPT !.run = 0, !.fired = @ + n - l_rate]
    <3>1. Stream!Counted = g
      BY <1>3, <2>1, <2>5 DEF Stream!Counted
    <3>2. g.run = 0 /\ g.fired = l_ghost.fired + n - l_rate
      BY <1>1 DEF Counts
    <3>3. g \in Counts
      <4>1. g = [l_ghost EXCEPT !.run = 0, !.fired = l_ghost.fired + n - l_rate]
        OBVIOUS
      <4>2. l_ghost.fired + n - l_rate \in Int
        BY <1>1, <2>2, <2>3
      <4> HIDE DEF g
      <4> QED BY <1>1, <4>1, <4>2, CountsGoOn
    <3> HIDE DEF g
    <3> QED BY <2>1, <2>3, <2>4, <2>5, <3>1, <3>2, <3>3
  <2>6. CASE l_ghost.run + 1 # Second
    <3> DEFINE g == [l_ghost EXCEPT !.run = @ + 1, !.fired = @ + n]
    <3>1. Stream!Counted = g
      BY <1>3, <2>1, <2>6 DEF Stream!Counted
    <3>2. g.run = l_ghost.run + 1 /\ g.fired = l_ghost.fired + n
      BY <1>1 DEF Counts
    <3>3. g \in Counts
      <4>1. g = [l_ghost EXCEPT !.run = l_ghost.run + 1, !.fired = l_ghost.fired + n]
        OBVIOUS
      <4>2. l_ghost.run + 1 \in Nat /\ l_ghost.fired + n \in Int
        BY <2>2, <2>3
      <4> HIDE DEF g
      <4> QED BY <1>1, <4>1, <4>2, CountsGoOn
    <3> HIDE DEF g
    <3> QED BY <2>1, <2>3, <2>4, <3>1, <3>2, <3>3
  <2> QED BY <2>5, <2>6
<1> QED BY <1>2, <1>3

LEMMA TickStream == StreamInv /\ Stream!Tick => StreamInv'
<1> SUFFICES ASSUME StreamInv, Stream!Tick PROVE StreamInv'
  OBVIOUS
<1>1. /\ l_at = 0 /\ ~l_failed /\ l_at' = 1 /\ l_shadow' = l_foe /\ l_active' = 0
      /\ l_credit' = IF Stream!Fires THEN (l_credit + l_rate) % Second ELSE l_credit
      /\ l_pool' = Stream!spawn(Stream!Count)
      /\ l_ghost' = [Stream!Counted EXCEPT !.spent = 0, !.taken = 0]
      /\ UNCHANGED <<l_foe, l_rate, l_failed>>
  BY DEF Stream!Tick
<1> DEFINE c == Stream!Counted
<1>2. /\ Stream!Count \in Nat /\ l_credit' \in 0 .. Second - 1
      /\ c \in Counts
      /\ l_rate * c.run = Second * c.fired + l_credit'
  BY <1>1, CountIsShare
<1>3. l_ghost' = [c EXCEPT !.spent = 0, !.taken = 0]
  BY <1>1
<1> HIDE DEF c
<1>4. /\ l_ghost' \in Counts
      /\ l_ghost'.run = c.run /\ l_ghost'.fired = c.fired /\ l_ghost'.spent = 0
  BY <1>2, <1>3 DEF Counts
<1>5. l_pool' \in [1 .. Pool -> Nat]
  BY <1>1, StreamSizes DEF StreamInv, StreamTypes, Stream!spawn, Stream!Slots, Stream!Life
<1>6. StreamTypes'
  <2>1. 1 \in 0 .. Pool + 1
    BY StreamSizes
  <2> QED BY <1>1, <1>2, <1>4, <1>5, <2>1 DEF StreamInv, StreamTypes
<1>7. RateHeld'
  BY <1>1, <1>2, <1>4 DEF RateHeld
<1>8. Flying(0)' = {} /\ Burnt' = {}
  BY <1>1 DEF Flying, Burnt
<1>9. ActiveHeld' /\ SpentHeld'
  BY <1>1, <1>4, <1>8, FS_EmptySet DEF ActiveHeld, SpentHeld
<1> QED BY <1>1, <1>6, <1>7, <1>9 DEF StreamInv

(* One shot moves: of the slots up to its own so many shots fly.           *)
LEMMA FlyingGoesOn ==
  ASSUME NEW n \in Nat, n > 0, \A i \in 1 .. n - 1 : l_pool'[i] = l_pool[i]
  PROVE  Cardinality(Flying(n))' =
           Cardinality(Flying(n - 1)) + (IF l_pool'[n] > 0 THEN 1 ELSE 0)
<1>1. n - 1 \in Nat /\ IsFiniteSet(Flying(n - 1)) /\ n \notin Flying(n - 1)
  BY StreamSizes DEF Flying
<1>2. Flying(n)' = IF l_pool'[n] > 0 THEN Flying(n - 1) \cup {n} ELSE Flying(n - 1)
  BY DEF Flying
<1>3. Cardinality(Flying(n - 1)) \in Nat
  BY <1>1, FS_CardinalityType
<1>4. Cardinality(Flying(n - 1) \cup {n}) = Cardinality(Flying(n - 1)) + 1
  BY <1>1, FS_AddElement
<1> QED BY <1>2, <1>3, <1>4

LEMMA UpdateStream == StreamInv /\ Stream!update => StreamInv'
<1> SUFFICES ASSUME StreamInv, Stream!update PROVE StreamInv'
  OBVIOUS
<1>1. /\ l_at \in 1 .. Pool /\ l_at' = l_at + 1 /\ l_at # 0 /\ ~l_failed
      /\ UNCHANGED <<l_foe, l_rate, l_credit, l_failed>>
  BY DEF Stream!update, Stream!Slots, StreamInv
<1>2. /\ l_pool \in [1 .. Pool -> Nat] /\ l_active \in Nat /\ l_ghost \in Counts
      /\ l_shadow \in [Foes -> {"none", "alive", "burnt"}]
      /\ l_active = Cardinality(Flying(l_at - 1)) /\ l_ghost.spent = Cardinality(Burnt)
  BY <1>1 DEF StreamInv, StreamTypes, ActiveHeld, SpentHeld
<1>3. PICK n \in Nat : n = l_at
  BY <1>1
<1>4. ASSUME NEW left \in Nat, l_pool' = [l_pool EXCEPT ![l_at] = left],
             l_active' = l_active + (IF left > 0 THEN 1 ELSE 0)
      PROVE  /\ l_pool' \in [1 .. Pool -> Nat] /\ l_active' \in Nat /\ ActiveHeld'
  <2>1. /\ l_pool' \in [1 .. Pool -> Nat] /\ l_pool'[n] = left
        /\ \A i \in 1 .. n - 1 : l_pool'[i] = l_pool[i]
    BY <1>1, <1>2, <1>3, <1>4
  <2>2. Cardinality(Flying(n))' = Cardinality(Flying(n - 1)) + (IF left > 0 THEN 1 ELSE 0)
    BY <1>1, <1>3, <2>1, FlyingGoesOn
  <2>3. l_at' # 0 /\ l_at' - 1 = n
    BY <1>1, <1>3
  <2>4. Cardinality(Flying(n))' = l_active'
    BY <1>2, <1>3, <1>4, <2>2
  <2>5. ActiveHeld'
    BY <2>3, <2>4 DEF ActiveHeld
  <2> QED BY <1>2, <1>4, <2>1, <2>5
<1>5. ASSUME l_shadow' = l_shadow, l_ghost' = l_ghost,
             l_pool' \in [1 .. Pool -> Nat], l_active' \in Nat, ActiveHeld'
      PROVE  StreamInv'
  <2>1. Burnt' = Burnt
    BY <1>1, <1>5 DEF Burnt
  <2>2. RateHeld' /\ SpentHeld'
    BY <1>1, <1>2, <1>5, <2>1 DEF StreamInv, RateHeld, SpentHeld
  <2>3. l_at' \in 0 .. Pool + 1
    BY <1>1, StreamSizes
  <2>4. StreamTypes'
    BY <1>1, <1>5, <2>3 DEF StreamInv, StreamTypes
  <2> QED BY <1>1, <1>5, <2>2, <2>4 DEF StreamInv
<1>6. CASE Stream!NoShot
  <2>1. /\ l_pool[l_at] = 0 /\ UNCHANGED <<l_pool, l_active, l_shadow, l_ghost>>
    BY <1>6 DEF Stream!NoShot
  <2>2. l_pool' = [l_pool EXCEPT ![l_at] = 0]
    BY <1>1, <1>2, <2>1
  <2>3. l_active' = l_active + (IF 0 > 0 THEN 1 ELSE 0)
    BY <1>2, <2>1
  <2>4. l_pool' \in [1 .. Pool -> Nat] /\ l_active' \in Nat /\ ActiveHeld'
    BY <1>4, <2>2, <2>3
  <2>5. l_shadow' = l_shadow /\ l_ghost' = l_ghost
    BY <2>1
  <2> QED BY <1>5, <2>4, <2>5
<1>7. CASE Stream!Flies
  <2>1. /\ l_pool[l_at] > 0 /\ l_pool' = [l_pool EXCEPT ![l_at] = l_pool[l_at] - 1]
        /\ l_active' = IF l_pool[l_at] > 1 THEN l_active + 1 ELSE l_active
        /\ UNCHANGED <<l_shadow, l_ghost>>
    BY <1>7 DEF Stream!Flies
  <2> DEFINE left == l_pool[l_at] - 1
  <2>2. left \in Nat /\ l_active' = l_active + (IF left > 0 THEN 1 ELSE 0)
    BY <1>1, <1>2, <2>1
  <2>3. l_pool' = [l_pool EXCEPT ![l_at] = left]
    BY <2>1
  <2> HIDE DEF left
  <2> QED BY <1>4, <1>5, <2>1, <2>2, <2>3
<1>8. CASE Stream!Ends
  <2>1. /\ l_pool' = [l_pool EXCEPT ![l_at] = 0]
        /\ UNCHANGED <<l_active, l_shadow, l_ghost>>
    BY <1>8 DEF Stream!Ends
  <2>2. l_active' = l_active + (IF 0 > 0 THEN 1 ELSE 0)
    BY <1>2, <2>1
  <2> QED BY <1>4, <1>5, <2>1, <2>2
<1>9. ASSUME NEW f \in Foes, Stream!Burns(f) PROVE StreamInv'
  <2>1. /\ l_shadow[f] = "alive" /\ l_pool' = [l_pool EXCEPT ![l_at] = 0]
        /\ l_shadow' = [l_shadow EXCEPT ![f] = "burnt"]
        /\ l_ghost' = [l_ghost EXCEPT !.spent = @ + 1] /\ UNCHANGED l_active
    BY <1>9 DEF Stream!Burns
  <2>2. l_active' = l_active + (IF 0 > 0 THEN 1 ELSE 0)
    BY <1>2, <2>1
  <2>3. l_pool' \in [1 .. Pool -> Nat] /\ l_active' \in Nat /\ ActiveHeld'
    BY <1>4, <2>1, <2>2
  <2>4. l_shadow' \in [Foes -> {"none", "alive", "burnt"}]
    BY <1>2, <2>1
  <2>5. /\ l_ghost' \in Counts /\ l_ghost'.spent = l_ghost.spent + 1
        /\ l_ghost'.run = l_ghost.run /\ l_ghost'.fired = l_ghost.fired
    BY <1>2, <2>1 DEF Counts
  <2>6. Cardinality(Burnt') = Cardinality(Burnt) + 1
    <3>1. f \notin Burnt
      BY <2>1 DEF Burnt
    <3>2. l_foe[f] = "alive"
      BY <1>1, <2>1 DEF StreamInv
    <3>3. Burnt' = Burnt \cup {f}
      BY <1>1, <1>2, <2>1, <3>2 DEF Burnt
    <3> QED BY <3>1, <3>3, StreamSizes, FS_AddElement
  <2>7. RateHeld' /\ SpentHeld'
    BY <1>1, <1>2, <2>5, <2>6 DEF StreamInv, RateHeld, SpentHeld
  <2>8. l_at' \in 0 .. Pool + 1
    BY <1>1, StreamSizes
  <2>9. StreamTypes'
    BY <1>1, <2>3, <2>4, <2>5, <2>8 DEF StreamInv, StreamTypes
  <2>10. \A e \in Foes : l_shadow'[e] = "alive" => l_foe'[e] = "alive"
    BY <1>1, <1>2, <2>1 DEF StreamInv
  <2> QED BY <1>1, <2>3, <2>7, <2>9, <2>10 DEF StreamInv
<1> QED BY <1>6, <1>7, <1>8, <1>9 DEF Stream!update

LEMMA FaultStream == StreamInv /\ Stream!fault => StreamInv'
<1> SUFFICES ASSUME StreamInv, Stream!fault PROVE StreamInv'
  OBVIOUS
<1>1. /\ l_failed' = TRUE /\ l_rate' = 0 /\ l_at' = 0
      /\ UNCHANGED <<l_foe, l_pool, l_credit, l_active, l_shadow, l_ghost>>
  BY DEF Stream!fault
<1>2. 0 \in 0 .. Pool + 1
  BY StreamSizes
<1>3. StreamTypes'
  BY <1>1, <1>2 DEF StreamInv, StreamTypes
<1> QED BY <1>1, <1>3 DEF StreamInv, RateHeld, ActiveHeld, SpentHeld

LEMMA CopyBackStream == StreamInv /\ Stream!CopyBack => StreamInv'
<1> SUFFICES ASSUME StreamInv, Stream!CopyBack PROVE StreamInv'
  OBVIOUS
<1>1. /\ l_at = Pool + 1 /\ l_at' = 0 /\ l_foe' = l_shadow
      /\ l_ghost' = [l_ghost EXCEPT !.taken = Cardinality(Burnt)]
      /\ UNCHANGED <<l_pool, l_rate, l_credit, l_active, l_failed, l_shadow>>
  <2>1. l_ghost' = [l_ghost EXCEPT !.taken = Stream!Cardinality(Burnt)]
    BY DEF Stream!CopyBack, Burnt
  <2>2. Stream!Cardinality(Burnt) = Cardinality(Burnt)
    BY CountsAlike
  <2> QED BY <2>1, <2>2 DEF Stream!CopyBack
<1>2. Pool \in Nat /\ l_at # 0 /\ l_at - 1 = Pool /\ 0 \in 0 .. Pool + 1
  BY <1>1, StreamSizes
<1>3. ~l_failed /\ l_ghost \in Counts /\ Cardinality(Burnt) \in Nat
  BY <1>2, StreamSizes, FS_CardinalityType DEF StreamInv, StreamTypes
<1>4. /\ l_ghost' \in Counts /\ l_ghost'.taken = Cardinality(Burnt)
      /\ l_ghost'.run = l_ghost.run /\ l_ghost'.fired = l_ghost.fired
      /\ l_ghost'.spent = l_ghost.spent
  BY <1>1, <1>3 DEF Counts
<1>5. StreamTypes'
  BY <1>1, <1>2, <1>4 DEF StreamInv, StreamTypes
<1>6. Flying(Pool)' = Flying(Pool)
  BY <1>1 DEF Flying
<1>7. ActiveHeld'
  BY <1>1, <1>2, <1>6 DEF StreamInv, ActiveHeld
<1>8. RateHeld' /\ SpentHeld'
  BY <1>1, <1>2, <1>3, <1>4 DEF StreamInv, RateHeld, SpentHeld
<1> QED BY <1>1, <1>5, <1>7, <1>8 DEF StreamInv

LEMMA StreamStep == StreamInv /\ Stream!Next => StreamInv'
BY GameStream, CommandStream, ClearedStream, TickStream, UpdateStream, FaultStream,
   CopyBackStream DEF Stream!Next

LEMMA StreamStutter == ASSUME StreamInv, UNCHANGED streamVars PROVE StreamInv'
BY DEF streamVars, StreamInv, StreamTypes, RateHeld, ActiveHeld, SpentHeld, Flying, Burnt

LEMMA StreamIsKept == StreamInv => Stream!StreamKept
<1> SUFFICES ASSUME StreamInv PROVE Stream!StreamKept
  OBVIOUS
<1>1. ASSUME ~l_failed PROVE l_ghost.fired = (l_rate * l_ghost.run) \div Second
  <2>1. /\ Second \in Nat \ {0} /\ l_ghost.fired \in Int /\ l_credit \in 0 .. Second - 1
        /\ l_rate * l_ghost.run = Second * l_ghost.fired + l_credit
    BY <1>1, StreamSizes DEF StreamInv, StreamTypes, Counts, RateHeld
  <2>2. (Second * l_ghost.fired + l_credit) \div Second = l_ghost.fired
    BY ONLY <2>1, Quotient
  <2> QED BY <2>1, <2>2
<1>2. Stream!NoShotIsForgotten
  BY CountsAlike DEF StreamInv, ActiveHeld, Flying, Stream!NoShotIsForgotten, Stream!Slots
<1>3. Stream!ShotsTakeFoes
  BY DEF StreamInv, SpentHeld, Stream!ShotsTakeFoes
<1> QED BY <1>1, <1>2, <1>3 DEF Stream!RateKept, Stream!StreamKept

-----------------------------------------------------------------------------
(* No shot is lost or doubled by the slots that all players share, no foe  *)
(* answers twice in a frame and no bank is one a snapshot refuses, for any *)
(* players, foes and shots (coop_simulation.c:269-365); and a script's     *)
(* stream fires at the rate asked for, ticks until its last shot has ended *)
(* and takes a foe with every shot it spends (lua_fire_stream.c:126-155).  *)
THEOREM ShotsAreKept == BenchSpec => []FireKept
<1> DEFINE Inv == (part = "fire" => FireInv) /\ (part = "stream" => StreamInv)
<1>1. BenchInit => Inv
  BY InitFire, InitStream DEF BenchInit
<1>2. Inv /\ [BenchNext]_benchVars => Inv'
  <2>1. ASSUME Inv, part' = "fire", [BenchNext]_benchVars PROVE FireInv'
    <3>1. part = "fire" /\ FireInv
      BY <2>1 DEF BenchNext, benchVars
    <3>2. Fire!Next \/ UNCHANGED fireVars
      BY <2>1, <3>1 DEF BenchNext, benchVars
    <3> QED BY <3>1, <3>2, FireStep, FireStutter
  <2>2. ASSUME Inv, part' = "stream", [BenchNext]_benchVars PROVE StreamInv'
    <3>1. part = "stream" /\ StreamInv
      BY <2>2 DEF BenchNext, benchVars
    <3>2. Stream!Next \/ UNCHANGED streamVars
      BY <2>2, <3>1 DEF BenchNext, benchVars, MayStop
    <3> QED BY <3>1, <3>2, StreamStep, StreamStutter
  <2> QED BY <2>1, <2>2
<1>3. Inv => FireKept
  BY FireIsKept, StreamIsKept DEF FireKept
<1> QED BY <1>1, <1>2, <1>3, PTL DEF BenchSpec
=============================================================================
