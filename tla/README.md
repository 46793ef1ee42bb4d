# A TLA+ verification of SuperMarioWorldRecomp

SuperMarioWorldRecomp runs the recompiled *Super Mario World* inside a host
program.  The recompiled CPU code and the console hardware come from elsewhere
(the generated guest and the `snesrecomp` framework); what this repository adds
by hand is the host: native simultaneous co-op, the Captain Falcon mod, mod
audio, netplay, save storage, input and configuration, and an adaptive renderer.
This project models the parts of it that keep state and depend on the order of
things, and leaves pixels and data tables aside.

Paths below are relative to the repository (`src/mods/...`).

## 1. Inventory

| Component | State it keeps | Operations | What makes it hard | What makes it correct |
|---|---|---|---|---|
| Save storage queue, `coop_storage.c` | retained SRAM images, `pending`, `stopping`, worker thread | queue, write, read back, shutdown with retry | two threads, lost wakeups, failed writes, retries, crashes | files only move forward; what was queued is written; a clean shutdown is durable |
| Co-op session core, `coop_session.c` | player records, lives, outcome, checkpoint, the frame's events and actions | begin frame, event, resolve, separate, recover, restart, input | events of several actors in one frame in update order; players leaving play with possessions | somebody plays; one life per attempt; one winner per object; nothing vanishes; fresh presses |
| Co-op runtime, `coop_runtime.c` | selected roster, `choosing`, remembered mode, connection state | choose namespace, host frame, menu hooks, snapshot preflight, save, load | namespace changes while images are unwritten; a snapshot of another roster | the right bytes are loaded; blocked teams wait; a refused snapshot changes nothing |
| Co-op frame and team flow, `coop_simulation.c` | stage of the frame, guest RAM seen through each player's register image | begin and end of a guest frame, room loads, routines once per actor, death hook | every guest routine runs several times a frame over shared RAM | one outcome per frame, one life per failure, the end of an attempt is reached |
| Co-op contacts, mounts and objects, `coop_simulation.c`, `coop_machine.c` | entity identities, owners, stored mounts, egg sources, mouths, berries, fireball banks | collect, arbitrate and commit contacts; spawn, forget, own; lick, swallow; fire | slots are reused while somebody still names the old occupant; guest code written for one player and one mount | one owner, seen from both sides; one answer per contact; no shot or morsel lost or taken twice |
| Co-op camera focus, `coop_machine.c`, `coop_session.c` | focus, its hold over a death, the leader | focus, refit, separation test | the number of players changes between two camera runs | a death does not move the survivors' view |
| Co-op state format, `coop_machine.c`, `coop_state.c` | none of its own | encode, decode, validate | seven versions of the image; truncated or foreign files | what is saved loads; what is taken is taken whole |
| Co-op terrain and guest views, `coop_terrain.c`, `coop_guest.c` | none of its own | search for a place to return to, capture and bind images | two layers, platforms, sprites and other players move between tries | a returning player stands in free space |
| Foreign controller, `foreign_controller.c`, `smw_falcon_plugin.c` | registered controllers, the owner of the player | select, tick, resolve, save, load | a state of another controller, a load that fails half way | a load is whole or leaves what was |
| Falcon locomotion, `falcon_locomotion.c`, `captain_falcon_foreign.c` | the fighter's state, frame, speeds, jumps, cues | tick, resolve | some sixty states with interrupts; ground and air versions of one move | footing and state agree; one timeline per move; the jump budget |
| Falcon host boundary, `falcon_smw_adapter.c` | guards, the dive's catch, pad words, taps, the step latch, wall safety, native timers lent to it | the seams around SMW's player and sprite code | frames that freeze, return nonlocally or change owner between two seams | native timers stay native; a press arrives once; a wall holds |
| Falcon combat, `smw_falcon_combat_apply.c`, `smw_falcon_combat_policy.c` | ledger of applied contacts, kick field, broken tiles | classify, apply, sweep blocks | two seams of a frame may sweep; slots are reused | one consequence per contact; a proof before a sweep |
| Falcon presentation and audio, `smw_falcon_presentation_runtime.c`, `smw_falcon_audio.c` | cache state, what was removed and drawn, cue handles | load, remove, draw, play | ownership changes between removal and drawing; either may be refused | every picture has one player, or a refusal; a body falls once |
| Mod audio, `mod_audio.c` | clip pool, generations, voices, mixing position | register, play, stop, mix, unregister | handles outlive clips; slots are reused | a voice plays the clip it was given |
| Host loop and netplay barrier, `main.c` | running, paused, turbo, the match, the wait for the connection | events, barrier, frame, raster, shutdown, rematch | peers that leave or diverge while the barrier waits | everybody runs the same frames; a dead match ends |
| Host audio handoff, `main.c` | the recursive APU mutex, its depth per thread, the producer flag | lock, unlock with back-pressure, callback | the guest waits for a consumer that may be gone | nobody waits holding what the other needs; every wait ends |
| Host pads and key bindings, `main.c`, `config.c` | seats, button bits, the settings' file | attach, detach, press, chord; read, rewrite | events in a queue while devices leave; a file rewritten in place | no button stuck or lost; choices survive the next boot |
| Host script, `main.c` | entries, index, phase, counter | load, tick | waits and holds at their boundaries | every command is played out |
| Lua fire stream, `lua_fire_stream.c` | rate, credit, pool of shots, failure | commands of a script, tick | shots move one after the other over a private copy of memory; one may fail half way | the rate is kept; no shot hangs; one foe per shot |
| Renderer, capture, platform | pixels, windows, files | | | |
| Recompiled guest | the game | | | |

**Interaction.**  One turn of the host loop reads events, asks the barrier for
permission in a match, and runs one frame: `SmwCoopHostFrame` (controllers, mode
choice), then the guest with its hooks.  With co-op,
`SmwCoopSimulationBegin` begins the session's frame and samples pads, the guest's
routines run once per actor and report events, and `SmwCoopSimulationEnd`
resolves, separates, recovers and, after a failure, restarts.  With Captain
Falcon, the seams `$00:D5F2`, `$00:DC2D`, `$00:CD36` and `$01:80D2` lend the player
to the fighter and take the result back.  The picture is rastered and presented
after the frame.  The main thread hands copies of cartridge RAM to the storage
worker, and the sound device's callback shares the sound chip with the guest;
both go through one mutex each.  Save states take the co-op machine or the
fighter along with the console.

What is hard to test, with the line where it bites and the properties about it,
is the list `hazards` of `PROJECT.json`.

## 2. Modules

| Module | Models | Kind |
|---|---|---|
| `SaveStore` | what a save store promises: per namespace a durable and a newest content | abstract specification |
| `CoopStorage` | `coop_storage.c`, and the namespace choice of `coop_runtime.c` | implements `SaveStore` |
| `CoopSession` | `coop_session.c` | component |
| `CoopResolve` | the sorting and the loops of `coop_session_resolve`, event by event | algorithm, checked against `CoopSession` |
| `CoopInput` | `coop_player_input` with the controller check and life changes of one player | component |
| `CoopTeam` | the frame of `coop_simulation.c`: begin, hooks, end | composes `CoopSession` with the adapter and the guest |
| `CoopContacts` | contact arbitration: several actors, one shared sprite | component |
| `CoopEntities` | identities, owners, mounts, carried objects, egg sources | component |
| `CoopMouths`, `CoopFire` | the mounts' mouths and berries; the players' fireballs | components |
| `CoopFocus` | the camera focus and the separation test | component |
| `CoopReturn` | the search for a safe place | component |
| `CoopSnapshot` | the co-op image of a save state, field by field | component |
| `SaveStates` | what a save state saves and a load replaces: console, co-op machine, foreign controller | composes them |
| `FalconFighter` | the fighter's whole timeline | implements `FalconMoves` |
| `FalconMoves` | what the boundary sees of the fighter | abstract specification |
| `FalconHost` | the seams, guards, ledger and ownership, over `FalconMoves` | component |
| `FalconPad`, `FalconWall`, `FalconBlocks`, `FalconShow` | pad words; the step latch and wall safety; broken tiles; what is drawn | components |
| `HostLoop`, `HostAudio` | the loop with the match; the sound chip's two threads | components |
| `HostPads`, `HostScript`, `HostConfig` | devices and seats; the input script; the settings' file | components |
| `ModAudio` | clips, voices and Falcon's cues | component |
| `LuaFireStream` | the shots of a Lua script | component |
| `HostWaits`, `FalconSeams`, `CoopFrame`, `CoopRooms`, `CoopParts` | the places where the host waits; the seams that `FalconHost` leaves out; the session, its loops and the contacts of a frame; the team's frames beside the sprites of three rooms; the co-op parts without a composition of their own | benches of components |
| `MC*` | small instances | |
| `CoopTeamProofs`, `CoopEntitiesProofs`, `CoopPartsProofs`, `CoopKeptProofs`, `HostProofs`, `FalconHostProofs`, `FalconSeamsProofs`, `FalconFighterProofs` | theorems | proofs |

**Benches.**  `HostWaits`, `FalconSeams`, `CoopFrame`, `CoopRooms` and
`CoopParts` hold several modules that share no state.  A behaviour of a bench
chooses one of them (`part`, or `view`) in its initial state and runs that one;
the others stand still.  This is not a composition and proves nothing about their
interaction; where components do interact, one module composes them (`CoopTeam`,
`SaveStates`, `FalconHost`, and `MovesAbstracted` between the fighter and the
boundary).  A property of a bench is about its part and holds vacuously in the
others, so the part a property is about is named in its definition.  A bench has
the constants of its parts and what is assumed of them; a `.cfg`, with an `MC`
module where a value needs a definition, gives the constants values.  The rooms
of `CoopRooms` are three instances of `CoopEntitiesProofs`, which is
`CoopEntities` with what is proved of it, so that `CoopTeamProofs` can cite the
lemmas of each.

### Storage: CoopStorage, SaveStore

`images`, `pending`, `stopping`, `worker` and `current` are the statics of
`coop_storage.c` and the worker's local variable.  A critical section holds the
mutex and never blocks, so it is one action; a file write happens with the mutex
released and is its own action (`WorkerWrite`, `RetryImage`), which may fail.
`main` is the program counter of the main thread, which blocks in
`SDL_WaitThread` and in the message box.  `SDL_CondSignal` wakes only a thread
that is already waiting, and `SpuriousWake` allows the wait to return for no
reason.  `Crash` may happen at any step and keeps only the files.  Contents of a
save are the stamp of the guest write that produced them, which is all that
"older" and "newer" need.  `RtlWriteSramImage` belongs to the framework and is
taken to replace a file atomically or leave it alone.

### Session: CoopSession, CoopResolve, CoopInput

`CoopSession` has one action per exported function, in an order-free form: what
`coop_session_resolve` decides is stated as sets (who dies, who wins an entity,
who is upgraded), not as loops.  `CoopResolve` runs the real sort and loops, one
event per step, and shows that they compute exactly that result.  Positions and
the camera are abstracted to the questions the code asks of them: who is outside
the view, who leads, and next to whom a returning player fits (`CoopFocus` and
`CoopReturn` put the positions back).  `Spec` lets the adapter call the functions
in any order, so what it shows does not depend on the adapter.  Four places of
the adapter write a player's `life` directly (the death hook, course clear, room
initialisation and a new team death); they are actions of `CoopTeam`.

`CoopInput` is one player's `held`, `pressed` and `latch` through frames of host
check, pad sample and end of frame.  `stale` and `steady` are history variables:
which action buttons have been down since the player returned or the controller
was missing, and whether the player has been in play since the last sample.

### Frame: CoopTeam

Extends `CoopSession` with the adapter.  `phase` is the place in the sequential
code of one frame: `SmwCoopSimulationBegin` (`InitializeRoom`, `Begin`), the
level frame's hooks (`Paused` or `Stage`, then one routine per actor, the
primary first), and `SmwCoopSimulationEnd` in its order (`ReadBackLives`,
`ResolveFrame`, then `ApplyClear`, `ChangeRoom` or `Proceed` with separation and
recovery, then `Close`).  The guest is external: in its turn an actor may move,
gain a life, die, cut the tape, touch the goal or finish a pipe, and the room
loader and the overworld do what the hooks see of them.  Of an actor's register
image the module keeps the animation (`$71`: free, scripted, dying) and the
death timer (`$1496`); of the guest the life counter `$0DBE` (a byte holding
lives less one), the midway flag, the course's overworld flag, the end-of-course
timer, and whether `$141A` says that the room is not the primary entrance.
`ledger` is a history variable, the lives the team is entitled to.  `aborted`
stands for `Die()`.

### Sprites: CoopContacts, CoopEntities, CoopMouths, CoopFire

`CoopContacts`: one shared sprite and several actors in one frame.  The
collectors (`collect_native_contacts`, `collect_chuck_contacts`,
`collect_extended_contacts`, `run_cape_contacts`) ask the guest, once for each
actor in play and without effects, what kind of contact it would have
(`StartQuery`, `Ask`); they choose a winner by grab, distance and precedence;
then they run the real responses in passes, harm first, the winner next, bounces
of the others last (`StartCommit`, `Commit`, `Finish`).  `Strike` is a cape or
fire hit of the same frame.  `Outcomes` are the statuses that the guest's
response to a kind of contact may leave.  Its cooldown timer (`$154C`) is
abstracted to "one contact stage per frame", and distances to a rank.  Which of
the eight kinds `contact_response_hook` knows the guest answers for an actor is
free, for every sprite: no two actors need agree.  That includes a grab by one
actor and a stomp, spin or safe bounce by another in one frame, where the commit
of the bounce finds the sprite carried and `claim_carried` ends the program
(`coop_simulation.c:1126`, `203`); `aborted` stands for that `Die()`, and
`EndsOnlyOnAQuarrel` says that the program ends in exactly this case.

`CoopEntities`: `machine` holds the entities (identity, slot, type, owner,
flag), every player's mount, held object and stored mount, the next identity,
the placed egg's source and the block's uses.  `sprite` and `riding` are the guest
memory that the code consults.  Within a frame the actions are the hooks and
`run_normal_sprite` for each kind of sprite, in any order; the frame ends with
one of the verdicts of `SmwCoopSimulationEnd` (`EndContinue`, `EndRoom`,
`EndClear`, `EndRetry`, `EndOver`); `LoadRoom` is `load_room_sprites` with
`carry_through_room` inside it.  Two assumptions are about the guest: only an
actor in play, with the course not yet over, mounts or picks up; and what is
still carried when a course is cleared without a tape does not outlive the map.
Left out: the import of snapshots older than version 5 (`adopt_mounts`) and the
Yoshi flag of a legacy save file.

`CoopMouths`: mounts draw one after the other and only record what their
tongues and bodies touch (`licks`, `bites`, at most `Touches` a frame); the
claims are settled once all of them have moved.  `gone` is a history variable.
`CoopFire`: the guest's two slots are lent to each player's two shots
for the length of a native routine; `adopted` is the moment a snapshot's shared
shots become somebody's.  `struck` and `ended` are history variables.

### View and return: CoopFocus, CoopReturn

`CoopFocus` works along one axis with positions as the guest's words: a frame
is the camera (which follows the focus it is given), the players' moves, deaths
and returns, and the separation test at its end.  A catch-up bubble, or a death
and a return in one frame, may move the view by up to the camera's step;
`DeathKeepsView` is about frames in which nothing but deaths happened (`stir`).

`CoopReturn` keeps the arithmetic of `coop_terrain.c` in pixels: the candidates
in their order, the body of each shape, the two layers with an offset, footing,
platforms, foes and other players, and the word the guest reads back.

### Save states: CoopSnapshot, SaveStates

`CoopSnapshot` writes a machine to a file of words, section by section, and
reads it with every check of the loader, in the order of the code; files may be
of any version from 2 to 8, cut short, lengthened or altered in a word.  The
layout digest and the ROM's identity are one word.  `SaveStates` is one level up:
the preflight, the three parts of a load and what each leaves when a later one
refuses, over the choice of players, restarts and the foreign controller.

### Captain Falcon: FalconFighter, FalconMoves, FalconHost and the seams

`FalconFighter` has two actions a frame, `Tick` and `Resolve`, which are the
whole of `falcon_tick` and `falcon_resolve`: every state's animation, interrupt,
physics and collision part, with frame counters kept where the code looks at
them.  `FalconMoves` is what the boundary sees of it, and `MovesAbstracted` the
property that lets `FalconHost` use it.

`FalconHost` runs whole frames of seams over an external player, sprite slots
and native timers: a frame may be frozen, may return from the player's code
without reaching `$00:CD36`, may change hands, be rescued from a wall death or be
replaced by a loaded state.  `ghost` records which accepted contact each guard
and each consequence is owed to.  The four smaller modules keep disjoint parts
of the adapter's remaining statics: the pad words (`FalconPad`), the
step latch and the wall-safety net (`FalconWall`), the tiles (`FalconBlocks`, with
the attack volumes' own arithmetic), and who is drawn (`FalconShow`).

### Host: HostLoop, HostAudio, HostPads, HostScript, HostConfig, ModAudio

`HostLoop` is the loop of `main.c` with `NetplayBarrierAdmit` and the session
around it.  Time is counted in turns of the barrier.  The netplay library is
external: a link that is off, waiting or running, and a peer that may stop, fall
silent or diverge.  `HostAudio` has the recursive mutex with its depth per
thread, the back-pressure wait of the outermost unlock, and a device that may
disappear; whether a frame paces itself is free.  `HostPads` queues SDL's events,
so that a button may arrive after its device has gone.  `HostScript` loads and
plays a script.  `HostConfig` boots, rebinds, plays and rewrites a file.
`ModAudio` has the clip pool with generations, the voices and the mixer, and
Falcon's loading of cues between frames; the clips other packages bring are free.
`LuaFireStream` takes one step per slot of a tick: `at` is the loop's index, and
a shot flies on, ends, burns a foe that the private copy still has alive, or
fails.  `CopyBack` ends the tick and commits the copy; a failed tick never
reaches it.  Which of the guest's memory is copied back is abstracted to the
foes.

## 3. Runs

| Run | Checks | Bounds and why they are enough |
|---|---|---|
| `host` | storage: `StoreSpec` (refinement), `NoLostWakeup`, `StorageProgress`; loop: `FramesOfTheMatch`, `SessionEnds`; sound: `ConsumerMayRun`, `WaitEnds` | two namespaces (one can be superseded while the other waits), stamps up to 2, four images: a failed write with a newer one behind it fits. Timeouts of 2 and 1 turns, so that each can be met or missed; one turbo frame in two is drawn. One block of high water, lock depth 2: nested and outermost unlocks differ |
| `session` | `SomeoneActive`, `OneLifePerAttempt`, `SessionInv`, `NothingVanishes`; `LoopComputesResolve`; `ContactsArbitrated` | two players, two events a frame, one life, a reserve item, an object and a mount: both touch one entity while one is also hit, lethally or not; the loop over every frame of up to three reports; three actors at one sprite, so that there is a winner, a loser and a harmed one, or one who grabs and two who bounce |
| `room` | `TeamKept`, `CheckpointKept`, `AnimatedFailureReachesLoader`; `EntitiesKept`, `YoshisBounded`, `IdentitiesSurviveRooms` | team: two players, two ticks of death animation so that a freeze can fall into one, two lives: one failure retries, the next ends the game. Entities: two slots and six identities with a castle that stores mounts; a balloon in three identities; a third slot, in which a third mount would fit |
| `parts` | `ActsWhenPressed`, `StateIsWhole`, `NothingIgnored`, `SavedComesBack`, `ReturnIsSafe`, `DeathKeepsView`, `MouthsKept`, `FireKept`, `InputsReachTheGame`, `ChoicesSurvive`, `ClipsKept` | two action buttons; three machines (bare, with everything, with a held focus) in seven versions, each word altered to five values; rooms of ten by six blocks with one block changed anywhere near the anchor; three players on a line of two places with one death after another; two mounts and two morsels, a bite of two frames; three shots for two players' four slots; a script's pool of two in seconds of three frames, at rates that fill it and that leave a remainder; three pads for two seats, three queued events and two buttons held at once; four script lines; six files, with and without the sections, with a comment before and after a line of its setting and with a section twice; three clips and two voices |
| `falcon` | `FighterConsistent`, `CuesLeadContact`, `MovesAbstracted` | a digital pad's stick positions, every collision result, two counted jumps. A view mirrors left and right and drops what a turn reads outside a turn |
| `falcon_host` | `ContactsAccounted`, `GuardsSpareNative`, `ThrowDefeatsTheCaught` | two slots, so that a guard can reach the wrong one, one of which may change kind, or be taken by another sprite of the same kind; departures and grace of one frame, so that both the frame inside and the frame after are met |
| `falcon_seams` | `PressesKept`, `WallsHold`, `BlocksProven`, `PicturesAccounted` | a double tap within three frames, so that the second tap may come inside the window and after it; three columns, two safety notes; five rows of turn blocks with one other tile, the real field and memory sizes; a fall of two pictures |
| `team_stuck`, `entities_clear`, `focus`, `falcon_jump`, `falcon_tiles` | one property each, violated | as the passing run of the same module |

Deadlock is checked in every run but `entities_clear`, which stops when the
identities are used up.  In the benches a part that really ends (a played script,
used-up identities, a shot count at its bound) may stand still, and every other
one is checked for deadlock.

**Findings.**  There are five.

*A dying player in a room change* (`team_stuck`).  `load_room_sprites` binds the
image of the entrance over every actor, the animation of a dying one included,
and `initialize_room` leaves its `life` alone in an attempt that goes on.  That
player stays `COOP_DYING` with no death animation to end, and a later failure of
the team waits for it for ever.  `docs/NATIVE_COOP.md` line 218 has the team
"finish the original death animations before entrance/checkpoint restart".
`AnimatedFailureReachesLoader` shows that a failure keeps the promise as long as
every dying player is in the death animation.

*A rider in a bubble at a clear* (`entities_clear`).  A catch-up bubble keeps the
rider's mount.  `apply_clear` then resets the player's side of it and not the
entity's, `entities_valid` rejects the machine, and a save state made before the
guest next updates that Yoshi fails, while the contract (lines 307-308) promises
save states with mounts and bubbles.  `EntitiesKept` shows that outside a cleared
course every reachable machine can be saved.

*A held focus leaves the level* (`focus`).  After a death the focus keeps its
distance to the survivors and follows them; near the left edge it becomes
negative.  The save accepts it and the load of that file refuses it.

*An aerial jump in a fast fall* (`falcon_jump`).  `enter_jump_aerial` sets the
launch speed but leaves `is_fastfall`, and the physics of the same tick replaces
the launch by the fast fall's speed: the jump is spent and does not rise.

*Tiles nobody proved* (`falcon_tiles`).  Once one touched tile is proved to be a
turn block, the sweep replaces every tile its volumes cover, whatever it is,
while `docs/falcon_combat_bridge.md` lines 7-8 promise that question blocks,
pipes and scenery are always rejected.

Every property has a mutant: a definition with a plausible bug (`Mutant:` or
`Faulty:` in the modules), under which TLC finds that property violated.

**Fairness.**  `StorageProgress` assumes weak fairness of the worker's steps and
of the main thread's steps inside shutdown: the operating system schedules both
threads, the mutex is held for short sections, and a file write returns, with
success or failure.  Nothing is assumed of the user's answer, of crashes, or of
the game queueing anything.  `SessionEnds` assumes weak fairness of `Step`, the
thread's own progress: the loop keeps turning and the barrier keeps sleeping;
nothing is assumed of the peer, the network or the player.  `WaitEnds` assumes
that time passes while the guest waits, that the audio thread goes on when
nothing holds it up, and strong fairness of the waking guest, which asks for the
mutex again after every millisecond while the callback holds it only for short
sections.  `AnimatedFailureReachesLoader` and `FailureReachesLoader` assume weak
fairness of the frame as a whole: the host loop goes on running frames, and
nothing is assumed of what the guest or the players do in them.

## 4. Proofs

Every theorem holds for every value of the constants that satisfies the named
assumption of its module, so for any number of namespaces, players, slots,
shots, events, columns and frames:

| Assumption | What it asks |
|---|---|
| `StorageAssumption`, `SessionAssumption`, `InputAssumption` | counts are natural numbers, the player set is a range, action buttons are buttons |
| `TeamAssumption` | a death lasts between 1 and 255 ticks (a byte), the team begins with 1 to 100 lives and at most its maximum (the guest's counter holds lives less one), entrants are players |
| `RenderAssumption` | some turbo frame is drawn (`RenderEvery` is at least 1) |
| `SlotsAssumption`, `BoundsAssumption`, `SpawnsAssumption`, `StartsAssumption` | there is a slot, departures and grace last a frame or more, what appears is a known kind, a move starts in a known class |
| `InputsAssumption`, `HitsAssumption`, `MaxJumpsAssumption` | the stick and the collision report have the ranges of their fields, and there are at least two jumps |
| `ActorsAssumption` | a number of actors |
| `SeamAssumption` | window, notes, reach and the length of a fall are natural numbers, and a level has a column |
| `BlocksAssumption` | as many broken tiles are remembered as the code remembers (64), or more; a special is used in the level: no column is negative, and the feet are above the last row that has blocks (`SMW_FALCON_BLOCK_MAX_Y`) |
| `RoomAssumption`, `RoomsAssumption` | a room has a slot for every player's mount (the game has twelve), and what can be carried is a plain object or a balloon |
| `MouthsAssumption` | riders, sprite slots and the length of a gulp are natural numbers |
| `ClipsAssumption` | slots and voices are counted, there is a cue, a frame has units, and a clip has frames and one or two channels |
| `PartsAssumption` | positions are integers, the view's are words, counts and the camera's widths and speed natural numbers, a second has a frame, the enemy slots are finite |

Each component has an inductive invariant; the property a run checks is a part of
it or follows from it.

* **`CoopTeamProofs`**, of the session (`SessionInv`).  `SomeoneActive` needs the types of
  `events` and the fact that the arbitration leaves an active player out of
  `Doomed` unless the outcome changes; the proof for separation goes through the
  last active player of the pass.  Contacts need that a nearest claimant exists
  and is unique (well-founded minimum).  `ContactInv` follows the contacts of a
  sprite through the query and the three passes: the winner so far comes before
  every contender found so far, which is an order on grabs, distances and the
  roster, transitive and total (`OverTransitive`, `OverTotal`); each pass has
  served whom it owes but for those still due; and a later commit finds the
  sprite carried only after a grab that was won, so that the program ends when
  somebody else has still to bounce then (`EndsOnlyOnAQuarrel`), and only then.
* **`CoopTeamProofs`**, of the team (`TeamInv`, over the session's lemmas).  `PlaceInv` says
  which outcomes each screen has, `FrameInv` what a frame may still report,
  `LivesInv` where the guest's counter, the session's lives and the team's ledger
  agree: the guest learns of a lost life only at the end of the frame, the
  session of a one-up only when the counter is read back, so the three are equal
  at different places of a frame.  `TapeInv` follows a checkpoint through the
  guest's midway flag, the overworld's flag and a retry that waits for the loader.
  `TeamKept` and `CheckpointKept` follow.  For the rooms of `CoopRooms` the module
  cites `CoopEntitiesProofs` of each instance.
* **`CoopEntitiesProofs`** (`EntityInv`).  Its heart, `Sound(m, spr)`, relates any
  machine to any sprites: identities and slots are distinct, an identity's sprite
  is of its type, whoever is ridden is a living Yoshi with somebody on it, what is
  carried is owned, and the source's waiting egg still has a grant.  Each operation
  of `coop_machine.c` and of the adapter is a lemma that takes a sound machine to a
  sound one, and the actions compose the lemmas as they compose the operations.
  `EntitiesValid` alone is not inductive: it says nothing of the guest's sprites,
  on which every later step depends, nor of the middle of a frame; and it holds
  after a room change only because nobody's sprite is missing before it (`Swept`),
  because a retry owns nothing (`Cleaned`) and because mounts are stored only where
  none may enter (`Barred`).  `MountCap` needs `Riders` and that stored mounts
  are counted as slots: a parked mount leaves a slot, so `RespawnAll` finds one for
  every player (`RidersFit`, `CarryCapped`, `ReturnedComes`).  The places that
  `carry_through_room` gives are one to one and onto (`PlaceOnce`, `PlaceTaken`), which
  is counting.  `RespawnAll` is a recursive function; that it has the value its
  equation says, and what each of its steps keeps, is proved by the least player
  for whom it would not be so (`NatLeast`), an induction that needs no theorem with
  an operator for a parameter.
* **`HostProofs`**.  The storage queue (`StorageInv`): retained images of a path
  are ordered by age; a file is as old as an image that was written and no newer than
  the ones that were not; `pending` splits the list into handled and waiting
  images; the worker is where `current` says; while the success flags are
  inspected no worker exists; and `cursor`/`allSaved` summarise the part of the
  list shutdown has passed.  None of the public properties is inductive alone:
  that a file never regresses needs the order of the list, and durability needs
  both.  From it follow `NoLostWakeup`, `JoinedBeforeInspection`,
  `FilesNeverRegress`, `SavedMeansDurable`, and the refinement
  `Spec => StoreSpec`, where every action maps to a step of `SaveStore` or to a
  stutter.
  The sound chip: `SoundInv` ties the mutex to the two program counters: its
  count is what the guest has locked, or one while the callback renders, and a
  wait that was given up is remembered until the next callback.  The loop: `LoopInv` has
  the link up wherever a started match is in the loop, and a raster owed only
  between a frame and its raster.
* **`FalconHostProofs`** (`HostInv`).  A guard never stands behind a timer of
  SMW's that it could lift (`TimerInv`); the slots a guard may protect are slots
  that the move in the ledger took, except before the tick that forgets them
  (`AcceptedInv`); what stands behind a timer that the bridge installed is a guard
  of this frame (`GuardInv`); and the latch of a catch is the catch that is owed
  (`LatchInv`).  While a catch is latched and nothing has taken its sprite's place
  (`stands`), the slot still holds the caught kind (`StandsInv`), so that the throw,
  which looks at slot and id, strikes it.  All three properties of the run follow,
  for any number of sprite slots and any kinds in them.
* **`FalconSeamsProofs`**.  `ShowInv`: until a frame is rastered its player is
  taken out only if there is something to draw, and is there only if there is
  nothing or the PPU refused; and while a fall is latched as many of its pictures
  have passed as its frame counts.  `WallInv`: the place a
  latch or a tick began on is ground that the net remembers, a latched player
  ends in the column of the latch, no latch is left where a level is entered,
  and a hazard is remembered for two notes less with every calm tick.  `PadInv` relates the few fields of the double tap to
  the whole history of ticks: the first tap is in the history at its age, and
  nothing that would have ended it came since (`FirstTap`).  `BlockInv` says what
  an open block field is worth: of a move that may sweep again, the field and the
  calls since a block was proved to it make up at most the field's length; any
  other move with an open field has broken something and is done (`FieldIsOwed`).
  That holds because a strike that sweeps as a kick though its state is another's
  has a tile of the level in its hitbox, which the sweep then breaks
  (`ContinuationBreaks`).  That no tile is broken twice is a count: whatever the
  player's offset on the tiles, everything a call can break lies in a few
  rectangles of columns and rows, of at most 63 tiles together (`Reach`,
  `ReachCount`, `SweepInReach`, `CraterInReach`), and 64 are remembered.
* **`FalconFighterProofs`**.  `FighterInv` is about a frame's hand-over: the
  state suits the footing (`Suits`), and the fields have the ranges in which the
  next tick keeps them (`Ready`); inside a frame the weaker `Sound` holds, and
  each of the functions that `falcon_tick` and `falcon_resolve` call is a lemma
  from one to the other.  `CuesInv`: in a special the cues that were heard are
  those its frame has passed (`Told`).  `MovesAreAbstracted` is the
  refinement: every tick of the fighter is a step of `FalconMoves` or leaves it
  as it is, so what `FalconHost` proves over `FalconMoves` holds of the fighter.
* **`CoopPartsProofs`**.  `InputInv` (`LatchCovers` with the types) gives
  `ActsWhenPressed`.  `SavesInv`: a file is of one frame throughout, and between
  the parts of a load the machine is the session's and what is staged is of the
  file's frame, then of the guest's; `StateIsWhole` follows for any history of
  saves, damage, loads and refusals.  `ReturnInv`: the place that was found is
  safe; that the probes of `coop_terrain_safe`, a few per body, see every block
  column and row the body covers is the lemma `ClearEverywhere`.  `FocusInv`: the
  framing the session knows at the end of a frame is of the players in play and
  where they are, unless somebody was left behind or came back since; and while
  nothing but deaths happened the focus was last moved from that framing or the
  team has lost somebody since, which gives `DeathKeepsView`.  `FireInv`:
  every shot is in one of the players' banks or the guest's slots or has ended,
  and what a foe has answered is told by the identity in `damaged`.  `StreamInv`:
  `rate * frames = second * shots + credit`, which is the accumulator's loop
  invariant, and the counts of a tick half done.
* **`CoopKeptProofs`**.  `ClipsKept`: the bytes on the account are the number of
  the samples that stored clips have, counted as a set, and each voice plays a
  clip that is stored.  `MouthsKept`: the claims and the bites of a frame are
  settled along functions that recur on the claim's place, and the first claim
  that would break the property contradicts the ones before it.

What the proofs corrected.  Three modules were wrong where no run of theirs had
shown it.  `FalconWall` did not let the net step in at every seam where the code
calls `smw_falcon_restore_wall_safe_ground` (`falcon_smw_adapter.c:717`, `1075`,
`1168`), so that an invariant held which the code does not keep.  In `FalconPad`
the history of taps ended a first tap at any other direction, while the code
swallows a direction that is held since a turn and keeps the tap; `TapsMatch`
cannot be carried past such a tick, and with a window of two frames no run
reaches it, with three one does.
`FalconBlocks` chose the state a strike breaks blocks for by a `CASE` whose guards
overlapped: TLC takes the first that holds, the semantics any of them.

**Only model-checked.**

* Liveness: `StorageProgress`, `SessionEnds`, `WaitEnds`,
  `AnimatedFailureReachesLoader`.  Fairness is beyond the prover.
* What a fold with an operator parameter computes, which needs induction over data:
  `LoopComputesResolve` (the sorted loop), `NothingIgnored` and `SavedComesBack`
  (the reader's fold over a file), `ChoicesSurvive` (merging a file's lines) and
  the script's meaning in `InputsReachTheGame`.  (A function that recurs on a number is within reach: a
  least number where the claim fails is a contradiction.  `RespawnAll` is proved so.)
* The pads' half of `InputsReachTheGame`, whose invariant would have to follow
  SDL's queue.

## 5. Plan

What is left is proof.

1. `HostPads`: which buttons stay latched, with the queue's contents in the invariant.
2. `CoopResolve` and `CoopSnapshot`: the loop and the reader as functions on a
   number instead of folds, which brings them within reach of the prover.

## 6. Not modelled

**Left out whole.**  Generated and vendored code (`recomp/`, `variables.h`,
`third_party/`, `tools/`, `packages/`), pixel output (`smw_renderer*.c`,
`opengl.c`, `falcon_presentation.c`), the launcher's windows and platform code are
I/O or data tables without protocol.  `coop_patch.c` is a pure function on
the ROM's bytes that runs before anything else.  The guest's own code is
external; the models let it do anything the host code can observe.

**Left out of modelled parts.**  Allocation failure, which stops the program.
The framework's save format around the game's part, rollback and the netplay
library, which are external.  Pause commands of the Lua console and the debugger
in a match.  Include files of `config.ini`, the growth of the button map's
table and syntax errors. Score, sounds and sprite-specific effects of combat.  The sticks and the
keyboard of `HostPads`, whose state is read and not latched.

**Disagreements met while modelling, without a run of their own.**  Each is a
place where the code and a text about it differ, or where a reader may be
surprised; the models follow the code.

* `note_wall_safety_context` runs at two seams of a tick, so that the "12 frames"
  of wall safety last six; the kick's block field likewise counts seams.
* A rescue from a wall death leaves stale impact slots guarding for a frame
  (`GuardedContactIsOwed` exempts it).
* The moment a connection's wait began is a static (`main.c:2736`) that survives
  a match that ended in it, so that a rematch may time out at once.
* A turbo frame that is not presented rasters without asking `SmwCoopFrozen`
  (`main.c:2299-2317`), though `docs/NATIVE_COOP.md:304-305` has a blocked team
  advance nothing.
* A rematch does not run the reset vector again (`smw_rtl.c:83-91`), while
  `main.c:1732-1733` says it "is a cold emulation session".
* The automatic state is reloaded only if a mode has been chosen already
  (`main.c:1976-1981`), which with co-op enabled it has not at boot, while the
  comment on `Autosave` says "reload on start".
* With more pads than seats a device in a seat can be replaced by one whose player
  index is that seat (`main.c:2974-2983` does not ask whether the seat is empty):
  three devices arrive, the second leaves before it is opened, so that the third
  gets its seat, and when the second comes back with the index 2 it takes the
  seat.  The buttons held on the replaced device stay set until its successor
  releases them, though `docs/NATIVE_COOP.md:305` says "Inputs must not remain
  latched through reassignment."  `NothingLatched` of `HostPads` says so much, and
  TLC refutes it with the constants of `CoopParts.cfg`; `OnlyTheReplacedLatch`,
  which that run checks, has this as the one exception.  A seat that falls free
  while another pad is waiting may stay empty.
* A setting's choice is lost on the next boot when `config.ini` names it in a
  comment before the line that sets it, or sets it in a later piece of a section
  that is there twice: `WriteConfigFile` rewrites the first line it meets, comments
  included, and leaves the later one, which wins when the file is read
  (`config.c:721-734`), while the comment at `config.c:578-591` has it rewrite the
  keys "so the chosen settings survive the next boot".  `EveryChoiceSurvives` of
  `HostConfig` says so much, and TLC refutes it with the files of the `parts` run;
  `ChoicesSurvive`, which the run checks, says of every setting which value comes
  back.
* A throw looks at the slot and at the sprite's id (`combat_apply.c:969-970`),
  and a sprite of the same id that has taken the slot is struck for the caught
  one, while `docs/falcon_combat_bridge.md:49-50` says that "a dead or reused slot
  cannot be struck".  `ReusedSlotIsSpared` of `FalconHost` says so much, and TLC
  refutes it with the constants of `FalconHost.cfg`; `ThrowDefeatsTheCaught`
  says what holds instead.
* If one actor grabs a sprite and another one bounces off it in the same frame, the
  program ends: `commit_contact` looks at the status that the grab has changed and
  claims the sprite for the second actor (`coop_simulation.c:1126`, `203-204`).
  Whether the guest ever gives two actors these answers for one sprite is not
  decided by this repository; `CoopContacts` lets it.  The contacts are those of
  one slot: an actor whose hands are full is the guest's to recognise.
* A grounded fighter who pushes at a wall he has not run into is stopped there,
  but the latch taken for it does not last: the adapter neutralises the stick and
  then, in the same tick, releases the latch because the stick is neutral
  (`falcon_smw_adapter.c:799-813`), while the comment at lines 786-790 speaks of
  "the same held-wall state installed after an approach collision".
* The ground that the wall safety remembers outlives the level it was seen in: no
  handoff or change of level clears `s_wall_safety_*` while Falcon is active, only a
  state load or another controller.  A level is entered through frames of another
  mode than play, which is what releases the step latch; the model's `EnterLevel`
  has one such frame.
* A window scale of 0, never set, is written as 3 (`config.c:664`).  A remark that
  begins with a setting's name is replaced by its value (`config.c:578-591` says
  so), and what `config.local.ini` overrode is copied into it (`main.c:1199-1201` has it
  leave the checked-in file alone).
* A key released while other modifiers are held than at its press leaves turbo
  on.
* `TickScript` and `CaptureLocalNetplayButtons` load states without asking
  whether a match is running.
* `smw_falcon_audio_reset` is not called on a load, while
  `docs/falcon_audio_bridge.md:38-39` says it is.
* A second death before control is regained is drawn hidden (`FalconShow`'s
  latch), and pipes and goals do not keep native Mario visible as
  `docs/falcon_owner_cache_runtime.md:39` says.
* A rider returning on a mount is tested for footing at its two outer edges
  only; a gap of one tile between them is accepted.
