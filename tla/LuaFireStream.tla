--------------------------- MODULE LuaFireStream ---------------------------
(* The fireballs a Lua script asks for (lua_fire_stream.c): a pool of shots *)
(* beside the guest's own, each moved by the guest's routine on a private   *)
(* copy of memory, of which only the lasting consequences are copied back. *)
(* The routine is external: a shot flies, ends, burns a foe that the copy   *)
(* still has alive, or touches memory that it may not.  Where shots are and *)
(* how they look, and the player's power and pose, are left out.            *)
EXTENDS Integers, FiniteSets

CONSTANTS
  Pool,      \* POOL_SIZE
  MaxAge,    \* 600 updates in the code
  Second,    \* frames in a second
  Rates,     \* what a script asks for per second, 0 being a stop
  Foes       \* normal sprite slots

VARIABLES
  game,      \* of the live memory: in a level, frozen, player busy ($71)
  foe,       \* what is in a slot: "none", "alive" or "burnt" (the coin, $21)
  pool,      \* slot -> updates left, 0 being a free slot
  rate, credit, active, failed,
  at,        \* the slot whose shot is next in this tick, 0 between ticks
  shadow,    \* the foes in the private copy of memory
  ghost      \* frames and shots of this second; shots spent and foes taken
             \* in this tick

vars == <<game, foe, pool, rate, credit, active, failed, at, shadow, ghost>>

Slots == 1 .. Pool
Nothing == [i \in Slots |-> 0]
Life == MaxAge + 1
Second0 == [run |-> 0, fired |-> 0, spent |-> 0, taken |-> 0]

Games == [level : BOOLEAN, frozen : BOOLEAN, busy : BOOLEAN]

smw_fire_stream_init ==
  /\ pool = Nothing /\ rate = 0 /\ credit = 0 /\ active = 0
  /\ failed = FALSE /\ ghost = Second0

Init ==
  /\ game = [level |-> FALSE, frozen |-> FALSE, busy |-> FALSE]
  /\ foe = [f \in Foes |-> "none"]
  /\ at = 0 /\ shadow = foe
  /\ smw_fire_stream_init

(* The guest's frame: anything may have changed.                            *)
Game ==
  /\ at = 0 /\ game' \in Games
  /\ foe' \in [Foes -> {"none", "alive"}]
  /\ UNCHANGED <<pool, rate, credit, active, failed, at, shadow, ghost>>

----------------------------------------------------------------------------
(* The commands of a script.                                                *)
fire_stream(n) ==
  /\ at = 0 /\ ~failed
  /\ rate' = n /\ credit' = 0 /\ ghost' = Second0
  /\ UNCHANGED <<game, foe, pool, active, failed, at, shadow>>

fire_stream_reset ==
  /\ at = 0
  /\ pool' = Nothing /\ rate' = 0 /\ credit' = 0 /\ active' = 0
  /\ failed' = FALSE /\ ghost' = Second0
  /\ UNCHANGED <<game, foe, at, shadow>>

----------------------------------------------------------------------------
(* A tick begins.  The rate is shared out over the frames of a second; what *)
(* the pool cannot take is dropped.                                         *)
Fires == rate > 0 /\ ~game.busy
Count == IF Fires THEN (credit + rate) \div Second ELSE 0

spawn(n) ==
  LET Free(i) == {j \in 1 .. i : pool[j] = 0}
  IN  [i \in Slots |-> IF pool[i] = 0 /\ Cardinality(Free(i)) <= n
                       THEN Life ELSE pool[i]]

(* Frames and shots of the current second.                                  *)
Counted ==
  IF ~Fires THEN ghost
  ELSE IF ghost.run + 1 = Second
  THEN [ghost EXCEPT !.run = 0, !.fired = @ + Count - rate]
  ELSE [ghost EXCEPT !.run = @ + 1, !.fired = @ + Count]

LeftLevel ==
  /\ at = 0 /\ ~failed /\ ~game.level
  /\ pool' = Nothing /\ active' = 0 /\ credit' = 0 /\ ghost' = Second0
  /\ UNCHANGED <<game, foe, rate, failed, at, shadow>>

Tick ==
  /\ at = 0 /\ ~failed /\ game.level /\ ~game.frozen
  /\ rate > 0 \/ active > 0
  /\ at' = 1 /\ shadow' = foe /\ active' = 0
  /\ credit' = IF Fires THEN (credit + rate) % Second ELSE credit
  /\ pool' = spawn(Count)
  /\ ghost' = [Counted EXCEPT !.spent = 0, !.taken = 0]
  /\ UNCHANGED <<game, foe, rate, failed>>

(* The shots move one after the other over the same copy of memory.         *)
NoShot ==
  /\ pool[at] = 0 /\ UNCHANGED <<pool, active, shadow, ghost>>

Flies ==
  /\ pool[at] > 0 /\ pool' = [pool EXCEPT ![at] = @ - 1]
  /\ active' = IF pool[at] > 1 THEN active + 1 ELSE active
  /\ UNCHANGED <<shadow, ghost>>

Ends ==
  /\ pool[at] > 0 /\ pool' = [pool EXCEPT ![at] = 0]
  /\ UNCHANGED <<active, shadow, ghost>>

Burns(f) ==
  /\ pool[at] > 0 /\ shadow[f] = "alive"
  /\ pool' = [pool EXCEPT ![at] = 0] /\ shadow' = [shadow EXCEPT ![f] = "burnt"]
  /\ ghost' = [ghost EXCEPT !.spent = @ + 1]
  /\ UNCHANGED active

update ==
  /\ at \in Slots /\ at' = at + 1
  /\ NoShot \/ Flies \/ Ends \/ \E f \in Foes : Burns(f)
  /\ UNCHANGED <<game, foe, rate, credit, failed>>

(* A tick that fails changes nothing of the guest's foes.                   *)
fault ==
  /\ at \in Slots /\ pool[at] > 0
  /\ failed' = TRUE /\ rate' = 0 /\ at' = 0
  /\ UNCHANGED <<game, foe, pool, credit, active, shadow, ghost>>

CopyBack ==
  /\ at = Pool + 1 /\ at' = 0 /\ foe' = shadow
  /\ ghost' = [ghost EXCEPT
       !.taken = Cardinality({f \in Foes : shadow[f] = "burnt" /\ foe[f] # "burnt"})]
  /\ UNCHANGED <<game, pool, rate, credit, active, failed, shadow>>

Next == Game \/ (\E n \in Rates : fire_stream(n)) \/ fire_stream_reset
          \/ LeftLevel \/ Tick \/ update \/ fault \/ CopyBack

Spec == Init /\ [][Next]_vars

----------------------------------------------------------------------------
(* A script gets the rate it asked for: over the frames in which shots are  *)
(* fired or dropped, whatever freezes between them, every second has as     *)
(* many as were asked for, and no part of one is early or late.             *)
RateKept == ~failed => ghost.fired = (rate * ghost.run) \div Second

(* A stream that was stopped goes on until the last shot has ended: the     *)
(* count that keeps it ticking is the pool's (smw_fire_stream_tick).        *)
NoShotIsForgotten ==
  at = 0 /\ ~failed => active = Cardinality({i \in Slots : pool[i] > 0})

(* Every shot that was spent on a foe has taken one of its own.             *)
ShotsTakeFoes == at = 0 /\ ~failed => ghost.spent = ghost.taken

StreamKept == RateKept /\ NoShotIsForgotten /\ ShotsTakeFoes
============================================================================
