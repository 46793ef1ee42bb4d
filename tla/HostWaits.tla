------------------------------ MODULE HostWaits ------------------------------
(* The three places where the host waits: the save queue with its worker   *)
(* thread, the main loop with the barrier of its match, and the guest      *)
(* thread that waits for the sound device.  They share no state, so a      *)
(* behaviour runs one of them while the others stay in an initial state.   *)
EXTENDS CoopStorage

CONSTANTS ConnectTimeout, PeerTimeout, RenderEvery,    \* HostLoop
          HighWater, Deepest                           \* HostAudio

(* Of the turbo frames one in RenderEvery is drawn.                        *)
ASSUME RenderAssumption == RenderEvery \in Nat \ {0}

VARIABLES
  part,
  at, host, net, peer, wait, seats, coop, guest, ghost,            \* Loop
  pc, mutex, depth, producer, stalled, counted, queued, device, late, missed

loop == <<at, host, net, peer, wait, seats, coop, guest, ghost>>
chip == <<pc, mutex, depth, producer, stalled, counted, queued, device, late,
          missed>>

Loop == INSTANCE HostLoop

Chip == INSTANCE HostAudio

-----------------------------------------------------------------------------
BenchInit ==
  /\ part \in {"storage", "loop", "chip"}
  /\ Init /\ Loop!Init /\ Chip!Init
  /\ part # "loop" => ~host.autosave /\ ~net.lobby /\ ~coop.on

BenchNext ==
  /\ part' = part
  /\ \/ part = "storage" /\ Next      /\ UNCHANGED <<loop, chip>>
     \/ part = "loop"    /\ Loop!Next /\ UNCHANGED <<vars, chip>>
     \/ part = "chip"    /\ Chip!Next /\ UNCHANGED <<vars, loop>>

(* The fairness of the parts.  Those that stand still owe no step.         *)
BenchFairness ==
  /\ Fairness
  /\ WF_loop(part = "loop" /\ Loop!Step)
  /\ WF_chip(part = "chip" /\ Chip!TimePasses)
  /\ SF_chip(part = "chip" /\ Chip!GuestWakes)
  /\ WF_chip(part = "chip" /\ Chip!Callback)

BenchSpec == BenchInit /\ [][BenchNext]_<<part, vars, loop, chip>> /\ BenchFairness

-----------------------------------------------------------------------------
(* HostLoop: the frames of a match and their rasters.                      *)
FramesOfTheMatch == part = "loop" => Loop!FramesOfTheMatch

(* HostLoop: a match without its peer and a closed window end the session. *)
SessionEnds == Loop!SessionEnds

(* HostAudio: nobody who waits holds what the consumer needs, and a lost   *)
(* device costs one wait.                                                  *)
ConsumerMayRun == part = "chip" => Chip!ConsumerMayRun

(* HostAudio: the guest's wait for the callback ends.                      *)
WaitEnds == Chip!WaitEnds
=============================================================================
