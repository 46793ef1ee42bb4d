----------------------------- MODULE HostAudio ------------------------------
(* The guest thread and the audio callback (main.c): both use the sound    *)
(* chip under one recursive mutex, and the guest, which produces, waits    *)
(* for the callback, which consumes, when too much is queued.  The device  *)
(* may stop calling back for good.  Whether a thread produces, how deep it *)
(* holds the mutex and whether its consumer stalled are thread-local.      *)
(* RtlRenderAudio is external: it locks, consumes a block and unlocks      *)
(* through the same pair of functions.                                     *)
EXTENDS Naturals

CONSTANTS
  HighWater,   \* HOST_AUDIO_HIGH_WATER, in blocks
  Deepest      \* how deep the guest nests the lock

VARIABLES
  pc,        \* per thread: where it is
  mutex,     \* g_audio_mutex: its owner and how often it holds it
  depth,     \* per thread, g_apu_lock_depth
  producer,  \* per thread, g_audio_producer_active
  stalled,   \* per thread, g_audio_consumer_stalled
  counted,   \* g_audio_callback_count has moved since it was remembered
  queued,    \* dsp_available, in blocks
  device,    \* whether the device still calls back
  late,      \* the 250 milliseconds of this wait are over
  missed     \* waits given up since the last callback

vars == <<pc, mutex, depth, producer, stalled, counted, queued, device, late,
          missed>>

Threads == {"guest", "audio"}
Free == [by |-> "none", times |-> 0]

Init ==
  /\ pc = [t \in Threads |-> "idle"] /\ mutex = Free
  /\ depth = [t \in Threads |-> 0]
  /\ producer = [t \in Threads |-> FALSE]
  /\ stalled = [t \in Threads |-> FALSE]
  /\ counted = FALSE /\ queued = 0 /\ device = TRUE /\ late = FALSE
  /\ missed = 0

----------------------------------------------------------------------------
(* The mutex.                                                              *)

CanLock(t) == mutex.by \in {"none", t}
Held(t) == [by |-> t, times |-> mutex.times + 1]
Let(t) == IF mutex.times = 1 THEN Free ELSE [mutex EXCEPT !.times = @ - 1]

(* RtlApuUnlock: the outermost unlock of a producer whose consumer is not  *)
(* known to have stalled waits for the queue to drain.  A callback since   *)
(* the last wait that was given up ends the stall.                         *)

(* Mutant: a wait at any depth.                                            *)
WaitsAtAnyDepth(t) == producer[t] /\ ~(stalled[t] /\ ~counted)

MayWait(t) == depth[t] = 1 /\ producer[t] /\ ~(stalled[t] /\ ~counted)

StallAfter(t) == stalled[t] /\ ~(depth[t] = 1 /\ producer[t] /\ counted)

RtlApuLock(t, then) ==
  /\ CanLock(t) /\ mutex' = Held(t)
  /\ depth' = [depth EXCEPT ![t] = @ + 1]
  /\ pc' = [pc EXCEPT ![t] = then]
  /\ UNCHANGED <<producer, stalled, counted, device, late, missed>>

RtlApuUnlock(t, then) ==
  /\ depth' = [depth EXCEPT ![t] = @ - 1]
  /\ stalled' = [stalled EXCEPT ![t] = StallAfter(t)]
  /\ mutex' = Let(t)
  /\ pc' = [pc EXCEPT ![t] = IF MayWait(t) /\ queued > HighWater
                             THEN "delay" ELSE then]
  /\ late' = FALSE
  /\ UNCHANGED <<producer, counted, queued, device, missed>>

(* Mutant: the wait is for the queue, however long it takes.               *)
NeverGivesUp == FALSE

GivesUp == late

(* SDL_Delay is over: the mutex is taken again, and time and queue are     *)
(* looked at in this order.                                                *)
Wake(t, then) ==
  /\ pc[t] = "delay" /\ CanLock(t)
  /\ IF GivesUp
     THEN /\ stalled' = [stalled EXCEPT ![t] = TRUE]
          /\ producer' = [producer EXCEPT ![t] = FALSE]
          /\ counted' = FALSE /\ missed' = missed + 1
     ELSE UNCHANGED <<stalled, producer, counted, missed>>
  /\ pc' = [pc EXCEPT ![t] = IF ~GivesUp /\ queued > HighWater
                             THEN "delay" ELSE then]
  /\ UNCHANGED <<mutex, depth, queued, device, late>>

TimePasses ==
  /\ \E t \in Threads : pc[t] = "delay"
  /\ ~late /\ late' = TRUE
  /\ UNCHANGED <<pc, mutex, depth, producer, stalled, counted, queued, device,
                 missed>>

----------------------------------------------------------------------------
(* The guest thread: the loop says whether it produces (neither turbo nor  *)
(* a match, and a device), the frame uses the chip, and then it does not.  *)

FrameStarts ==
  /\ pc["guest"] = "idle"
  /\ pc' = [pc EXCEPT !["guest"] = "frame"]
  /\ \E paced \in BOOLEAN : producer' = [producer EXCEPT !["guest"] = paced]
  /\ UNCHANGED <<mutex, depth, stalled, counted, queued, device, late, missed>>

FrameEnds ==
  /\ pc["guest"] = "frame" /\ depth["guest"] = 0
  /\ pc' = [pc EXCEPT !["guest"] = "idle"]
  /\ producer' = [producer EXCEPT !["guest"] = FALSE]
  /\ UNCHANGED <<mutex, depth, stalled, counted, queued, device, late, missed>>

GuestLocks ==
  /\ pc["guest"] = "frame" /\ depth["guest"] < Deepest
  /\ RtlApuLock("guest", "frame") /\ UNCHANGED queued

(* The chip is run; what the queue cannot hold is dropped.                 *)
GuestProduces ==
  /\ pc["guest"] = "frame" /\ depth["guest"] > 0
  /\ queued' = IF queued > HighWater THEN queued ELSE queued + 1
  /\ UNCHANGED <<pc, mutex, depth, producer, stalled, counted, device, late,
                 missed>>

GuestUnlocks ==
  /\ pc["guest"] = "frame" /\ depth["guest"] > 0
  /\ RtlApuUnlock("guest", "frame")

GuestWakes == Wake("guest", "frame")

----------------------------------------------------------------------------
(* FillAudioBuffer: count, and let go of the mutex around the rendering.   *)

CallbackStarts ==
  /\ pc["audio"] = "idle" /\ device /\ CanLock("audio")
  /\ mutex' = Held("audio")
  /\ counted' = TRUE /\ missed' = 0
  /\ pc' = [pc EXCEPT !["audio"] = "counted"]
  /\ UNCHANGED <<depth, producer, stalled, queued, device, late>>

CallbackLetsGo ==
  /\ pc["audio"] = "counted" /\ mutex' = Let("audio")
  /\ pc' = [pc EXCEPT !["audio"] = "render"]
  /\ UNCHANGED <<depth, producer, stalled, counted, queued, device, late, missed>>

CallbackRenders ==
  /\ pc["audio"] = "render" /\ RtlApuLock("audio", "rendering")
  /\ queued' = IF queued = 0 THEN 0 ELSE queued - 1

CallbackRendered == pc["audio"] = "rendering" /\ RtlApuUnlock("audio", "copy")

(* The mutex is taken again, the block copied, and the mutex let go.       *)
CallbackEnds ==
  /\ pc["audio"] = "copy" /\ CanLock("audio")
  /\ pc' = [pc EXCEPT !["audio"] = "idle"]
  /\ UNCHANGED <<mutex, depth, producer, stalled, counted, queued, device, late,
                 missed>>

DeviceLost ==
  /\ device /\ device' = FALSE
  /\ UNCHANGED <<pc, mutex, depth, producer, stalled, counted, queued, late,
                 missed>>

Callback == \/ CallbackStarts \/ CallbackLetsGo \/ CallbackRenders
            \/ CallbackRendered \/ CallbackEnds

Next ==
  \/ FrameStarts \/ FrameEnds \/ GuestLocks \/ GuestProduces \/ GuestUnlocks
  \/ GuestWakes \/ Callback \/ TimePasses \/ DeviceLost

(* Time passes, a guest that may have the mutex again and again gets it    *)
(* (it asks after every millisecond of delay), and the audio thread runs   *)
(* when nothing holds it up.                                               *)
Fairness == WF_vars(TimePasses) /\ SF_vars(GuestWakes) /\ WF_vars(Callback)

Spec == Init /\ [][Next]_vars /\ Fairness

----------------------------------------------------------------------------
(* Nobody waits for the consumer while holding what the consumer needs,    *)
(* and the consumer never waits for itself: only the guest thread may      *)
(* wait, and it must release the consumer's mutex (main.c:590-594).        *)
WaitsEmptyHanded ==
  \A t \in Threads :
    pc[t] = "delay" => t = "guest" /\ mutex.by # t /\ depth[t] = 0

(* A lost device cannot stall every subsequent access to the chip: once a  *)
(* wait was given up, nobody waits again before a callback has run         *)
(* (RtlApuUnlock, main.c:609-641).                                         *)
OneWaitPerLoss ==
  missed < 2 /\ (missed = 1 => \A t \in Threads : pc[t] # "delay")

(* The consumer can always run, and its loss costs one wait: the two above. *)
ConsumerMayRun == WaitsEmptyHanded /\ OneWaitPerLoss

(* The guest's wait ends, whether the device plays on or is gone.          *)
WaitEnds == pc["guest"] = "delay" ~> pc["guest"] # "delay"
=============================================================================
