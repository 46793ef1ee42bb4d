------------------------------ MODULE HostLoop ------------------------------
(* The host's main loop (main.c): one process that plays local sessions    *)
(* and netplay matches, goes back to the lobby between matches and boots   *)
(* the emulated console again for a rematch.  Modelled are the event loop, *)
(* the pause and turbo flags, the netplay barrier with its two timeouts,   *)
(* the co-op controller check that freezes a session, the guest frame and  *)
(* its raster, and the way out.  The netplay library is external: a link   *)
(* that is off, waiting or running, a peer that may fall silent or out of  *)
(* step.  Time is counted in turns of the barrier, up to the timeouts.     *)
EXTENDS Naturals, FiniteSets

CONSTANTS
  ConnectTimeout,   \* SMW_NETPLAY_CONNECT_TIMEOUT_MS, in turns
  PeerTimeout,      \* SMW_NETPLAY_PEER_TIMEOUT_MS, in turns
  RenderEvery       \* a turbo frame is presented once in so many

VARIABLES
  at,      \* where the main thread is
  host,    \* the loop's flags
  net,     \* the match: g_netplay_* and the library's own state
  peer,    \* the other player's process
  wait,    \* connect_wait_started_ms: unset, or how long ago it was set
  seats,   \* the seats with a controller or keyboard (GetActiveControllers)
  coop,    \* coop_runtime's flags
  guest,   \* what the emulated console holds
  ghost    \* what the properties ask about

vars == <<at, host, net, peer, wait, seats, coop, guest, ghost>>

Unset == ConnectTimeout + 1
Seats == {1, 2}

Init ==
  /\ at = "boot"
  /\ \E autosave \in BOOLEAN :
       host = [running |-> TRUE, turbo |-> FALSE, paused |-> FALSE,
               autosave |-> autosave, frames |-> 0]
  /\ \E match \in BOOLEAN :
       net = [link |-> "off", pending |-> match, lobby |-> match,
              started |-> FALSE, toLobby |-> FALSE]
  /\ peer = [alive |-> TRUE, unheard |-> 0, desync |-> FALSE]
  /\ wait = Unset
  /\ seats = Seats
  /\ \E on \in BOOLEAN, count \in {0, 2} :
       /\ count = 2 => on
       /\ coop = [on |-> on, count |-> count, choosing |-> FALSE,
                  files |-> FALSE, frozen |-> FALSE]
  /\ guest = [reset |-> FALSE, level |-> FALSE]
  /\ ghost = [quit |-> FALSE, ran |-> FALSE]

Active == net.link # "off"                            \* snes_netplay_active
CoopActive == coop.on /\ coop.count > 1
PersistenceReady == ~coop.on \/ (coop.count > 0 /\ ~coop.choosing)

(* The match is over: the library shuts down, and a match that came from   *)
(* the lobby asks to go back there.                                        *)
Left(n) == [n EXCEPT !.link = "off", !.toLobby = @ \/ n.lobby]

----------------------------------------------------------------------------
(* session_reboot and what follows it, up to the loop.  A session starts   *)
(* with nothing held and nothing paused; the automatic state is loaded     *)
(* unless a match is due; a match that cannot start ends the session.      *)
(* The emulated console is a new one; RunOneFrameOfGame's two flags are    *)
(* not part of it.                                                         *)

Reloads == host.autosave /\ PersistenceReady /\ ~net.pending

Boot(starts) ==
  /\ at = "boot"
  /\ starts => net.pending
  /\ at' = IF starts \/ ~net.pending THEN "events" ELSE "closing"
  /\ guest' = [guest EXCEPT !.level = Reloads]
  /\ net' = IF ~net.pending THEN [net EXCEPT !.started = FALSE]
            ELSE IF starts
            THEN [net EXCEPT !.link = "waiting", !.started = TRUE,
                             !.pending = FALSE]
            ELSE [Left(net) EXCEPT !.started = FALSE, !.pending = FALSE]
  /\ host' = [host EXCEPT !.turbo = FALSE, !.paused = FALSE, !.frames = 0,
                          !.running = starts \/ ~net.pending]
  /\ peer' = [alive |-> TRUE, unheard |-> 0, desync |-> FALSE]
  /\ UNCHANGED <<wait, seats, coop, ghost>>

----------------------------------------------------------------------------
(* The loop's own events.  Escape leaves a match; turbo, pause, reset and  *)
(* the state keys act only outside one, and the state keys only once the   *)
(* co-op mode is chosen.  In a match a state key goes to the library,      *)
(* which loads on both sides or not at all (external).                     *)

AtEvents == at = "events" /\ UNCHANGED at

(* Mutant: the loop goes on after the match was left.                      *)
EscapeStays ==
  /\ AtEvents /\ Active
  /\ net' = Left(net)
  /\ UNCHANGED <<host, peer, wait, seats, coop, guest, ghost>>

Escape ==
  /\ AtEvents /\ Active
  /\ net' = Left(net)
  /\ host' = [host EXCEPT !.running = FALSE]
  /\ UNCHANGED <<peer, wait, seats, coop, guest, ghost>>

Quit ==
  /\ AtEvents
  /\ net' = IF Active THEN Left(net) ELSE net
  /\ host' = [host EXCEPT !.running = FALSE]
  /\ ghost' = [ghost EXCEPT !.quit = TRUE]
  /\ UNCHANGED <<peer, wait, seats, coop, guest>>

KeyTurbo(pressed) ==
  /\ AtEvents /\ ~Active
  /\ host' = [host EXCEPT !.turbo = pressed]
  /\ UNCHANGED <<net, peer, wait, seats, coop, guest, ghost>>

KeyPause ==
  /\ AtEvents /\ ~Active
  /\ host' = [host EXCEPT !.paused = ~@]
  /\ UNCHANGED <<net, peer, wait, seats, coop, guest, ghost>>

(* RtlReset clears the console but does not reach RunOneFrameOfGame.       *)
KeyReset ==
  /\ AtEvents /\ ~Active
  /\ coop' = IF coop.on
             THEN [coop EXCEPT !.files = FALSE, !.choosing = FALSE,
                               !.frozen = FALSE]
             ELSE coop
  /\ guest' = [guest EXCEPT !.level = FALSE]
  /\ UNCHANGED <<host, net, peer, wait, seats, ghost>>

(* A restored co-op session is past its menus (SmwCoopStateLoaded).        *)
Restored ==
  /\ guest' = [guest EXCEPT !.level = TRUE]
  /\ coop' = IF CoopActive
             THEN [coop EXCEPT !.choosing = FALSE, !.frozen = FALSE,
                               !.files = TRUE]
             ELSE coop

KeyLoad ==
  /\ AtEvents /\ ~Active /\ PersistenceReady
  /\ Restored
  /\ UNCHANGED <<host, net, peer, wait, seats, ghost>>

Plug(s) ==
  /\ seats' = IF s \in seats THEN seats \ {s} ELSE seats \union {s}
  /\ UNCHANGED <<host, net, peer, wait, coop, guest, ghost>>

PadEvent(s) == AtEvents /\ Plug(s)

(* The queue is empty; a paused session goes round again.                  *)
EventsDone ==
  /\ at = "events"
  /\ at' = IF ~host.paused THEN "inputs"
           ELSE IF host.running THEN "events" ELSE "closing"
  /\ UNCHANGED <<host, net, peer, wait, seats, coop, guest, ghost>>

(* The debugger's queued state command, then the choice of who admits the  *)
(* frame: the barrier, or nobody.  RtlSaveLoad asks snapshot_allowed       *)
(* itself (external).                                                      *)
Inputs ==
  /\ at = "inputs"
  /\ \/ UNCHANGED <<coop, guest>>
     \/ ~Active /\ PersistenceReady /\ Restored
  /\ at' = IF Active THEN "barrier" ELSE "frame"
  /\ host' = IF Active THEN [host EXCEPT !.turbo = FALSE, !.paused = FALSE]
             ELSE host
  /\ UNCHANGED <<net, peer, wait, seats, ghost>>

----------------------------------------------------------------------------
(* NetplayBarrierAdmit: turns until the frame is admitted or the match is  *)
(* over.  The wait for the connection starts at the first turn that finds  *)
(* none, and is forgotten by the turns that find one.                      *)

Since == IF net.link = "running" THEN Unset
         ELSE IF wait = Unset THEN 0 ELSE wait

TimedOut == net.link = "waiting" /\ Since >= ConnectTimeout /\ Since # Unset
(* Mutant: a match out of step is only stalled.                            *)
PeerLostInStep == peer.unheard >= PeerTimeout /\ ~peer.desync

PeerLost == peer.unheard >= PeerTimeout       \* snes_netplay_peer_disconnected

GiveUp ==
  /\ at' = "closing"
  /\ net' = Left(net) /\ wait' = Unset
  /\ host' = [host EXCEPT !.running = FALSE]
  /\ UNCHANGED <<peer, seats, coop, guest, ghost>>

BarrierTimeout == at = "barrier" /\ TimedOut /\ GiveUp

BarrierPeerLost == at = "barrier" /\ ~TimedOut /\ PeerLost /\ GiveUp

BarrierAdmits ==
  /\ at = "barrier" /\ ~TimedOut /\ ~PeerLost /\ ~peer.desync
  /\ net.link = "running" /\ peer.alive
  /\ wait' = Since /\ at' = "frame"
  /\ UNCHANGED <<host, net, peer, seats, coop, guest, ghost>>

BarrierTurn ==
  /\ at = "barrier" /\ ~TimedOut /\ ~PeerLost
  /\ wait' = Since /\ at' = "barrier events"
  /\ UNCHANGED <<host, net, peer, seats, coop, guest, ghost>>

(* The barrier reads the events itself: the way out and the pads, no keys. *)
BarrierLeave ==
  /\ at = "barrier events"
  /\ net' = Left(net)
  /\ host' = [host EXCEPT !.running = FALSE]
  /\ \E quit \in BOOLEAN : ghost' = [ghost EXCEPT !.quit = @ \/ quit]
  /\ at' = "closing"
  /\ UNCHANGED <<peer, wait, seats, coop, guest>>

BarrierPad(s) == at = "barrier events" /\ UNCHANGED at /\ Plug(s)

(* The turn sleeps: a tick passes, without a word from the peer unless     *)
(* PeerHeard comes before the next turn.                                   *)
Least(a, b) == IF a < b THEN a ELSE b

BarrierAgain ==
  /\ at = "barrier events" /\ at' = "barrier"
  /\ wait' = IF wait = Unset THEN Unset ELSE Least(wait + 1, ConnectTimeout)
  /\ peer' = [peer EXCEPT !.unheard =
       IF net.link = "running" THEN Least(@ + 1, PeerTimeout) ELSE @]
  /\ UNCHANGED <<host, net, seats, coop, guest, ghost>>

----------------------------------------------------------------------------
(* One frame.  SmwCoopHostFrame freezes a co-op level while a seat is      *)
(* empty; in a match both seats count as filled.  RunOneFrameOfGame runs   *)
(* the reset vector on its first call of the process, the interrupt        *)
(* handler on every later one.  The guest's menus may open and close the   *)
(* choice of the number of players (SmwCoopGuestHook) on the way.          *)

Frozen == /\ CoopActive /\ guest.level
          /\ ~Active /\ seats # Seats

(* After the reset vector the guest is at its title; a level needs a mode. *)
RunOneFrameOfGame ==
  /\ \E level \in BOOLEAN :
       /\ level => guest.reset /\ PersistenceReady
       /\ guest' = [reset |-> TRUE, level |-> level]
  /\ ghost' = [ghost EXCEPT !.ran = TRUE]

GuestMenu ==
  \/ coop' = [coop EXCEPT !.frozen = FALSE]
  \/ /\ coop.on /\ ~coop.files /\ ~guest'.level
     /\ coop' = [coop EXCEPT !.frozen = FALSE, !.choosing = TRUE]
  \/ /\ coop.choosing
     /\ \E count \in {1, 2} :
          coop' = [coop EXCEPT !.frozen = FALSE, !.choosing = FALSE,
                               !.count = count, !.files = TRUE]

Frame ==
  /\ at = "frame" /\ at' = "raster"
  /\ IF Frozen
     THEN /\ coop' = [coop EXCEPT !.frozen = TRUE]
          /\ ghost' = [ghost EXCEPT !.ran = FALSE]
          /\ UNCHANGED guest
     ELSE RunOneFrameOfGame /\ GuestMenu
  /\ UNCHANGED <<host, net, peer, wait, seats>>

----------------------------------------------------------------------------
(* The picture.  A turbo frame is presented once in RenderEvery; the ones  *)
(* between still run the raster, which may interrupt the guest.  A frame   *)
(* that is presented asks SmwCoopFrozen before it runs the raster.         *)

Turbo == host.turbo /\ ~Active
Skipped == Turbo /\ (host.frames + 1) % RenderEvery # 0

Rastered == Skipped \/ ~coop.frozen

Raster ==
  /\ at = "raster"
  /\ host' = [host EXCEPT !.turbo = Turbo,
                          !.frames = (@ + 1) % RenderEvery]
  /\ ghost' = [ghost EXCEPT !.ran = @ /\ ~Rastered]
  /\ at' = IF host.running THEN "events" ELSE "closing"
  /\ UNCHANGED <<net, peer, wait, seats, coop, guest>>

----------------------------------------------------------------------------
(* The way out: the automatic state is kept unless the session was a       *)
(* match, the console is freed, and a match from the lobby returns there.  *)

Close ==
  /\ at = "closing"
  /\ net' = [net EXCEPT !.link = "off", !.toLobby = FALSE,
               !.lobby = @ /\ ~net.toLobby,
               !.pending = @ /\ ~net.toLobby,
               !.started = @ /\ ~(net.toLobby /\ net.lobby)]
  /\ at' = IF net.toLobby /\ net.lobby THEN "lobby" ELSE "done"
  /\ guest' = [guest EXCEPT !.level = FALSE]
  /\ UNCHANGED <<host, peer, wait, seats, coop, ghost>>

(* Any time may pass in the lobby.                                         *)
Rematch ==
  /\ at = "lobby" /\ at' = "boot"
  /\ wait' \in {wait, IF wait = Unset THEN Unset ELSE ConnectTimeout}
  /\ net' = [net EXCEPT !.pending = TRUE, !.lobby = TRUE]
  /\ ghost' = [ghost EXCEPT !.quit = FALSE]
  /\ UNCHANGED <<host, peer, seats, coop, guest>>

LeaveLobby ==
  /\ at = "lobby" /\ at' = "done"
  /\ UNCHANGED <<host, net, peer, wait, seats, coop, guest, ghost>>

----------------------------------------------------------------------------
(* The other player's process, the network and the clock.                  *)

Connect ==
  /\ net.link = "waiting" /\ peer.alive
  /\ net' = [net EXCEPT !.link = "running"]
  /\ UNCHANGED <<at, host, peer, wait, seats, coop, guest, ghost>>

PeerStops ==
  /\ Active /\ peer.alive
  /\ peer' = [peer EXCEPT !.alive = FALSE]
  /\ UNCHANGED <<at, host, net, wait, seats, coop, guest, ghost>>

PeerDiverges ==
  /\ net.link = "running" /\ peer.alive /\ ~peer.desync
  /\ peer' = [peer EXCEPT !.desync = TRUE]
  /\ UNCHANGED <<at, host, net, wait, seats, coop, guest, ghost>>

PeerHeard ==
  /\ net.link = "running" /\ peer.alive /\ peer.unheard > 0
  /\ peer' = [peer EXCEPT !.unheard = 0]
  /\ UNCHANGED <<at, host, net, wait, seats, coop, guest, ghost>>

Step == EventsDone \/ Inputs \/ BarrierTimeout \/ BarrierPeerLost
          \/ BarrierAdmits \/ BarrierTurn \/ BarrierAgain \/ Frame \/ Raster
          \/ Close \/ \E starts \in BOOLEAN : Boot(starts)

Events == Escape \/ Quit \/ KeyPause \/ KeyReset \/ KeyLoad \/ BarrierLeave
            \/ (\E p \in BOOLEAN : KeyTurbo(p))
            \/ (\E s \in Seats : PadEvent(s) \/ BarrierPad(s))

Outside == Connect \/ PeerStops \/ PeerDiverges \/ PeerHeard
             \/ Rematch \/ LeaveLobby

Finished == at = "done" /\ UNCHANGED vars

Next == Step \/ Events \/ Outside \/ Finished

(* The thread keeps running, and in the barrier it keeps sleeping.         *)
Fairness == WF_vars(Step)

Spec == Init /\ [][Next]_vars /\ Fairness

----------------------------------------------------------------------------
(* Every frame of a match that is still being played was admitted by the   *)
(* barrier: whatever ends the match also ends the loop, so that no frame   *)
(* of it runs on this side's input alone (main.c:2092-2124, 2204-2248).    *)
Lockstep == at = "frame" /\ net.started /\ host.running => Active

(* A guest frame is followed by its raster before the next one, turbo or   *)
(* not, because the raster interrupt is part of the guest (main.c:2301).   *)
EveryFrameRastered == at \in {"events", "frame", "closing"} => ~ghost.ran

(* What every frame of the loop owes to the match it belongs to and to the *)
(* guest that it runs: the two above.                                      *)
FramesOfTheMatch == Lockstep /\ EveryFrameRastered

(* A match whose other player's process is gone comes to an end, also when *)
(* the two were out of step already (NetplayBarrierAdmit).                 *)
DeadPeerEndsMatch == (Active /\ ~peer.alive) ~> ~Active

(* A request to close the window ends the session from wherever it is      *)
(* made, the barrier and a paused loop included.                           *)
QuitEnds == ghost.quit ~> (at \in {"lobby", "done"})

(* No session runs on against its players: the two above.                  *)
SessionEnds == DeadPeerEndsMatch /\ QuitEnds

=============================================================================
