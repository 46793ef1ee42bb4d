---------------------------- MODULE CoopContacts ----------------------------
(***************************************************************************)
(* The contacts of several actors with one shared sprite in one frame,     *)
(* src/mods/coop/coop_simulation.c: collect_native_contacts with           *)
(* commit_contact, collect_chuck_contacts, collect_extended_contacts,      *)
(* run_cape_contacts and the hooks that admit one fire hit.                *)
(*                                                                         *)
(* The adapter first asks the guest's routine about every actor in roster  *)
(* order, without effect, and then commits: what hurts an actor first,     *)
(* then the one winner's response, then the bounces of the others.  The    *)
(* guest decides the kind of each contact and what a response does to the  *)
(* sprite; it is external.  A sprite is its kind, its status and the       *)
(* identity its slot has; positions are the distances they give.           *)
(***************************************************************************)
EXTENDS Naturals, FiniteSets

CONSTANTS
  PlayerCount, Primary,
  NoPlayer,
  MaxDistance,   \* bound: distances tell nearer from farther
  MaxId          \* bound: identities the slot has in a behaviour

Player == 1..PlayerCount

VARIABLES
  playing,    \* actors whose life is COOP_PLAYING
  sprite,     \* kind, status and identity of the sprite in the slot
  owner,      \* player who carries it
  held,       \* identity each player holds, 0 for none
  damaged,    \* damaged_entity of the slot
  stage,      \* place in the adapter's code
  asked,      \* actors asked so far, in roster order
  contacts,   \* contact found for each actor, kind "NONE" if there is none
  winner,
  due,        \* actors whose response the present pass has still to commit
  hurt,       \* history: harm done to each actor in this contact stage
  bounced,    \* history: bounces each actor has had in this contact stage
  awards,     \* history: shared responses in this contact stage
  hits,       \* history: shared responses to this identity in this frame
  visited,    \* the slot's sprite has had its update in this frame
  aborted     \* Die()

served == <<hurt, bounced, awards>>
query  == <<asked, contacts, winner>>
vars   == <<playing, sprite, owner, held, damaged, stage, query, due, served, hits, visited,
            aborted>>

Kinds == {"plain", "item", "balloon", "chuck", "hazard", "coin"}
None  == [kind |-> "NONE", distance |-> 0]
Nobody == [p \in Player |-> 0]

(* coop_player_precedes: the primary, then by identity.                    *)
Precedes(p, q) == p # q /\ (p = Primary \/ (q # Primary /\ p < q))

Init ==
  /\ playing = Player
  /\ sprite \in [kind : Kinds, status : {"alive"}, id : {1}]
  /\ owner = NoPlayer /\ held = Nobody /\ damaged = 0
  /\ stage = "idle" /\ asked = 0 /\ contacts = [p \in Player |-> None] /\ winner = NoPlayer
  /\ due = {} /\ hurt = Nobody /\ bounced = Nobody /\ awards = 0 /\ hits = 0 /\ visited = FALSE
  /\ aborted = FALSE

-----------------------------------------------------------------------------
(* A frame.                                                                *)

(* SmwCoopSimulationBegin forgets what was damaged in the last frame.      *)
NewFrame(P) ==
  /\ stage = "idle"
  /\ damaged' = 0 /\ hits' = 0 /\ visited' = FALSE
  /\ playing' = P
  /\ UNCHANGED <<sprite, owner, held, stage, query, due, served, aborted>>

(* The slot is used again for a new sprite, which has a new identity.      *)
Respawn(k) ==
  /\ stage = "idle" /\ sprite.status = "gone" /\ sprite.id < MaxId
  /\ sprite' = [kind |-> k, status |-> "alive", id |-> sprite.id + 1]
  /\ hits' = 0
  /\ UNCHANGED <<playing, owner, held, damaged, stage, query, due, served, visited, aborted>>

ReleasedOwner == NoPlayer

(* run_normal_sprite: the carrier lets go, or the balloon bursts, and      *)
(* retire_released_objects follows.                                        *)
Release ==
  /\ stage = "idle" /\ sprite.status = "carried"
  /\ sprite' = [sprite EXCEPT !.status = IF sprite.kind = "balloon" THEN "gone" ELSE "stunned"]
  /\ held' = [held EXCEPT ![owner] = 0] /\ owner' = ReleasedOwner
  /\ UNCHANGED <<playing, damaged, stage, query, due, served, hits, visited, aborted>>

(* One shared response to an identity in a frame.                          *)
Admitted == damaged # sprite.id

(* A flame or a cape spin reaches the sprite: the hooks at 02:A0F5 and     *)
(* 02:9404 (run_cape_contacts asks every actor in play).                   *)
Strike(after) ==
  /\ stage = "idle" /\ playing # {}
  /\ sprite.kind \in {"plain", "chuck"} /\ sprite.status = "alive"
  /\ IF Admitted
       THEN /\ damaged' = sprite.id /\ hits' = hits + 1
            /\ sprite' = [sprite EXCEPT !.status = after]
       ELSE UNCHANGED <<damaged, hits, sprite>>
  /\ UNCHANGED <<playing, owner, held, stage, query, due, served, visited, aborted>>

-----------------------------------------------------------------------------
(* The query.                                                              *)

(* What the guest's default contact routine can answer, of any sprite: the *)
(* adapter takes whichever response the guest comes to.  A power-up has a  *)
(* routine of its own, and so has the balloon, which is one.               *)
NativeAnswers ==
  IF sprite.kind \in {"item", "balloon"} THEN {"POWERUP"}
  ELSE {"STAR", "SLIDE", "SIDE", "BOUNCE", "SPIN", "STOMP", "PICKUP", "LOOSE"}

(* Chuck has a contact routine of its own.                                 *)
ChuckAnswers == {"STAR", "STOMP", "SIDE"}

(* So have the objects of the extended tables: flames and cloud coins.     *)
ExtendedAnswers == IF sprite.kind = "coin" THEN {"COIN"} ELSE {"STAR", "SIDE"}

Answers ==
  IF sprite.kind \in {"plain", "item", "balloon"} THEN NativeAnswers
  ELSE IF sprite.kind = "chuck" THEN ChuckAnswers ELSE ExtendedAnswers

(* The sprite's update reaches its contact routine, once in a frame; Chuck *)
(* asks nobody while the guest's cooldown runs.                            *)
StartQuery ==
  /\ stage = "idle" /\ ~visited /\ sprite.status \in {"alive", "stunned"}
  /\ stage' \in IF sprite.kind = "chuck" THEN {"query", "idle"} ELSE {"query"}
  /\ visited' = TRUE
  /\ UNCHANGED <<playing, sprite, owner, held, damaged, query, due, served, hits, aborted>>

(* Side damage and safe bounces are the actor's own affair.                *)
Contends(c) == c.kind \notin {"NONE", "SIDE", "BOUNCE"}

Grab(c) == c.kind = "PICKUP"

(* Faulty: a nearer attack beats a grab, or a tie goes to the last asked.  *)
BeatsByDistance(p, c) ==
  \/ winner = NoPlayer
  \/ LET w == contacts[winner]
     IN  c.distance < w.distance \/ (c.distance = w.distance /\ Precedes(p, winner))

(* The candidate p with contact c replaces the winner so far.              *)
Beats(p, c) ==
  \/ winner = NoPlayer
  \/ LET w == contacts[winner]
     IN  \/ Grab(c) /\ ~Grab(w)
         \/ /\ Grab(c) = Grab(w)
            /\ c.distance < w.distance \/ (c.distance = w.distance /\ Precedes(p, winner))

Ask(k, d) ==
  /\ stage = "query" /\ asked < PlayerCount
  /\ LET p == asked + 1
         c == [kind |-> k, distance |-> IF k = "NONE" THEN 0 ELSE d]
     IN  /\ k \in {"NONE"} \cup (IF p \in playing THEN Answers ELSE {})
         /\ asked' = p
         /\ contacts' = [contacts EXCEPT ![p] = c]
         /\ winner' = IF Contends(c) /\ Beats(p, c) THEN p ELSE winner
  /\ UNCHANGED <<playing, sprite, owner, held, damaged, stage, due, served, hits, visited, aborted>>

-----------------------------------------------------------------------------
(* The commits.                                                            *)

Bouncing == {"STOMP", "SPIN", "BOUNCE"}

(* Side damage is per actor, before a winning response changes the sprite. *)
(* Last come the other stompers, spinners and safe bouncers.               *)
Pass(s) ==
  IF s = "side" THEN {p \in Player : contacts[p].kind = "SIDE"}
  ELSE {p \in Player \ {winner} : contacts[p].kind \in Bouncing}

StartCommit ==
  /\ stage = "query" /\ asked = PlayerCount
  /\ stage' = "side" /\ due' = Pass("side")
  /\ UNCHANGED <<playing, sprite, owner, held, damaged, query, served, hits, visited, aborted>>

Sided ==
  /\ stage = "side" /\ due = {}
  /\ stage' = "winner"
  /\ UNCHANGED <<playing, sprite, owner, held, damaged, query, due, served, hits, visited, aborted>>

(* claim_carried for the sprite that a response of p left carried: a       *)
(* balloon is attached, anything else is held.                             *)
Claim(p, status) ==
  IF status # "carried" THEN UNCHANGED <<owner, held, aborted>>
  ELSE IF owner \notin {NoPlayer, p}
    THEN aborted' = TRUE /\ UNCHANGED <<owner, held>>
  ELSE IF sprite.kind = "balloon" THEN owner' = p /\ UNCHANGED <<held, aborted>>
  ELSE IF held[p] \notin {0, sprite.id}
    THEN aborted' = TRUE /\ UNCHANGED <<owner, held>>
  ELSE owner' = p /\ held' = [held EXCEPT ![p] = sprite.id] /\ UNCHANGED aborted

(* What the guest's response to a winning contact leaves of the sprite.    *)
Outcomes(k) ==
  IF k = "PICKUP" \/ sprite.kind = "balloon" THEN {"carried"}
  ELSE IF k = "LOOSE" THEN {"alive"}
  ELSE IF k = "STOMP" /\ sprite.kind = "plain" THEN {"stunned", "gone"}
  ELSE IF k = "STOMP" THEN {"alive", "gone"}
  ELSE {"gone"}

NoWinner ==
  /\ stage = "winner" /\ winner = NoPlayer
  /\ stage' = "rest" /\ due' = Pass("rest")
  /\ UNCHANGED <<playing, sprite, owner, held, damaged, query, served, hits, visited, aborted>>

(* Chuck's hit counter is guarded; a stomper still bounces, a star is      *)
(* dropped.  Other sprites answer their one winner.                        *)
Duplicate == sprite.kind = "chuck" /\ ~Admitted

Win(after) ==
  /\ stage = "winner" /\ winner # NoPlayer
  /\ LET k == contacts[winner].kind
     IN  /\ after \in IF Duplicate THEN {sprite.status} ELSE Outcomes(k)
         /\ sprite' = [sprite EXCEPT !.status = after]
         /\ damaged' = IF k \in {"STAR", "SLIDE", "SPIN", "STOMP"}
                           /\ sprite.kind \in {"plain", "chuck"} THEN sprite.id ELSE damaged
         /\ bounced' = [bounced EXCEPT ![winner] = IF k \in {"STOMP", "SPIN"} THEN @ + 1 ELSE @]
         /\ Claim(winner, after)
  /\ awards' = IF Duplicate THEN awards ELSE awards + 1
  /\ hits' = IF Duplicate THEN hits ELSE hits + 1
  /\ stage' = "rest" /\ due' = Pass("rest")
  /\ UNCHANGED <<playing, query, hurt, visited>>

(* commit_contact for one actor: harm, or a bounce that ends before the    *)
(* shared response.  Every commit looks at the sprite's status.            *)
Commit(p) ==
  /\ stage \in {"side", "rest"}
  /\ p \in due /\ \A q \in due : p <= q
  /\ due' = due \ {p}
  /\ IF contacts[p].kind = "SIDE"
       THEN hurt' = [hurt EXCEPT ![p] = @ + 1] /\ UNCHANGED bounced
       ELSE bounced' = [bounced EXCEPT ![p] = @ + 1] /\ UNCHANGED hurt
  /\ Claim(p, sprite.status)
  /\ UNCHANGED <<playing, sprite, damaged, stage, query, awards, hits, visited>>

Finish ==
  /\ stage = "rest" /\ due = {}
  /\ stage' = "idle" /\ asked' = 0
  /\ contacts' = [p \in Player |-> None] /\ winner' = NoPlayer
  /\ hurt' = Nobody /\ bounced' = Nobody /\ awards' = 0
  /\ UNCHANGED <<playing, sprite, owner, held, damaged, due, hits, visited, aborted>>

(* A program that has ended does no more.                                  *)
Next ==
  /\ ~aborted
  /\ \/ \E P \in SUBSET Player : NewFrame(P)
     \/ \E k \in Kinds : Respawn(k)
     \/ Release
     \/ \E after \in {"alive", "stunned", "gone"} : Strike(after)
     \/ StartQuery
     \/ \E k \in {"NONE", "STAR", "SLIDE", "SIDE", "BOUNCE", "SPIN", "STOMP", "PICKUP", "LOOSE",
                  "POWERUP", "COIN"}, d \in 0..MaxDistance : Ask(k, d)
     \/ StartCommit
     \/ Sided
     \/ NoWinner
     \/ \E after \in {"alive", "stunned", "carried", "gone"} : Win(after)
     \/ \E p \in Player : Commit(p)
     \/ Finish

Spec == Init /\ [][Next]_vars

-----------------------------------------------------------------------------
(* What is to be shown.                                                    *)

(* "An eligible held-object grab wins over a loose contact that cannot     *)
(* grab; eligible grabs use distance and the same deterministic tie rule": *)
(* whatever the roster order, the winner is the best of all contenders.    *)
WinnerIsBest ==
  stage \in {"side", "winner"} =>
    LET Field  == {p \in Player : Contends(contacts[p])}
        Grabs  == {p \in Field : Grab(contacts[p])}
        Choice == IF Grabs = {} THEN Field ELSE Grabs
    IN  IF Field = {} THEN winner = NoPlayer
        ELSE /\ winner \in Choice
             /\ \A p \in Choice \ {winner} :
                  \/ contacts[winner].distance < contacts[p].distance
                  \/ /\ contacts[winner].distance = contacts[p].distance
                     /\ Precedes(winner, p)

(* A sprite responds once: one award in a contact stage, and Chuck's hit   *)
(* counter moves once in a frame, however many actors stomp, spin, burn or *)
(* cape it.                                                                *)
OneResponse == awards <= 1 /\ (sprite.kind = "chuck" => hits <= 1)

(* When the commits are through, every stomper has had its bounce and      *)
(* everyone hurt was hurt once; nobody else was touched.                   *)
EveryoneServed ==
  stage = "rest" /\ due = {} => \A p \in Player :
    /\ hurt[p] = IF contacts[p].kind = "SIDE" THEN 1 ELSE 0
    /\ bounced[p] = IF contacts[p].kind \in Bouncing THEN 1 ELSE 0

(* A carried sprite has one carrier, who holds it and nothing else; a      *)
(* balloon leaves its owner's hands free.                                  *)
CarriedIsOwned ==
  stage = "idle" =>
    /\ (sprite.status = "carried") = (owner # NoPlayer)
    /\ \A p \in Player :
         held[p] = IF p = owner /\ sprite.kind # "balloon" THEN sprite.id ELSE 0

(* One actor has grabbed the sprite and another one bounces off it.        *)
Quarrel ==
  /\ winner # NoPlayer /\ Grab(contacts[winner])
  /\ \E p \in Player \ {winner} : contacts[p].kind \in Bouncing

(* The commits that follow a grab find the sprite carried and claim it for *)
(* their own actors: claim_carried ends the program then, and only then.   *)
EndsOnlyOnAQuarrel ==
  /\ aborted => stage = "rest" /\ Quarrel
  /\ stage = "rest" /\ due = {} => aborted = Quarrel

(* The contacts of a frame are arbitrated: all of the above.               *)
ContactsArbitrated ==
  WinnerIsBest /\ OneResponse /\ EveryoneServed /\ CarriedIsOwned /\ EndsOnlyOnAQuarrel
=============================================================================
