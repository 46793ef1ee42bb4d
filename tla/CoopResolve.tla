----------------------------- MODULE CoopResolve -----------------------------
(***************************************************************************)
(* coop_session_resolve as the code runs it: the frame's events, in the    *)
(* order and as often as they were reported, are sorted by compare_event   *)
(* and visited three times.  CoopSession states the result without order;  *)
(* this module shows that the loops compute that result.                   *)
(***************************************************************************)
EXTENDS Integers, SequencesExt

CONSTANTS
  PlayerCount, Primary, NoPlayer, NoEntity, TicksPerSecond, InitialLives,
  Event, Equipment, Mount, Object, Unpluggable, MaxEvents,
  Start            \* the players' records a frame may begin with

VARIABLES
  pc,           \* "report", then one value per loop, then "done"
  i,            \* the loop's index
  list,         \* s->events
  start,        \* the players when the frame began
  players, lives, checkpoint, outcome,
  actions,      \* s->actions, in order
  exit,         \* the exit chosen so far: {} or a singleton
  timeout, stars, switched, checked

terminal == <<exit, timeout, stars>>
once     == <<switched, checked>>
result   == <<players, lives, checkpoint, outcome, actions>>
vars     == <<pc, i, list, start, result, terminal, once>>

(* What CoopSession says of the same frame.                                *)
S == INSTANCE CoopSession WITH
       players <- start, lives <- InitialLives, outcome <- "CONTINUE", checkpoint <- 0,
       advancing <- TRUE, blocked <- FALSE, resolved <- FALSE,
       events <- ToSet(list), actions <- {}, charged <- 0

Player == 0..(PlayerCount - 1)

(* The order of CoopEventKind.                                             *)
Rank(k) == CHOOSE n \in 1..9 :
  k = <<"PICKUP", "ENEMY_CONTACT", "ON_OFF", "CHECKPOINT", "DAMAGE", "DEATH",
        "DEATH_FINISHED", "TIMEOUT", "EXIT">>[n]

CompareEvent(a, b) ==
  \/ Rank(a.kind) < Rank(b.kind)
  \/ a.kind = b.kind /\ S!Earlier(a, b)

Init ==
  /\ pc = "report" /\ i = 1 /\ list = <<>>
  /\ start \in Start /\ players = start
  /\ lives = InitialLives /\ checkpoint = 0 /\ outcome = "CONTINUE"
  /\ actions = <<>>
  /\ exit = {} /\ timeout = FALSE /\ stars = 0
  /\ switched = FALSE /\ checked = FALSE

Report(e) ==
  /\ pc = "report" /\ Len(list) < MaxEvents
  /\ list' = Append(list, e)
  /\ UNCHANGED <<pc, i, start, result, terminal, once>>

Sort ==
  /\ pc = "report"
  /\ list' = SortSeq(list, CompareEvent)
  /\ pc' = "terminal"
  /\ UNCHANGED <<i, start, result, terminal, once>>

(* Visit list[i], or leave the loop for `next`.                            *)
Step(loop, n) == pc = loop /\ i <= Len(list) /\ i' = n /\ UNCHANGED <<pc, list, start>>

Leave(loop, next) ==
  /\ pc = loop /\ i > Len(list)
  /\ pc' = next /\ i' = 1
  /\ UNCHANGED <<list, start, result, terminal, once>>

(* The first loop: terminal events.                                        *)
BetterExit(e, x) ==
  \/ S!Secret(e) > S!Secret(x)
  \/ S!Secret(e) = S!Secret(x) /\ S!Precedes(e.player, x.player)

Terminal ==
  /\ Step("terminal", i + 1)
  /\ LET e == list[i] IN
       /\ timeout' = (timeout \/ e.kind = "TIMEOUT")
       /\ stars' = IF e.kind = "EXIT" /\ e.value > stars THEN e.value ELSE stars
       /\ exit' = IF e.kind = "EXIT" /\ \A x \in exit : BetterExit(e, x) THEN {e} ELSE exit
  /\ UNCHANGED <<result, once>>

(* The second: lethal hits.                                                *)
Emitted(k, p, e) == IF e = NoEntity THEN <<>> ELSE <<S!Action(k, p, e, 0)>>

Lethal ==
  /\ Step("lethal", i + 1)
  /\ LET e == list[i]
         p == e.player
     IN  IF /\ e.kind = "DEATH" \/ (e.kind = "DAMAGE" /\ S!Lethal(e))
            /\ p \in Player
            /\ players[p].life = "PLAYING"
           THEN /\ players' = [players EXCEPT ![p] = S!Die(@)]
                /\ actions' = actions \o Emitted("DROP_OBJECT", p, players[p].held)
                                      \o Emitted("DETACH_MOUNT", p, players[p].mount)
                                      \o <<S!Action("DEATH", p, NoEntity, 0)>>
           ELSE UNCHANGED <<players, actions>>
  /\ UNCHANGED <<lives, checkpoint, outcome, terminal, once>>

(* The third: everything else, one entity's contacts at a time.            *)
GroupEnd == CHOOSE n \in (i + 1)..(Len(list) + 1) :
  /\ \A j \in i..(n - 1) : list[j].kind = list[i].kind /\ list[j].entity = list[i].entity
  /\ n <= Len(list) => <<list[n].kind, list[n].entity>> # <<list[i].kind, list[i].entity>>

(* Faulty: the first of two contacts at one distance wins.                 *)
BetterContactFirst(v, w) == v.distance < w.distance

BetterContact(v, w) ==
  \/ v.distance < w.distance
  \/ v.distance = w.distance /\ S!Precedes(v.player, w.player)

BouncesNow(v, bounced) == v.kind = "ENEMY_CONTACT" /\ S!Stomp(v) /\ bounced # v.player

(* The inner loop: `acc` holds the winner, the last player bounced and     *)
(* what was emitted.                                                       *)
Contact(acc, v) ==
  IF v.player \notin Player \/ players[v.player].life # "PLAYING" THEN acc
  ELSE [won     |-> IF \A w \in acc.won : BetterContact(v, w) THEN {v} ELSE acc.won,
        bounced |-> IF BouncesNow(v, acc.bounced) THEN v.player ELSE acc.bounced,
        out     |-> IF BouncesNow(v, acc.bounced)
                      THEN Append(acc.out, S!Action("STOMP_BOUNCE", v.player, v.entity, 0))
                      ELSE acc.out]

Contacts ==
  LET e   == list[i]
      acc == FoldLeft(Contact, [won |-> {}, bounced |-> NoPlayer, out |-> <<>>],
                      SubSeq(list, i, GroupEnd - 1))
      kind == IF e.kind = "PICKUP" THEN "PICKUP" ELSE "ENEMY_DAMAGE"
  IN  /\ Step("apply", GroupEnd)
      /\ e.kind \in {"PICKUP", "ENEMY_CONTACT"}
      /\ actions' = actions \o acc.out
           \o SetToSeq({S!Action(kind, w.player, w.entity, w.value) : w \in acc.won})
      /\ UNCHANGED <<players, lives, checkpoint, outcome, terminal, once>>

OnOff ==
  /\ Step("apply", i + 1)
  /\ list[i].kind = "ON_OFF"
  /\ switched' = TRUE
  /\ actions' = IF switched THEN actions
                ELSE Append(actions, S!Action("ON_OFF", list[i].player, list[i].entity, 0))
  /\ UNCHANGED <<players, lives, checkpoint, outcome, checked, terminal>>

Checkpoint ==
  /\ Step("apply", i + 1)
  /\ list[i].kind = "CHECKPOINT"
  /\ checked' = TRUE
  /\ IF checked THEN UNCHANGED <<checkpoint, players, actions>>
     ELSE /\ checkpoint' = list[i].value
          /\ players' = [p \in Player |-> S!Upgrade(players[p])]
          /\ actions' = Append(actions, S!Action("CHECKPOINT", list[i].player,
                                                 list[i].entity, list[i].value))
  /\ UNCHANGED <<lives, outcome, switched, terminal>>

Damage ==
  /\ Step("apply", i + 1)
  /\ list[i].kind = "DAMAGE"
  /\ LET p == list[i].player IN
     IF /\ p \in Player
        /\ players[p].life = "PLAYING" /\ players[p].star = 0 /\ players[p].protection = 0
        /\ ~S!Lethal(list[i])
       THEN /\ players' = [players EXCEPT ![p] = S!Damage(@)]
            /\ actions' = actions
                 \o (IF players[p].reserve = 0 THEN <<>>
                     ELSE <<S!Action("DROP_RESERVE", p, NoEntity, players[p].reserve)>>)
                 \o <<S!Action("DAMAGE", p, NoEntity, 0)>>
       ELSE UNCHANGED <<players, actions>>
  /\ UNCHANGED <<lives, checkpoint, outcome, once, terminal>>

DeathFinished ==
  /\ Step("apply", i + 1)
  /\ list[i].kind = "DEATH_FINISHED"
  /\ LET p == list[i].player IN
     players' = IF p \in Player /\ players[p].life = "DYING"
                  THEN [players EXCEPT ![p].life = "DEATH_BUBBLE",
                                       ![p].recovery = 3 * TicksPerSecond]
                  ELSE players
  /\ UNCHANGED <<lives, checkpoint, outcome, actions, once, terminal>>

Skip ==
  /\ Step("apply", i + 1)
  /\ list[i].kind \in {"DEATH", "TIMEOUT", "EXIT"}
  /\ UNCHANGED <<result, terminal, once>>

(* After the loops.                                                        *)
Outcome ==
  LET over == timeout \/ \A p \in Player : players[p].life # "PLAYING" IN
  /\ pc = "outcome"
  /\ pc' = "done"
  /\ lives' = IF exit = {} /\ over /\ lives > 0 THEN lives - 1 ELSE lives
  /\ outcome' = IF exit # {} THEN "CLEAR"
                ELSE IF ~over THEN "CONTINUE"
                ELSE IF lives' > 0 THEN "RETRY" ELSE "GAME_OVER"
  /\ actions' =
       IF exit # {}
         THEN LET x == CHOOSE e \in exit : TRUE IN
              Append(actions, S!Action("EXIT", x.player, x.entity, S!Secret(x) + 256 * stars))
       ELSE IF over THEN Append(actions, S!Action(outcome', NoPlayer, NoEntity, checkpoint))
       ELSE actions
  /\ UNCHANGED <<i, list, start, players, checkpoint, terminal, once>>

Next ==
  \/ \E e \in Event : Report(e)
  \/ Sort
  \/ Terminal \/ Leave("terminal", "lethal")
  \/ Lethal \/ Leave("lethal", "apply")
  \/ Contacts \/ OnOff \/ Checkpoint \/ Damage \/ DeathFinished \/ Skip
  \/ Leave("apply", "outcome")
  \/ Outcome

Spec == Init /\ [][Next]_vars

-----------------------------------------------------------------------------
(* "deterministic event outcomes independent of actor update order": the   *)
(* loops compute what CoopSession says of the set of events, in whatever   *)
(* order and however often the actors reported them.                       *)
LoopComputesResolve ==
  pc = "done" =>
    /\ players = [p \in Player |-> S!Resolved(p)]
    /\ lives = S!LivesAfter
    /\ outcome = S!OutcomeAfter
    /\ checkpoint = S!CheckpointAfter
    /\ ToSet(actions) = S!Decisions

=============================================================================
