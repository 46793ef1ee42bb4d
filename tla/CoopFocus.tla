------------------------------ MODULE CoopFocus ------------------------------
(* What the shared camera looks at (coop_machine.c, coop_simulation.c) and  *)
(* which player leads it (coop_camera_frame), along one axis.  The original *)
(* camera routine follows the focus it is given and is external; so are the *)
(* moves of the players.  A level frame runs the camera first, then the     *)
(* players, then the adapter's end of the frame.  Positions are words of    *)
(* the guest's memory, a word below zero being a large one.                 *)
EXTENDS Integers, FiniteSets, FiniteSetsExt

CONSTANTS
  Players,   \* the roster, in the order of precedence
  Positions, \* the words a player's position may have
  Words,     \* the number of values a word has
  HalfBody,  \* what a read adds to a word: half a body
  Limit,     \* what the focus moves in a frame at most
  Widths,    \* the viewport's sizes
  Far        \* bound on how far the focus is from the first place

VARIABLES
  stage,     \* of the level frame: "camera", "play", "end"
  word,      \* the players' positions, in guest memory
  life,      \* "playing", "dying" or "bubble"
  framing,   \* the session's camera: leader, travel, previous centre, view
  focus,     \* focus_x, and the three fields it is continued from
  stir       \* frames since something else than a death moved the framing

vars == <<stage, word, life, framing, focus, stir>>

Nobody == 0
Active == {p \in Players : life[p] = "playing"}

(* coop_guest_read_player: a position as the session has it.               *)
At(p) == word[p] + HalfBody

LeftOf(S) == Min({At(p) - HalfBody : p \in S})
RightOf(S) == Max({At(p) + HalfBody : p \in S})
Centre(S) == (LeftOf(S) + RightOf(S)) \div 2

Init ==
  /\ stage = "camera" /\ word \in [Players -> Positions]
  /\ life = [p \in Players |-> "playing"]
  /\ framing = [leader |-> Nobody, travel |-> 0, centre |-> 0, known |-> FALSE,
                width |-> Max(Widths), view |-> 0]
  /\ focus = [at |-> 0, centre |-> 0, count |-> 0, known |-> FALSE, hold |-> FALSE]
  /\ stir = 1

----------------------------------------------------------------------------
(* The camera.                                                             *)

(* focus_step                                                              *)
Step(n) == Max({-Limit, Min({Limit, n})})

(* Mutant: the centre is only kept while the roster is the same.           *)
FocusedLate(f, x, active) ==
  LET same == active = f.count
      hold == IF same THEN f.hold ELSE active < f.count
      step == IF ~hold THEN Step(x - f.at)
              ELSE IF same THEN Step(x - f.centre) ELSE 0
  IN IF ~f.known
     THEN [at |-> x, centre |-> x, count |-> active, known |-> TRUE, hold |-> f.hold]
     ELSE [f EXCEPT !.at = @ + step, !.count = active, !.hold = hold,
                    !.centre = IF same THEN x ELSE @]

(* coop_machine_focus                                                      *)
Focused(f, x, active) ==
  LET same == active = f.count
      hold == IF same THEN f.hold ELSE active < f.count
      step == IF ~hold THEN Step(x - f.at)
              ELSE IF same THEN Step(x - f.centre) ELSE 0
  IN IF ~f.known
     THEN [at |-> x, centre |-> x, count |-> active, known |-> TRUE, hold |-> f.hold]
     ELSE [at |-> f.at + step, centre |-> x, count |-> active, known |-> TRUE,
           hold |-> hold]

(* What the team is framed by: the leader, where there is one in play.     *)
Framed ==
  IF framing.leader \in Active THEN At(framing.leader) ELSE Centre(Active)

(* run_team_camera: with nobody in play it stands still.                   *)
Camera ==
  /\ stage = "camera" /\ stage' = "play"
  /\ focus' = IF Active = {} THEN focus
              ELSE Focused(focus, Framed, Cardinality(Active))
  /\ focus'.at \in -Far .. Words + Far
  /\ stir' = IF stir = 0 THEN 0 ELSE stir - 1
  /\ framing' = [framing EXCEPT !.view = focus'.at]
  /\ UNCHANGED <<word, life>>

----------------------------------------------------------------------------
(* External: the players move and die, a level is entered.                 *)

Play ==
  /\ stage = "play" /\ stage' = "end"
  /\ \/ UNCHANGED <<word, life, stir>>
     \/ \E p \in Active :
          /\ \E d \in {-1, 1} : word' = [word EXCEPT ![p] = (@ + d) % Words]
          /\ word'[p] \in Positions
          /\ stir' = Max({stir, 1}) /\ UNCHANGED life
     \/ \E p \in Active : life' = [life EXCEPT ![p] = "dying"] /\ UNCHANGED <<word, stir>>
  /\ UNCHANGED <<framing, focus>>

(* initialize_room: everybody is at its entrance.                          *)
EnterRoom ==
  /\ stage = "camera" /\ Active = {}
  /\ \E w \in Positions : word' = [p \in Players |-> w]
  /\ life' = [p \in Players |-> "playing"]
  /\ focus' = [focus EXCEPT !.known = FALSE, !.hold = FALSE, !.count = 0]
  /\ framing' = [framing EXCEPT !.known = FALSE, !.leader = Nobody]
  /\ stir' = 1 /\ UNCHANGED stage

----------------------------------------------------------------------------
(* The end of the frame.                                                   *)

Margin == 2              \* of the view, that the team must leave free
Sign(n) == IF n > 0 THEN 1 ELSE -1

(* The leader is the one farthest in the direction of travel; the first of *)
(* those as far.                                                           *)
Leader(travel) ==
  Min({p \in Active : \A q \in Active : At(q) * travel <= At(p) * travel})

(* coop_camera_frame: the travel, and the leader of a team that does not   *)
(* fit into the view.                                                      *)
Framing(width) ==
  LET fits == RightOf(Active) - LeftOf(Active) <= width - Margin
      dx == Centre(Active) - framing.centre
      travel == IF framing.known /\ fits /\ dx # 0 THEN Sign(dx) ELSE framing.travel
  IN IF Active = {} THEN [framing EXCEPT !.width = width]
     ELSE [framing EXCEPT !.width = width, !.known = TRUE, !.centre = Centre(Active),
              !.travel = travel, !.leader = IF fits THEN Nobody ELSE Leader(travel)]

(* Not wholly in view, which is as wide as it was drawn last.              *)
Outside(p, width) ==
  \/ At(p) - HalfBody < framing.view - (width \div 2)
  \/ At(p) + HalfBody > framing.view + (width \div 2)

(* coop_machine_refit_view: after a resize that leaves a player out.       *)
Refit(width) ==
  IF width # framing.width /\ \E p \in Active : Outside(p, width)
  THEN [focus EXCEPT !.hold = FALSE] ELSE focus

(* Some time outside the view ends in a bubble; never for the leader or    *)
(* the last in play.                                                       *)
MayCatchUp(p, width) ==
  /\ p \in Active /\ Outside(p, width) /\ width = framing.width
  /\ p # Framing(width).leader /\ Active # {p}

(* One in a bubble returns beside one in play.                             *)
MayReturn(p) == life[p] # "playing" /\ Active # {}

(* recover_and_frame                                                       *)
End ==
  /\ stage = "end" /\ stage' = "camera"
  /\ \E width \in Widths :
       /\ framing' = Framing(width) /\ focus' = Refit(width)
       /\ \/ /\ UNCHANGED <<word, life>>
             /\ stir' = IF width = framing.width THEN stir ELSE Max({stir, 1})
          \/ \E p \in Players :
               /\ MayCatchUp(p, width)
               /\ life' = [life EXCEPT ![p] = "bubble"] /\ stir' = 2
               /\ UNCHANGED word
          \/ \E p \in Players, q \in Active :
               /\ MayReturn(p)
               /\ life' = [life EXCEPT ![p] = "playing"] /\ stir' = 2
               /\ \E d \in {-1, 1} : /\ (word[q] + d) % Words \in Positions
                                    /\ word' = [word EXCEPT ![p] = (word[q] + d) % Words]

Next == Camera \/ Play \/ EnterRoom \/ End

Spec == Init /\ [][Next]_vars

----------------------------------------------------------------------------
(* When all that happened to a team since the camera last ran is that      *)
(* players died, and once it holds its framing, the view stays where it    *)
(* is: a stationary survivor's view does not move, whoever led it before   *)
(* (coop_machine_focus; the leader is chosen anew by coop_camera_frame).   *)
DeathKeepsView ==
  [][(/\ stage = "camera" /\ stage' = "play" /\ stir = 0 /\ Active # {}
      /\ focus.known
      /\ focus.hold \/ Cardinality(Active) < focus.count)
     => focus'.at = focus.at]_vars

(* A snapshot keeps the focus and its centre; a load takes only words      *)
(* (coop_machine_save and coop_machine_load, the CAM1 record).             *)
FocusLoads == focus.at \in 0 .. Words - 1 /\ focus.centre \in 0 .. Words - 1
=============================================================================
