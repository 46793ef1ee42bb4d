-------------------------- MODULE MCFalconFighter --------------------------
(* Captain Falcon's fighter with the stick positions of a digital pad: half *)
(* and full to the sides, full up and down.                                 *)
EXTENDS FalconFighter

Pad(x, y, b) ==
  [stick_x |-> x, stick_y |-> y, jump_pressed |-> b \in {"jump", "swim"},
   attack |-> b = "attack", special |-> b = "special", unlimited |-> b = "swim"]

Cross == {<<x, 0>> : x \in {-80, 0, 80}} \cup {<<0, -80>>, <<0, 80>>}

MCInputs ==
  {Pad(d[1], d[2], b) : d \in Cross, b \in {"none", "special"}}
    \cup {Pad(0, y, "attack") : y \in {-80, 0}}
    \cup {Pad(x, 0, "attack") : x \in {-40, 40}}
    \cup {Pad(-80, 0, "jump"), Pad(0, 0, "jump"), Pad(80, 0, "jump"),
          Pad(0, 0, "swim")}

Hit(g, c, w, a, i) ==
  [grounded |-> g, ceiling |-> c, wall |-> w, connected |-> a, imposed |-> i]

MCHits ==
  {Hit(g, FALSE, FALSE, FALSE, i) : g \in BOOLEAN, i \in {"none", "up"}}
    \cup {Hit(g, FALSE, TRUE, FALSE, "none") : g \in BOOLEAN}
    \cup {Hit(FALSE, TRUE, FALSE, FALSE, "none"), Hit(FALSE, FALSE, FALSE, FALSE, "down"),
          Hit(FALSE, FALSE, FALSE, TRUE, "none")}

\* Left and right are mirror images, and the working set of a turn is read
\* in a turn only, which sets it on entry.
MCView ==
  LET turning == f.state \in {"TURN", "TURN_RUN"}
  IN  <<[f EXCEPT !.lr = 1, !.prev_x = f.lr * @,
                  !.turn_flag1 = turning /\ @,
                  !.turn_lr_dash = IF turning THEN f.lr * @ ELSE 0,
                  !.turn_lr_turn = IF turning THEN f.lr * @ ELSE 0],
        phase, attack, cues, move, credit>>
============================================================================
