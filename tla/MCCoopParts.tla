---------------------------- MODULE MCCoopParts ----------------------------
(* CoopParts with small machines, rooms, files and clips.                  *)
EXTENDS CoopParts

-----------------------------------------------------------------------------
(* Machines for CoopSnapshot: with nothing but players, with everything    *)
(* there is, and with a focus that is held.                                *)
Flight(h, p, v) == [head |-> h, pending |-> p, visible |-> v]

Plain ==
  [players |-> <<<<1, 0, 0>>, <<2, 0, 0>>>>,
   actors |-> <<Flight(<<1, 0>>, <<>>, <<>>), Flight(<<2, 0>>, <<3>>, <<>>)>>,
   entities |-> <<>>, next |-> 1, focus |-> <<0, 0, 0, 0, 0>>, mounts |-> <<>>,
   sources |-> <<>>, mountsKnown |-> FALSE, shotsKnown |-> FALSE, entrance |-> FALSE,
   shots |-> <<Flight(<<0, 0>>, <<>>, <<>>), Flight(<<0, 0>>, <<>>, <<>>)>>,
   stored |-> <<<<0, 0>>, <<0, 0>>>>, eggs |-> <<>>]

Rich ==
  [Plain EXCEPT
     !.players = <<<<1, 1, 0>>, <<2, 0, 2>>>>,
     !.entities = <<<<1, 1, 5, 1, 2>>, <<2, 2, 4, 2, 1>>, <<3, 3, 6, 0, 0>>>>,
     !.next = 8, !.mounts = <<Flight(<<1, 7>>, <<>>, <<4>>)>>,
     !.sources = <<<<3, 1>>>>, !.mountsKnown = TRUE, !.shotsKnown = TRUE,
     !.focus = <<4, 5, 2, 1, 0>>,
     !.shots = <<Flight(<<4, 6>>, <<>>, <<>>), Flight(<<5, 6>>, <<2>>, <<3>>)>>,
     !.stored = <<<<0, 0>>, <<6, 2>>>>, !.eggs = <<<<2, 1, 3>>>>, !.entrance = TRUE]

Hurried == [Plain EXCEPT !.focus = <<4, 5, 2, 1, 1>>, !.next = 2]

MCMachines == {Plain, Rich, Hurried}

-----------------------------------------------------------------------------
(* Rooms for CoopReturn, ten blocks by six: a floor with one block of it   *)
(* or above it changed, no floor, deep water, and a floor with a layer     *)
(* over it that is half a block off.                                       *)
Cells  == (0 .. 9) \X (0 .. 5)
Ground == [c \in Cells |-> IF c[2] >= 4 THEN "floor" ELSE "air"]
Sky    == [c \in Cells |-> "air"]
Deep   == [c \in Cells |-> IF c[2] = 5 THEN "floor" ELSE "water"]
Layer(b, off) == [dx |-> off, dy |-> off, block |-> b]

MCRooms ==
  {{Layer([Ground EXCEPT ![<<c, r>>] = k], 0)} :
     c \in 3 .. 8, r \in 1 .. 4, k \in {"wall", "spike", "ledge", "air"}}
  \cup {{Layer(Sky, 0)}, {Layer(Deep, 0)}}
  \cup {{Layer(Ground, 0), Layer([Sky EXCEPT ![<<c, 2>>] = "wall"], 8)} : c \in 3 .. 8}

Survivor(x, feet, mounted, swims) ==
  [x |-> x, feet |-> feet, mounted |-> mounted, swims |-> swims]

MCAnchors == {Survivor(80, 64, FALSE, FALSE), Survivor(80, 64, TRUE, FALSE),
              Survivor(72, 52, FALSE, FALSE), Survivor(80, 60, FALSE, TRUE)}
MCOthers  == {{}, {[x |-> 104, feet |-> 64, mounted |-> FALSE]},
              {[x |-> 120, feet |-> 48, mounted |-> TRUE]}}
MCSprites == {{}, {[x |-> 120, y |-> 48, kind |-> "foe"]},
              {[x |-> 64, y |-> 51, kind |-> "platform"]},
              {[x |-> 72, y |-> 32, kind |-> "ridden"]}}

(* Files for HostConfig: with every section, with comments that name a     *)
(* setting, alone, before and after a line that sets it, with a section    *)
(* twice, without some of the sections, and empty.                         *)
Section(s)  == [kind |-> "section", name |-> s]
Entry(k, v) == [kind |-> "entry", name |-> k, value |-> v]
Note(k, v)  == [kind |-> "comment", name |-> k, value |-> v]

MCFiles ==
  { <<>>,
    << Section("KeyMap"), Entry("Pause", "x"),
       Section("Graphics"), Entry("WindowScale", 2),
       Section("GamepadMap"), Entry("DeadzoneP2", 2), Entry("Deadzone", 1),
       Section("Sound"), Entry("EnableAudio", 0) >>,
    << Note("none", 0), Section("GamepadMap"), Note("Deadzone", 1),
       Section("General"), Entry("DisableFrameDelay", 1) >>,
    << Section("KeyMap"), Entry("Pause", "tab"), Entry("Turbo", "x"),
       Section("Graphics"), Entry("Other", 2) >>,
    << Section("Graphics"), Note("WindowScale", 3), Entry("WindowScale", 2),
       Section("Sound"), Entry("EnableAudio", 0), Note("EnableAudio", 1) >>,
    << Section("GamepadMap"), Entry("Deadzone", 2),
       Section("General"), Entry("DisableFrameDelay", 1),
       Section("GamepadMap"), Entry("DeadzoneP2", 2), Entry("Deadzone", 1) >> }

MCLocals == {<<>>}

(* A view for TLC: what a button that is up did when it went down is read  *)
(* by nothing.                                                             *)
Unread(s) ==
  [s EXCEPT !.last = [b \in DOMAIN @ |-> IF b \in s.mods THEN @[b] ELSE "none"]]

View ==
  <<part, vars, savesVars, snapshotVars, returnVars, focusVars, mouthsVars,
    fireVars,
    IF part = "pads"
    THEN [padsVars EXCEPT ![3] = [s \in DOMAIN @ |-> Unread(@[s])]] ELSE Off,
    scriptVars, configVars, streamVars, clipsVars>>

(* Clips for ModAudio.                                                     *)
Clip(f, c, s) == [frames |-> f, channels |-> c, step |-> s]
MCShapes   == {Clip(1, 2, 1), Clip(2, 1, 3)}
MCCueShape == Clip(2, 1, 2)
=============================================================================
