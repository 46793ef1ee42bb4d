----------------------------- MODULE HostScript -----------------------------
(* The input script of the command line (main.c): LoadScript turns lines   *)
(* into entries, and TickScript gives every frame its buttons, saving and  *)
(* loading states on the way.  Wording and the numbers of states are left  *)
(* out; a button is its name.                                              *)
EXTENDS Naturals, Sequences, FiniteSets, SequencesExt

CONSTANTS
  MaxLines,    \* lines of a script
  MaxFrames    \* the longest wait and hold

VARIABLES
  script,    \* g_script_entries
  index,     \* g_script_index
  phase,     \* g_script_phase: "hold" or "wait"
  counter,   \* g_script_counter
  log        \* what happened so far: a frame's buttons, or a save or a load

vars == <<script, index, phase, counter, log>>

(* Lines: waits add up, until a command takes them.                        *)
Lines == {[do |-> "wait", n |-> k] : k \in 1 .. MaxFrames}
         \union {[do |-> "press", n |-> k] : k \in 1 .. MaxFrames}
         \union {[do |-> c, n |-> 1] : c \in {"save", "load"}}

LoadScript(lines) ==
  LET Read(line, got) ==
        IF line.do = "wait" THEN [got EXCEPT !.wait = @ + line.n]
        ELSE [wait |-> 0,
              list |-> Append(got.list, [cmd |-> line.do, hold |-> line.n,
                                         wait |-> got.wait])]
  IN  FoldRight(Read, Reverse(lines), [wait |-> 0, list |-> <<>>]).list

Init ==
  /\ \E lines \in SeqOf(Lines, MaxLines) : script = LoadScript(lines)
  /\ index = 1 /\ phase = "wait" /\ log = <<>>
  /\ counter = IF script = <<>> THEN 0 ELSE script[1].wait

Pressed == [frame |-> "pressed"]
Released == [frame |-> "released"]
Did(cmd) == [frame |-> cmd]

----------------------------------------------------------------------------
(* TickScript: one frame.                                                  *)

(* A save that follows at once is made before the frame that releases the  *)
(* buttons: what was held is still held in it.                             *)
SavesAfter(i) ==
  LET due == {k \in i .. Len(script) :
                \A j \in i .. k : script[j].cmd = "save" /\ script[j].wait = 0}
  IN  [j \in 1 .. Cardinality(due) |-> Did("save")]

Waits ==
  /\ phase = "wait" /\ counter > 0
  /\ counter' = counter - 1 /\ log' = Append(log, Released)
  /\ UNCHANGED <<index, phase>>

Held(entry) == IF entry.cmd = "press" THEN <<Pressed>>
               ELSE <<Did(entry.cmd), Released>>

(* The wait is over and the hold begins in the same frame.                 *)
Holds ==
  LET left == IF phase = "wait" THEN script[index].hold ELSE counter
  IN  /\ phase = "wait" => counter = 0
      /\ left > 0
      /\ phase' = "hold" /\ counter' = left - 1
      /\ log' = log \o Held(script[index])
      /\ UNCHANGED index

Advances ==
  /\ phase = "hold" /\ counter = 0
  /\ LET saves == SavesAfter(index + 1)
         next == index + 1 + Len(saves)
     IN  /\ index' = next
         /\ log' = log \o saves \o <<Released>>
         /\ phase' = IF next <= Len(script) THEN "wait" ELSE phase
         /\ counter' = IF next <= Len(script) THEN script[next].wait ELSE counter

TickScript ==
  /\ index <= Len(script) /\ (Waits \/ Holds \/ Advances)
  /\ UNCHANGED script

Next == TickScript

Spec == Init /\ [][Next]_vars

----------------------------------------------------------------------------
(* What a script says, entry by entry: its wait, its buttons for as long   *)
(* as they are held or its state, and a frame with everything released.    *)
(* A state saved at once after buttons is of their last frame.             *)
Says(i) ==
  LET e == script[i]
      alone == [j \in 1 .. e.wait |-> Released]
      joins == i > 1 /\ e.cmd = "save" /\ e.wait = 0
  IN  IF joins THEN <<Did("save")>>
      ELSE alone \o (IF e.cmd = "press" THEN [j \in 1 .. e.hold |-> Pressed]
                     ELSE <<Did(e.cmd), Released>>)

LastOfRun(i) ==
  i = Len(script) \/ script[i + 1].cmd # "save" \/ script[i + 1].wait > 0

Meant == LET m[i \in 0 .. Len(script)] ==
               IF i = 0 THEN <<>>
               ELSE m[i - 1] \o Says(i) \o
                    (IF LastOfRun(i) THEN <<Released>> ELSE <<>>)
         IN  m[Len(script)]

(* The frames are those the script means: no button is held a frame longer *)
(* or shorter, and a state saved after buttons still holds them (LoadScript *)
(* and TickScript, main.c:326-434).                                        *)
ScriptPlayedOut ==
  /\ IsPrefix(log, Meant)
  /\ index > Len(script) => log = Meant
=============================================================================
