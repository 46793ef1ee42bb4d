------------------------------ MODULE SaveStore ------------------------------
(***************************************************************************)
(* What the save storage of the native co-op mode promises, whatever       *)
(* threads and lists implement it.  There are several campaigns, each with *)
(* its own save file (a save namespace).  The program always knows the     *)
(* newest contents of every campaign; files only ever move forward towards *)
(* those contents; a close that reports success leaves nothing unsaved.    *)
(*                                                                         *)
(* Contents are abstracted to the stamp of the edit that produced them:    *)
(* 0 is a blank save and a larger stamp is a newer save.                   *)
(***************************************************************************)
EXTENDS Naturals

CONSTANTS
  Namespace,    \* the save namespaces (solo, and one per co-op player count)
  NoNamespace   \* no namespace has been selected yet

VARIABLES
  active,       \* the namespace the game is playing in
  mem,          \* the newest contents of each namespace
  disk,         \* the contents of each namespace's file
  status        \* "open" while the program runs; how it last closed otherwise

vars == <<active, mem, disk, status>>

Init ==
  /\ active = NoNamespace
  /\ disk \in [Namespace -> Nat]
  /\ mem = disk
  /\ status = "lost"

(* The program starts: it may resume the remembered namespace.             *)
Open ==
  /\ status # "open"
  /\ status' = "open"
  /\ active' \in Namespace \cup {NoNamespace}
  /\ UNCHANGED <<mem, disk>>

(* The game changes the save it is playing in.                             *)
Edit ==
  /\ status = "open"
  /\ active \in Namespace
  /\ mem' = [mem EXCEPT ![active] = mem'[active]]
  /\ mem'[active] > mem[active]
  /\ UNCHANGED <<active, disk, status>>

(* Switching namespaces loses nothing and needs no file access to finish.  *)
Select(n) ==
  /\ status = "open"
  /\ active' = n
  /\ UNCHANGED <<mem, disk, status>>

(* Some file catches up, never past the newest contents.                   *)
Publish(n) ==
  /\ status = "open"
  /\ disk' = [disk EXCEPT ![n] = disk'[n]]
  /\ disk[n] < disk'[n] /\ disk'[n] <= mem[n]
  /\ UNCHANGED <<active, mem, status>>

(* A clean close: everything is on disk.                                   *)
CloseSaved ==
  /\ status = "open"
  /\ mem = disk
  /\ status' = "saved"
  /\ active' = NoNamespace
  /\ UNCHANGED <<mem, disk>>

(* A crash, or the user's choice to quit without saving.                   *)
CloseLost ==
  /\ status = "open"
  /\ mem' = disk
  /\ status' = "lost"
  /\ active' = NoNamespace
  /\ UNCHANGED disk

Next ==
  \/ Open
  \/ Edit
  \/ \E n \in Namespace : Select(n) \/ Publish(n)
  \/ CloseSaved
  \/ CloseLost

Spec == Init /\ [][Next]_vars
=============================================================================
