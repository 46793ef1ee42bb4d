----------------------------- MODULE HostConfig -----------------------------
(* The settings' file and the launcher (config.c, main.c): a process reads *)
(* the file, and the developer's local one after it; the launcher rewrites *)
(* the hotkeys in the file and the settings in memory; play writes the     *)
(* settings back in place and reads the hotkeys again.  Five settings      *)
(* stand for all: one the reader resets to a default and one it does not,  *)
(* one whose name begins another's, and one the launcher does not own.     *)
(* Values are numbers; their texts, includes and syntax errors are left    *)
(* out.                                                                    *)
EXTENDS Naturals, Sequences, FiniteSets, SequencesExt

CONSTANTS
  Files,    \* the files a player may have
  Locals    \* the local files a developer may have, <<>> for none

VARIABLES
  at,       \* "off", "launcher" or "play"
  file,     \* config.ini
  local,    \* config.local.ini
  config,   \* g_config
  keys,     \* keymap_hash: a key's command
  chosen    \* history: the last play's choices, or what a launcher that was
            \* closed first wrote, and the file that was rewritten

vars == <<at, file, local, config, keys, chosen>>

Section(s) == [kind |-> "section", name |-> s]
Entry(k, v) == [kind |-> "entry", name |-> k, value |-> v]

(* Setting, section, and the value ParseConfigFile starts from, if any.    *)
SectionOf == [WindowScale |-> "Graphics", EnableAudio |-> "Sound",
              Deadzone |-> "GamepadMap", DeadzoneP2 |-> "GamepadMap",
              DisableFrameDelay |-> "General"]
Settings == DOMAIN SectionOf
Defaults == [EnableAudio |-> 1, Deadzone |-> 3, DeadzoneP2 |-> 3]
(* The order of WriteConfigFile's table.                                   *)
Owned == <<"WindowScale", "EnableAudio", "Deadzone", "DeadzoneP2">>

DefaultKey == [Pause |-> "p", Turbo |-> "tab"]
NoKeys == [k \in {} |-> "none"]
KeyOrder == <<"Pause", "Turbo">>

----------------------------------------------------------------------------
(* Reading.  A line counts in its section only, and the last one wins; of  *)
(* two commands on a key the first keeps it.                               *)

SectionAt(f, i) ==
  LET heads == {j \in 1 .. i : f[j].kind = "section"}
  IN  IF heads = {} THEN "" ELSE f[CHOOSE j \in heads : \A k \in heads : k <= j].name

EntriesOf(f, section) ==
  {i \in DOMAIN f : f[i].kind = "entry" /\ SectionAt(f, i) = section}

HandleIniConfig(f, c) ==
  [s \in Settings |->
     LET of == {i \in EntriesOf(f, SectionOf[s]) : f[i].name = s}
     IN  IF of = {} THEN c[s]
         ELSE f[CHOOSE i \in of : \A j \in of : j <= i].value]

KeyMapHash_Add(map, key, cmd) ==
  IF key \in DOMAIN map THEN map
  ELSE [k \in DOMAIN map \union {key} |-> IF k = key THEN cmd ELSE map[k]]

ParseKeyMap(f, map) ==
  LET m[i \in 0 .. Len(f)] ==
        IF i = 0 THEN map
        ELSE IF i \in EntriesOf(f, "KeyMap")
             THEN KeyMapHash_Add(m[i - 1], f[i].value, f[i].name)
             ELSE m[i - 1]
  IN  m[Len(f)]

Mentioned(f) == {f[i].name : i \in EntriesOf(f, "KeyMap")}

RegisterDefaultKeys(mentioned, map) ==
  LET m[i \in 0 .. Len(KeyOrder)] ==
        IF i = 0 THEN map
        ELSE IF KeyOrder[i] \in mentioned THEN m[i - 1]
        ELSE KeyMapHash_Add(m[i - 1], DefaultKey[KeyOrder[i]], KeyOrder[i])
  IN  m[Len(KeyOrder)]

WithDefaults(c) ==
  [s \in Settings |-> IF s \in DOMAIN Defaults THEN Defaults[s] ELSE c[s]]

(* ParseConfigFile, for the file and then for the local one.               *)
Unread == [s \in Settings |-> 0]
ReadFile(f) == [config |-> HandleIniConfig(f, WithDefaults(Unread)),
                keys |-> RegisterDefaultKeys(Mentioned(f), ParseKeyMap(f, NoKeys))]
ReadLocal(l, got) ==
  IF l = <<>> THEN got
  ELSE [config |-> HandleIniConfig(l, WithDefaults(got.config)),
        keys |-> ParseKeyMap(l, got.keys)]

----------------------------------------------------------------------------
(* WriteConfigFile: line by line, a setting that was not written yet takes *)
(* the place of the first line that names it, if only in a comment; what   *)
(* a section lacks is put at its end, and what has no section at the end   *)
(* of the file.                                                            *)

(* Mutant: a line names every setting its key begins with.                 *)
IsKeyOrLonger(line, s) ==
  line.name = s \/ (s = "Deadzone" /\ line.name = "DeadzoneP2")

CfgLineIsKey(line, s) == line.name = s

CfgFlushSection(section, done) ==
  LET mine == SelectSeq(Owned, LAMBDA s : SectionOf[s] = section /\ s \notin done)
  IN  [lines |-> mine, done |-> done \union ToSet(mine)]

(* A window scale that was never set is written as 3.                      *)
Written(c, s) == IF s = "WindowScale" /\ c[s] = 0 THEN 3 ELSE c[s]

Emit(c, names) == [i \in DOMAIN names |-> Entry(names[i], Written(c, names[i]))]

WriteLine(f, i, c, w) ==
  LET here == SectionAt(f, i)
      before == IF i = 1 THEN "" ELSE SectionAt(f, i - 1)
      left == CfgFlushSection(before, w.done)
      fits == SelectSeq(Owned, LAMBDA s : /\ s \notin w.done
                                          /\ SectionOf[s] = here
                                          /\ CfgLineIsKey(f[i], s))
  IN  IF f[i].kind = "section"
      THEN [out |-> w.out \o Emit(c, left.lines) \o <<f[i]>>, done |-> left.done]
      ELSE IF fits = <<>> THEN [w EXCEPT !.out = Append(@, f[i])]
      ELSE [out |-> w.out \o Emit(c, <<fits[1]>>),
            done |-> w.done \union {fits[1]}]

NewSection(c, s, w) ==
  LET mine == CfgFlushSection(SectionOf[s], w.done)
  IN  IF s \in w.done THEN w
      ELSE [out |-> w.out \o <<Section(SectionOf[s])>> \o Emit(c, mine.lines),
            done |-> mine.done]

WriteConfigFile(f, c) ==
  LET w[i \in 0 .. Len(f)] ==
        IF i = 0 THEN [out |-> <<>>, done |-> {}]
        ELSE WriteLine(f, i, c, w[i - 1])
      last == CfgFlushSection(SectionAt(f, Len(f)), w[Len(f)].done)
      n[i \in 0 .. Len(Owned)] ==
        IF i = 0 THEN [out |-> w[Len(f)].out \o Emit(c, last.lines),
                       done |-> last.done]
        ELSE NewSection(c, Owned[i], n[i - 1])
  IN  n[Len(Owned)].out

----------------------------------------------------------------------------
Nothing == [has |-> FALSE]

Init ==
  /\ at = "off" /\ file \in Files /\ local \in Locals
  /\ config = Unread /\ keys = NoKeys /\ chosen = Nothing

Boot ==
  /\ at = "off" /\ at' = "launcher"
  /\ LET got == ReadLocal(local, ReadFile(file))
     IN  config' = got.config /\ keys' = got.keys
  /\ UNCHANGED <<file, local, chosen>>

(* The launcher's hotkey editor puts a key of its own into the file.       *)
RebindHotkey ==
  /\ at = "launcher"
  /\ \E i \in EntriesOf(file, "KeyMap"), key \in {"p", "tab", "x"} :
       file' = [file EXCEPT ![i].value = key]
  /\ UNCHANGED <<at, local, config, keys, chosen>>

(* Its settings are taken over, with the audio on; the file is written,    *)
(* and the hotkeys are read from it again.                                 *)
ConfigReloadKeyMap(f) ==
  RegisterDefaultKeys(Mentioned(f), ParseKeyMap(f, NoKeys))

Play ==
  /\ at = "launcher" /\ at' = "play"
  /\ \E scale, zone \in {1, 2} :
       config' = [config EXCEPT !.WindowScale = scale, !.EnableAudio = 1,
                                !.Deadzone = zone, !.DeadzoneP2 = 3 - zone]
  /\ file' = WriteConfigFile(file, config')
  /\ keys' = ConfigReloadKeyMap(file')
  /\ chosen' = [has |-> TRUE, config |-> config', before |-> file]
  /\ UNCHANGED local

(* Closing the launcher writes what was read.                              *)
CloseLauncher ==
  /\ at = "launcher" /\ at' = "off"
  /\ file' = WriteConfigFile(file, config) /\ UNCHANGED local
  /\ chosen' = IF chosen.has THEN chosen
               ELSE [has |-> TRUE, config |-> config, before |-> file]
  /\ config' = Unread /\ keys' = NoKeys

Quit ==
  /\ at = "play" /\ at' = "off"
  /\ config' = Unread /\ keys' = NoKeys /\ UNCHANGED <<file, local, chosen>>

Next == Boot \/ RebindHotkey \/ Play \/ CloseLauncher \/ Quit

Spec == Init /\ [][Next]_vars

----------------------------------------------------------------------------
Owns(line) == line.kind # "section" /\ line.name \in ToSet(Owned)
Foreign(f) == SelectSeq(f, LAMBDA line : line.kind # "section" /\ ~Owns(line))

(* A file that sets s again, after the first line of its section that names *)
(* it, a comment included, or in a later piece of a section that is there  *)
(* more than once.                                                         *)
SetAgain(f, s) ==
  \E i \in EntriesOf(f, SectionOf[s]) :
    /\ f[i].name = s
    /\ \/ \E j \in 1 .. i - 1 : /\ f[j].kind # "section" /\ f[j].name = s
                                /\ SectionAt(f, j) = SectionOf[s]
       \/ \E j, k \in 1 .. i - 1 : /\ j < k /\ f[j] = Section(SectionOf[s])
                                   /\ f[k].kind = "section"

(* "so the chosen settings survive the next boot".                         *)
EveryChoiceSurvives ==
  chosen.has /\ at \in {"play", "off"} =>
    \A s \in ToSet(Owned) : ReadFile(file).config[s] = Written(chosen.config, s)

(* The chosen settings survive the next boots (config.c:578-591): what was  *)
(* written is what the next process reads, and writing it again changes    *)
(* nothing.  A setting that the file sets again after the line that is     *)
(* rewritten keeps the value it had, and no other choice is lost           *)
(* (config.c:721-734).  Everything the launcher does not own is left as it *)
(* was.  The hotkeys a player rebinds work in this process as in the next. *)
ChoicesSurvive ==
  chosen.has /\ at \in {"play", "off"} =>
    LET next == ReadFile(file)
        old == chosen.before
    IN  /\ \A s \in ToSet(Owned) :
             next.config[s] = IF SetAgain(old, s) THEN ReadFile(old).config[s]
                              ELSE Written(chosen.config, s)
        /\ at = "play" =>
             /\ WriteConfigFile(file, chosen.config) = file
             /\ Foreign(file) = Foreign(old)
             /\ keys = next.keys
=============================================================================
