---------------------------- MODULE CoopSnapshot ----------------------------
(* The native co-op part of a save state (coop_machine.c, coop_state.c): a *)
(* header, the session, the actors with their pictures, and the records    *)
(* that later versions of the program appended: entities (from version 3),  *)
(* camera (4), mounts and sources (5), fireballs (6), stored mounts (7) and *)
(* placed eggs (8).  A load reads the records one after the other into a   *)
(* machine of its own and commits it when all of them hold.  A record is    *)
(* the tuple of its words, of which those are kept that a check reads; an   *)
(* image of the guest and a picture are one word, and the checksums fit.   *)
EXTENDS Naturals, Sequences, FiniteSets, SequencesExt

CONSTANTS
  Machines,  \* the machines a process may come to have
  Values,    \* the words a file may be altered to hold
  Versions   \* the versions files were written with, the last being this one

VARIABLES
  live,      \* the machine
  file,      \* the words of the state in the slot
  origin     \* where the file came from: "none", "saved", "older", "altered"

vars == <<live, file, origin>>

Nobody == 0                          \* COOP_NO_PLAYER, COOP_NO_ENTITY
MaxPieces == 1                       \* COOP_BODY_PIECES, COOP_MOUNT_PIECES
MaxWord == 9                         \* the greatest position, 65535
Yoshi == 5                           \* sprite type 0x35
Current == CHOOSE v \in Versions : \A w \in Versions : w <= v

PieceValid(piece) == piece < MaxWord \* piece_valid: its size and priority
Distinct(s) == \A i, j \in DOMAIN s : s[i] = s[j] => i = j
Heads(s) == [i \in DOMAIN s |-> s[i][1]]

----------------------------------------------------------------------------
(* A machine: players <<id, mount, held>>; actors with their head          *)
(* <<player, image>> and pictures     ; entities <<id, slot, type, owner,  *)
(* flags>>, flags 1 held, 2 ridden; mounts with head <<id, image>>; sources *)
(* <<place, uses>>; a fireball per actor, head <<id, image>>; stored mounts *)
(* <<id, color>>; placed eggs <<place, uses, egg>>.                         *)

Stored(m) == {i \in DOMAIN m.stored : m.stored[i][1] # Nobody}
PlayerIds(m) == {m.players[i][1] : i \in DOMAIN m.players}
EntityIds(m) == {m.entities[i][1] : i \in DOMAIN m.entities}

HoldsOne(m, p, what, flag) ==
  \/ p[what] = Nobody
  \/ \E i \in DOMAIN m.entities :
       LET e == m.entities[i] IN e[1] = p[what] /\ e[4] = p[1] /\ e[5] = flag

EntityValid(m, e) ==
  /\ e[1] \in 1 .. m.next - 1 /\ e[5] \in {0, 1, 2}
  /\ e[4] \in PlayerIds(m) \cup {Nobody} /\ (e[4] = Nobody <=> e[5] = 0)
  /\ \A i \in DOMAIN m.players :
       LET p == m.players[i] IN
       p[1] = e[4] => (e[5] = 1 => p[3] = e[1]) /\ (e[5] = 2 => p[2] = e[1])

EggValid(m, s) ==
  /\ s[2] <= Len(m.actors)
  /\ s[3] # Nobody => \E i \in DOMAIN m.entities :
                        m.entities[i][1] = s[3] /\ m.entities[i][5] = 0

ShotValid(m, f) ==
  /\ f.head[1] < m.next
  /\ (f.head[1] = Nobody \/ ~m.shotsKnown) =>
       f.head[2] = 0 /\ f.pending = <<>> /\ f.visible = <<>>
  /\ f.head[1] \notin EntityIds(m)

(* entities_valid                                                          *)
Valid(m) ==
  /\ m.next > 0
  /\ Distinct(Heads(m.entities)) /\ Distinct([i \in DOMAIN m.entities |-> m.entities[i][2]])
  /\ \A i \in DOMAIN m.entities : EntityValid(m, m.entities[i])
  /\ \A i \in DOMAIN m.mounts : \E j \in DOMAIN m.entities :
       m.entities[j][1] = m.mounts[i].head[1] /\ m.entities[j][3] = Yoshi
  /\ Distinct(Heads(m.sources)) /\ \A i \in DOMAIN m.sources : m.sources[i][2] <= Len(m.actors)
  /\ Distinct(Heads(m.eggs)) /\ \A i \in DOMAIN m.eggs : EggValid(m, m.eggs[i])
  /\ \A i \in DOMAIN m.players :
       HoldsOne(m, m.players[i], 3, 1) /\ HoldsOne(m, m.players[i], 2, 2)
  /\ \A i \in DOMAIN m.stored \ Stored(m) : m.stored[i][2] = 0
  /\ \A i \in Stored(m) :
       /\ m.stored[i][1] < m.next /\ m.stored[i][1] \notin EntityIds(m)
       /\ \A j \in DOMAIN m.players :
            m.players[j][1] = m.actors[i].head[1] => m.players[j][2] = Nobody
       /\ \A j \in DOMAIN m.shots : m.shots[j].head[1] # m.stored[i][1]
       /\ \A j \in Stored(m) : m.stored[j] [1] = m.stored[i][1] => i = j
  /\ \A i \in DOMAIN m.shots :
       /\ ShotValid(m, m.shots[i])
       /\ \A j \in DOMAIN m.shots :
            m.shots[i].head[1] = m.shots[j].head[1] => i = j \/ m.shots[i].head[1] = Nobody

----------------------------------------------------------------------------
(* Save.                                                                   *)

Bit(b) == IF b THEN 1 ELSE 0

Pictured(r) == r.head \o <<Len(r.pending), Len(r.visible)>> \o r.pending \o r.visible
AllOf(s) == FlattenSeq([i \in DOMAIN s |-> Pictured(s[i])])

(* coop_session_save                                                       *)
CoreWords(m) == <<70, Len(m.players)>> \o FlattenSeq(m.players)

Sections(m) ==
  [v \in 2 .. 8 |->
     CASE v = 2 -> AllOf(m.actors)
       [] v = 3 -> <<73, Len(m.entities), m.next>> \o FlattenSeq(m.entities)
       [] v = 4 -> <<74>> \o m.focus
       [] v = 5 -> <<75, Len(m.mounts), Len(m.sources), Bit(m.mountsKnown)>>
                     \o AllOf(m.mounts) \o FlattenSeq(m.sources)
       [] v = 6 -> <<76, Len(m.actors), Bit(m.shotsKnown)>> \o AllOf(m.shots)
       [] v = 7 -> <<77, Len(m.actors), Bit(m.entrance), 0>> \o FlattenSeq(m.stored)
       [] OTHER -> <<78, Len(m.eggs)>> \o FlattenSeq(m.eggs)]

(* What a program of version v writes of a machine.                        *)
WordsOf(m, v) ==
  <<72, v, Len(CoreWords(m)), Len(m.actors)>> \o CoreWords(m)
    \o FlattenSeq([i \in 1 .. v - 1 |-> Sections(m)[i + 1]])

PicturesValid(m) ==
  \A s \in {m.actors, m.mounts, m.shots} : \A i \in DOMAIN s :
    \A j \in DOMAIN (s[i].pending \o s[i].visible) : PieceValid((s[i].pending \o s[i].visible)[j])

(* coop_machine_save                                                       *)
Saves(m) ==
  /\ Len(m.actors) = Len(m.players) /\ Valid(m) /\ PicturesValid(m)

----------------------------------------------------------------------------
(* Load.  A reader is at a word of the file, 0 once something failed.      *)

Bad == [at |-> 0, got |-> <<>>]
Take(w, at, n) ==
  IF at = 0 \/ at + n - 1 > Len(w) THEN Bad
  ELSE [at |-> at + n, got |-> SubSeq(w, at, at + n - 1)]

Many(w, at, n, Item(_, _)) ==
  FoldLeft(LAMBDA r, i : LET x == Item(w, r.at) IN
                         IF x.at = 0 THEN Bad ELSE [at |-> x.at, got |-> Append(r.got, x.got)],
           [at |-> at, got |-> <<>>], [i \in 1 .. n |-> i])

(* The head of a record, the numbers of its pictures, and those.           *)
TakePictured(w, at) ==
  LET head == Take(w, at, 2)
      counts == Take(w, head.at, 2)
      pending == Take(w, counts.at, counts.got[1])
      visible == Take(w, pending.at, counts.got[2])
      all == pending.got \o visible.got
  IN IF counts.at = 0 THEN Bad
     ELSE IF \/ counts.got[1] > MaxPieces \/ counts.got[2] > MaxPieces
             \/ visible.at = 0 \/ \E i \in DOMAIN all : ~PieceValid(all[i])
          THEN Bad
          ELSE [at |-> visible.at,
                got |-> [head |-> head.got, pending |-> pending.got, visible |-> visible.got]]

Take2(w, at) == Take(w, at, 2)
Take3(w, at) == Take(w, at, 3)
Take5(w, at) == Take(w, at, 5)

(* A section's tag and counts; then those of its fields that must hold.    *)
Opens(w, at, tag, n) == LET h == Take(w, at, n) IN IF h.at # 0 /\ h.got[1] = tag THEN h ELSE Bad

Blank(count) ==
  [entities |-> <<>>, next |-> 1, focus |-> <<0, 0, 0, 0, 0>>, mounts |-> <<>>,
   sources |-> <<>>, mountsKnown |-> FALSE, shotsKnown |-> FALSE, entrance |-> FALSE,
   shots |-> [i \in 1 .. count |-> [head |-> <<0, 0>>, pending |-> <<>>, visible |-> <<>>]],
   stored |-> [i \in 1 .. count |-> <<0, 0>>], eggs |-> <<>>]

Reader(at, m) == [at |-> at, m |-> m]
Lost == Reader(0, [next |-> 0])

ReadEntities(w, r) ==
  LET h == Opens(w, r.at, 73, 3)
      list == Many(w, h.at, h.got[2], Take5)
  IN IF h.at = 0 \/ list.at = 0 THEN Lost
     ELSE Reader(list.at, [r.m EXCEPT !.entities = list.got, !.next = h.got[3]])

(* Mutant: the camera's words may be any.                                  *)
ReadFocusAny(w, r, count) ==
  LET h == Opens(w, r.at, 74, 6) IN
  IF h.at = 0 \/ h.got[4] > count \/ h.got[6] > 1 THEN Lost
  ELSE Reader(h.at, [r.m EXCEPT !.focus = [SubSeq(h.got, 2, 6) EXCEPT ![4] = Bit(@ # 0)]])

(* Mutant: a count of the whole roster is out of range.                    *)
ReadFocusBelow(w, r, count) ==
  LET h == Opens(w, r.at, 74, 6) IN
  IF h.at = 0 \/ h.got[4] >= count \/ h.got[5] > 1 \/ h.got[6] > 1
     \/ h.got[2] > MaxWord \/ h.got[3] > MaxWord THEN Lost
  ELSE Reader(h.at, [r.m EXCEPT !.focus = SubSeq(h.got, 2, 6)])

(* Position, centre, count, known, hold.                                   *)
ReadFocus(w, r, count) ==
  LET h == Opens(w, r.at, 74, 6) IN
  IF h.at = 0 \/ h.got[4] > count \/ h.got[5] > 1 \/ h.got[6] > 1
     \/ h.got[2] > MaxWord \/ h.got[3] > MaxWord THEN Lost
  ELSE Reader(h.at, [r.m EXCEPT !.focus = SubSeq(h.got, 2, 6)])

(* A mount's record must name an entity, and no two the same.              *)
MountsFit(m, mounts) ==
  /\ Distinct([i \in DOMAIN mounts |-> mounts[i].head[1]])
  /\ \A i \in DOMAIN mounts : mounts[i].head[1] \in EntityIds(m)

ReadMounts(w, r) ==
  LET h == Opens(w, r.at, 75, 4)
      mounts == Many(w, h.at, h.got[2], TakePictured)
      sources == Many(w, mounts.at, h.got[3], Take2)
  IN IF h.at = 0 \/ h.got[4] > 1 THEN Lost
     ELSE IF h.got[2] > Len(r.m.entities) \/ sources.at = 0 THEN Lost
     ELSE IF ~MountsFit(r.m, mounts.got) THEN Lost
     ELSE Reader(sources.at, [r.m EXCEPT !.mounts = mounts.got, !.sources = sources.got,
                                         !.mountsKnown = h.got[4] = 1])

ReadShots(w, r, count) ==
  LET h == Opens(w, r.at, 76, 3)
      shots == Many(w, h.at, count, TakePictured)
  IN IF h.at = 0 \/ h.got[2] # count \/ h.got[3] > 1 \/ shots.at = 0 THEN Lost
     ELSE Reader(shots.at, [r.m EXCEPT !.shots = shots.got, !.shotsKnown = h.got[3] = 1])

ReadStored(w, r, count) ==
  LET h == Opens(w, r.at, 77, 4)
      stored == Many(w, h.at, count, Take2)
  IN IF h.at = 0 \/ h.got[2] # count \/ h.got[3] > 1 \/ h.got[4] # 0 \/ stored.at = 0 THEN Lost
     ELSE Reader(stored.at, [r.m EXCEPT !.stored = stored.got, !.entrance = h.got[3] = 1])

ReadEggs(w, r) ==
  LET h == Opens(w, r.at, 78, 2)
      eggs == Many(w, h.at, h.got[2], Take3)
  IN IF h.at = 0 \/ eggs.at = 0 THEN Lost
     ELSE Reader(eggs.at, [r.m EXCEPT !.eggs = eggs.got])

ReadSection(w, r, v, count) ==
  IF r.at = 0 THEN Lost
  ELSE CASE v = 3 -> ReadEntities(w, r)
         [] v = 4 -> ReadFocus(w, r, count)
         [] v = 5 -> ReadMounts(w, r)
         [] v = 6 -> ReadShots(w, r, count)
         [] v = 7 -> ReadStored(w, r, count)
         [] v = 8 -> ReadEggs(w, r)

(* The records that the file's version has, in order.                      *)
ReadRest(w, r, v, count) ==
  FoldLeft(LAMBDA s, n : ReadSection(w, s, n + 2, count), r, [n \in 1 .. v - 2 |-> n])

(* coop_session_load: of the length its counts say, and with no mount or   *)
(* object that two players have.                                           *)
CoreHolds(core) ==
  /\ Len(core) >= 2 /\ core[1] = 70 /\ Len(core) = 2 + 3 * core[2] /\ core[2] >= 2
CorePlayers(core) == Many(core, 3, core[2], Take3).got
SessionValid(players) ==
  \A i, j \in DOMAIN players :
    i # j => /\ players[i][1] # players[j][1]
             /\ \A f \in {2, 3} : players[i][f] = Nobody \/ players[i][f] # players[j][f]

(* The heads of the actors: one each of the session's players.  A file of  *)
(* version 2 knows no ownership and may have none in a guest image.        *)
ActorsHold(actors, players, v) ==
  /\ \A i \in DOMAIN actors :
       /\ \E j \in DOMAIN players : players[j][1] = actors[i].head[1]
       /\ \A j \in DOMAIN actors : i # j => actors[i].head[1] # actors[j].head[1]
  /\ v = 2 => \A i \in DOMAIN actors : actors[i].head[2] = 0

(* coop_machine_load: the machine in the file, if it is taken.             *)
Refused == [taken |-> FALSE, m |-> <<>>]

Decode(w) ==
  LET head == Take(w, 1, 4)
      core == Take(w, 5, head.got[3])
      players == CorePlayers(core.got)
      count == head.got[4]
      actors == Many(w, core.at, count, TakePictured)
      start == [players |-> players, actors |-> actors.got] @@ Blank(count)
      last == ReadRest(w, Reader(actors.at, start), head.got[2], count)
  IN IF head.at = 0 THEN Refused
     ELSE IF head.got[1] # 72 \/ head.got[2] \notin Versions \/ core.at = 0 THEN Refused
     ELSE IF ~CoreHolds(core.got) THEN Refused
     ELSE IF ~SessionValid(players) \/ count # Len(players) \/ actors.at = 0 THEN Refused
     ELSE IF ~ActorsHold(actors.got, players, head.got[2]) THEN Refused
     ELSE IF last.at # Len(w) + 1 THEN Refused
     ELSE IF ~Valid(last.m) THEN Refused
     ELSE [taken |-> TRUE, m |-> last.m]

----------------------------------------------------------------------------
NoFile == <<>>

Init == live \in Machines /\ file = NoFile /\ origin = "none"

Play == live' \in Machines /\ UNCHANGED <<file, origin>>

Save ==
  /\ live \in Machines                 \* bound: not what an altered file held
  /\ Saves(live) /\ file' = WordsOf(live, Current) /\ origin' = "saved"
  /\ UNCHANGED live

(* A file of an earlier version of the program.                            *)
FindOlder ==
  /\ origin = "none"
  /\ \E m \in Machines, v \in Versions \ {Current} :
       Saves(m) /\ file' = WordsOf(m, v)
  /\ origin' = "older" /\ UNCHANGED live

(* The file is cut, continued or altered.                                  *)
Alter ==
  /\ origin \in {"saved", "older"} /\ origin' = "altered" /\ UNCHANGED live
  /\ LET w == file IN
     \/ \E n \in 0 .. Len(w) - 1 : file' = SubSeq(w, 1, n)
     \/ \E x \in Values : file' = Append(w, x)
     \/ \E i \in DOMAIN w, x \in Values :
          w[i] # x /\ file' = [w EXCEPT ![i] = x]

Load ==
  /\ file # NoFile
  /\ live' = IF Decode(file).taken THEN Decode(file).m ELSE live
  /\ UNCHANGED <<file, origin>>

Next == Play \/ Save \/ FindOlder \/ Alter \/ Load

Spec == Init /\ [][Next]_vars

----------------------------------------------------------------------------
(* A state that is saved loads again, and is the machine that was saved    *)
(* (coop_machine_save, coop_machine_load).                                 *)
SavedComesBack ==
  [][origin' = "saved" /\ origin # "saved" => Decode(file') = [taken |-> TRUE, m |-> live]]_vars

(* No word of a file that is taken is ignored or reinterpreted, whatever   *)
(* was altered in it and whatever version wrote it: the machine read from  *)
(* it may be saved, and the program that wrote the file would write the    *)
(* same file of it (coop_machine_load's checks, entities_valid).           *)
NothingIgnored ==
  LET d == Decode(file) IN
  file # NoFile /\ d.taken => Saves(d.m) /\ WordsOf(d.m, file[2]) = file
=============================================================================
