------------------------------ MODULE HostPads ------------------------------
(* The host's game controllers (main.c, config.c): devices come and go,    *)
(* their events wait in a queue, a device is given one of two seats, and   *)
(* its buttons set and clear the bits of g_pad_buttons through the map of  *)
(* config.ini, whose entries may ask for other buttons to be held.  SDL is *)
(* external: it gives an arriving device the lowest free player index and  *)
(* releases the buttons of one that leaves.  There may be more devices     *)
(* than seats.  The sticks and the keyboard, whose state is read and not   *)
(* latched, are left out.                                                  *)
EXTENDS Naturals, Sequences, FiniteSets, SequencesExt

CONSTANTS
  Devices,     \* SDL's identities of controllers, numbers from 1 on
  Enabled,     \* the seats whose EnableGamepad is set
  QueueMax,    \* bound: events that may wait
  MaxHeld      \* bound: buttons held at once, on all controllers together

VARIABLES
  device,   \* per device: attached, its player index, the buttons held
  queue,    \* SDL's events, in order
  slot,     \* g_gamepad
  bits,     \* g_pad_buttons
  left      \* history: the bits set by devices whose seat another took over

vars == <<device, queue, slot, bits, left>>

Seats == {1, 2}
NoPad == 0
Buttons == {"A", "Lb"}

(* The map's entries in the order they were read: a seat's button, what    *)
(* must be held with it, and the command, a control or a host command.     *)
Entries == << [button |-> "A",  with |-> {},     cmd |-> "jump"],
              [button |-> "A",  with |-> {"Lb"}, cmd |-> "load"],
              [button |-> "Lb", with |-> {},     cmd |-> "grab"] >>
Controls == {"jump", "grab"}

Empty == [id |-> NoPad, mods |-> {}, last |-> [b \in Buttons |-> "none"]]

Init ==
  /\ device = [d \in Devices |-> [in |-> FALSE, index |-> 0, held |-> {}]]
  /\ queue = <<>> /\ bits = {} /\ left = {}
  /\ slot = [s \in Seats |-> Empty]

----------------------------------------------------------------------------
(* GamepadMap_Add puts an entry before those with as many modifiers or     *)
(* fewer; FindCmdForGamepadButton takes the first that is satisfied.       *)

GamepadMap_Add(list, e) ==
  LET more == {i \in DOMAIN list :
                 Cardinality(list[i].with) > Cardinality(e.with)}
      at == Cardinality(more) + 1
  IN  InsertAt(list, at, e)

JoyMap == LET m[n \in 0 .. Len(Entries)] ==
                IF n = 0 THEN <<>> ELSE GamepadMap_Add(m[n - 1], Entries[n])
          IN  m[Len(Entries)]

FindCmd(button, mods) ==
  LET fits == {i \in DOMAIN JoyMap : /\ JoyMap[i].button = button
                                     /\ JoyMap[i].with \subseteq mods}
  IN  IF fits = {} THEN "none"
      ELSE JoyMap[CHOOSE i \in fits : \A j \in fits : i <= j].cmd

----------------------------------------------------------------------------
(* Devices and their events.                                               *)

Room(n) == Len(queue) + n <= QueueMax

Indexes == {device[d].index : d \in {e \in Devices : device[e].in}}
FreeIndex == CHOOSE n \in 1 .. Cardinality(Devices) :
               /\ n \notin Indexes
               /\ \A k \in 1 .. n - 1 : k \in Indexes

Fresh(d) == ~device[d].in /\ \A i \in DOMAIN queue : queue[i].id # d

(* An arriving controller has an identity that nobody remembers, the least. *)
Attach(d) ==
  /\ Fresh(d) /\ Room(1)
  /\ \A e \in Devices : Fresh(e) => d <= e
  /\ device' = [device EXCEPT ![d] = [in |-> TRUE, index |-> FreeIndex,
                                      held |-> {}]]
  /\ queue' = Append(queue, [kind |-> "added", id |-> d])
  /\ UNCHANGED <<slot, bits, left>>

Up(d, b) == [kind |-> "button", id |-> d, button |-> b, down |-> FALSE]

Detach(d) ==
  /\ device[d].in /\ Room(Cardinality(device[d].held) + 1)
  /\ device' = [device EXCEPT ![d].in = FALSE, ![d].index = 0,
                                  ![d].held = {}]
  /\ \E order \in SetToAllKPermutations(device[d].held) :
       /\ Len(order) = Cardinality(device[d].held)
       /\ queue' = queue \o [i \in DOMAIN order |-> Up(d, order[i])]
                         \o <<[kind |-> "removed", id |-> d]>>
  /\ UNCHANGED <<slot, bits, left>>

Held == UNION {{d} \X device[d].held : d \in Devices}

(* The bound leaves room for an event behind a press.                       *)
Press(d, b) ==
  /\ device[d].in /\ Room(2)
  /\ LET down == b \notin device[d].held
     IN  /\ down => Cardinality(Held) < MaxHeld
         /\ device' = [device EXCEPT ![d].held =
                         IF down THEN @ \union {b} ELSE @ \ {b}]
         /\ queue' = Append(queue, [Up(d, b) EXCEPT !.down = down])
  /\ UNCHANGED <<slot, bits, left>>

----------------------------------------------------------------------------
(* OpenOneGamepad: a device that is still there and has no seat takes the  *)
(* seat of its player index, whoever sits there, or else the first empty   *)
(* one; only enabled seats count.                                          *)

SeatOf(d) == {s \in Seats : slot[s].id = d}

GivenSeat(d) ==
  LET own == device[d].index
      free == {s \in Enabled : slot[s].id = NoPad}
  IN  IF own \in Enabled THEN own
      ELSE IF free # {} THEN CHOOSE s \in free : \A t \in free : s <= t
      ELSE 0

OpenOneGamepad(d) ==
  LET s == GivenSeat(d)
  IN  /\ IF ~device[d].in \/ SeatOf(d) # {} \/ s = 0 THEN UNCHANGED <<slot, left>>
         ELSE /\ slot' = [slot EXCEPT ![s] = [Empty EXCEPT !.id = d]]
              /\ left' = left \union
                   {x \in bits : x[1] = s /\ slot[s].id # NoPad}
      /\ UNCHANGED bits

RemoveGamepad(d) ==
  /\ slot' = [s \in Seats |-> IF slot[s].id = d THEN Empty ELSE slot[s]]
  /\ UNCHANGED <<bits, left>>

(* HandleGamepadInput: a button that changes is looked up when it goes     *)
(* down, and what it did then is undone when it comes up.  A host command  *)
(* sets no bit (HandleCommand).                                            *)
Pressed(s, b) == FindCmd(b, slot[s].mods \union {b})

(* Mutant: the release is looked up again, with what is held by then.      *)
LookedUpAgain(s, b) == FindCmd(b, slot[s].mods)

Released(s, b) == slot[s].last[b]

HandleGamepadInput(s, b, down) ==
  IF (b \in slot[s].mods) = down THEN UNCHANGED <<slot, bits, left>>
  ELSE LET cmd == IF down THEN Pressed(s, b) ELSE Released(s, b)
           bit == {<<s, cmd>> : c \in {cmd} \intersect Controls}
       IN  /\ slot' = [slot EXCEPT
                ![s].mods = IF down THEN @ \union {b} ELSE @ \ {b},
                ![s].last[b] = IF down THEN cmd ELSE @]
           /\ bits' = IF down THEN bits \union bit ELSE bits \ bit
           /\ left' = left \ bit

(* One event.  Those of a device without a seat are dropped.               *)
Handle ==
  /\ queue # <<>> /\ queue' = Tail(queue)
  /\ LET e == Head(queue)
         at == SeatOf(e.id)
     IN  CASE e.kind = "added"   -> OpenOneGamepad(e.id)
           [] e.kind = "removed" -> RemoveGamepad(e.id)
           [] e.kind = "button"  ->
                IF at = {} THEN UNCHANGED <<slot, bits, left>>
                ELSE HandleGamepadInput(CHOOSE s \in at : TRUE,
                                        e.button, e.down)
  /\ UNCHANGED device

Next ==
  \/ \E d \in Devices : Attach(d) \/ Detach(d)
  \/ \E d \in Devices, b \in Buttons : Press(d, b)
  \/ Handle

Spec == Init /\ [][Next]_vars

----------------------------------------------------------------------------
(* A bit is held when a device with its seat holds a button whose press    *)
(* set it; modifiers may have changed since.                               *)
IsHeld(x) ==
  LET s == slot[x[1]]
  IN  s.id # NoPad /\ \E b \in device[s.id].held : s.last[b] = x[2]

(* "Inputs must not remain latched through reassignment."                  *)
NothingLatched == queue = <<>> => \A x \in bits : IsHeld(x)

(* A bit that the game still sees is held, whatever chords were pressed and *)
(* whichever seats were emptied and given away (HandleGamepadInput,        *)
(* SetPadButtonOrFallthrough).  Only a device whose seat was taken from    *)
(* under it leaves bits behind, until its successor releases the button    *)
(* (OpenOneGamepad, main.c:2974-2983).                                     *)
OnlyTheReplacedLatch == queue = <<>> => \A x \in bits \ left : IsHeld(x)

(* A controller whose player index is an enabled seat has that seat and no *)
(* other, in whatever order they came and went and whoever sat there; one  *)
(* whose index is none has one seat at most, and may wait while a seat is  *)
(* empty; what left has none (OpenOneGamepad).                             *)
EveryPadSeated ==
  queue = <<>> =>
    \A d \in Devices :
      IF ~device[d].in THEN SeatOf(d) = {}
      ELSE IF device[d].index \in Enabled THEN SeatOf(d) = {device[d].index}
      ELSE Cardinality(SeatOf(d)) <= 1

(* What is pressed on a pad reaches its player and nothing else does: the  *)
(* two above.                                                              *)
PadsReachTheirPlayers == OnlyTheReplacedLatch /\ EveryPadSeated
=============================================================================
