--------------------------- MODULE CoopKeptProofs ---------------------------
(* What two of the parts must keep between calls: the clips of ModAudio,   *)
(* for any pool, voices and shapes of clips, and the mouths of CoopMouths, *)
(* for any players, slots and berries.                                     *)
EXTENDS CoopParts, FiniteSetTheorems, WellFoundedInduction, TLAPS

(* A non-empty set of naturals has a least element.                        *)
LEMMA NatLeast ==
  ASSUME NEW T \in SUBSET Nat, T # {}
  PROVE  \E m \in T : \A n \in T : m <= n
<1> DEFINE R == OpToRel(<, Nat)
<1>1. IsWellFoundedOn(R, Nat)
  BY NatLessThanWellFounded
<1>2. ASSUME NEW x \in Nat, NEW y \in Nat, x < y PROVE <<x, y>> \in R
  BY <1>2 DEF OpToRel
<1> HIDE DEF R
<1>3. PICK m \in T : \A n \in T : ~(<<n, m>> \in R)
  BY <1>1, WFMin
<1>4. ASSUME NEW n \in T PROVE m <= n
  <2>1. m \in Nat /\ n \in Nat /\ ~(n < m)
    BY <1>2, <1>3
  <2> QED BY <2>1
<1> QED BY <1>4

-----------------------------------------------------------------------------
(* ModAudio.  The samples of some clips, whoever holds them, and how many  *)
(* there are: the bytes on account.                                        *)
ClipSlot == 1 .. ClipSlots
Shape == [frames : Nat \ {0}, channels : {1, 2}, step : Nat]
Held == Shape \union {Clips!Empty}
Length(s) == s.frames * s.channels
Samples(pool, slots) == UNION {{c} \X (1 .. Length(pool[c])) : c \in slots}

(* What the assumptions say of the pool.                                   *)
LEMMA PoolSizes ==
  /\ ClipSlots \in Nat /\ Voices \in Nat /\ Cues \in Nat /\ 1 <= Cues /\ One \in Nat \ {0}
  /\ Shapes \subseteq Shape /\ CueShape \in Shape
  /\ Clips!Slot = ClipSlot
BY ClipsAssumption DEF Shape, ClipSlot, Clips!Slot

(* A shape has samples, and an empty slot has none.                        *)
LEMMA LengthOfShape ==
  /\ \A s \in Shape : Length(s) \in Nat /\ s # Clips!Empty
  /\ Length(Clips!Empty) = 0
  /\ \A s \in Held : Length(s) \in Nat
<1>1. ASSUME NEW s \in Shape PROVE Length(s) \in Nat /\ s # Clips!Empty
  <2>1. s.frames \in Nat /\ s.frames # 0 /\ s.channels \in {1, 2}
    BY DEF Shape
  <2>2. CASE s.channels = 1
    BY <2>1, <2>2 DEF Length, Clips!Empty
  <2>3. CASE s.channels = 2
    BY <2>1, <2>3 DEF Length, Clips!Empty
  <2> QED BY <2>1, <2>2, <2>3
<1>2. Length(Clips!Empty) = 0
  BY DEF Length, Clips!Empty
<1> QED BY <1>1, <1>2 DEF Held

(* The samples of any slots are finitely many.                             *)
LEMMA SamplesAreFinite ==
  ASSUME NEW pool \in [ClipSlot -> Held], NEW slots \in SUBSET ClipSlot
  PROVE  IsFiniteSet(Samples(pool, slots))
<1> DEFINE row(c) == {c} \X (1 .. Length(pool[c]))
           T == {row(c) : c \in slots}
           f == [c \in slots |-> row(c)]
<1>1. IsFiniteSet(slots)
  <2>1. IsFiniteSet(ClipSlot)
    BY PoolSizes, FS_Interval DEF ClipSlot
  <2> QED BY <2>1, FS_Subset
<1>2. f \in Surjection(slots, T)
  <2>1. f \in [slots -> T]
    OBVIOUS
  <2>2. \A t \in T : \E c \in slots : f[c] = t
    OBVIOUS
  <2> QED BY <2>1, <2>2 DEF Surjection
<1>3. IsFiniteSet(T)
  <2> HIDE DEF T, f
  <2> QED BY <1>1, <1>2, FS_Surjection
<1>4. \A t \in T : IsFiniteSet(t)
  <2> SUFFICES ASSUME NEW c \in slots PROVE IsFiniteSet(row(c))
    OBVIOUS
  <2>1. IsFiniteSet({c})
    BY FS_Singleton
  <2>2. Length(pool[c]) \in Nat
    BY LengthOfShape
  <2>3. IsFiniteSet(1 .. Length(pool[c]))
    BY <2>2, FS_Interval
  <2> QED BY <2>1, <2>3, FS_Product
<1>5. IsFiniteSet(UNION T)
  <2> HIDE DEF T
  <2> QED BY <1>3, <1>4, FS_UNION
<1> QED BY <1>5 DEF Samples

(* Those of slots apart add up.                                            *)
LEMMA SamplesAddUp ==
  ASSUME NEW pool \in [ClipSlot -> Held], NEW slots \in SUBSET ClipSlot,
         NEW more \in SUBSET ClipSlot, slots \cap more = {}
  PROVE  /\ Cardinality(Samples(pool, slots)) \in Nat
         /\ Cardinality(Samples(pool, slots \union more)) =
              Cardinality(Samples(pool, slots)) + Cardinality(Samples(pool, more))
<1>1. IsFiniteSet(Samples(pool, slots)) /\ IsFiniteSet(Samples(pool, more))
  BY SamplesAreFinite
<1>2. Samples(pool, slots \union more) = Samples(pool, slots) \union Samples(pool, more)
  BY DEF Samples
<1>3. Samples(pool, slots) \cap Samples(pool, more) = {}
  BY DEF Samples
<1>4. Cardinality({}) = 0
  BY FS_EmptySet
<1>5. /\ Cardinality(Samples(pool, slots)) \in Nat
      /\ Cardinality(Samples(pool, more)) \in Nat
  BY <1>1, FS_CardinalityType
<1>6. Cardinality(Samples(pool, slots) \union Samples(pool, more)) =
        Cardinality(Samples(pool, slots)) + Cardinality(Samples(pool, more)) - Cardinality({})
  BY <1>1, <1>3, FS_Union
<1>7. \A a, b \in Nat : a + b - 0 = a + b
  OBVIOUS
<1>8. Cardinality(Samples(pool, slots)) + Cardinality(Samples(pool, more)) - Cardinality({}) =
        Cardinality(Samples(pool, slots)) + Cardinality(Samples(pool, more))
  BY <1>4, <1>5, <1>7
<1> QED BY <1>2, <1>5, <1>6, <1>8

(* Those of one slot are its clip's.                                       *)
LEMMA SamplesOfOne ==
  ASSUME NEW pool \in [ClipSlot -> Held], NEW c \in ClipSlot
  PROVE  Cardinality(Samples(pool, {c})) = Length(pool[c])
<1>1. Samples(pool, {c}) = {c} \X (1 .. Length(pool[c]))
  BY DEF Samples
<1>2. Length(pool[c]) \in Nat
  BY LengthOfShape
<1>3. IsFiniteSet({c}) /\ Cardinality({c}) = 1
  BY FS_Singleton
<1>4. IsFiniteSet(1 .. Length(pool[c])) /\ Cardinality(1 .. Length(pool[c])) = Length(pool[c])
  BY <1>2, FS_Interval
<1>5. Cardinality({c} \X (1 .. Length(pool[c]))) =
        Cardinality({c}) * Cardinality(1 .. Length(pool[c]))
  BY <1>3, <1>4, FS_Product
<1>6. \A n \in Nat : 1 * n = n
  OBVIOUS
<1> QED BY <1>1, <1>2, <1>3, <1>4, <1>5, <1>6

(* The same clips have the same samples, and empty slots none.             *)
LEMMA SamplesOfSame ==
  ASSUME NEW pool, NEW later, NEW slots, \A c \in slots : later[c] = pool[c]
  PROVE  Samples(later, slots) = Samples(pool, slots)
BY DEF Samples

LEMMA SamplesOfNone ==
  ASSUME NEW pool, NEW slots, \A c \in slots : pool[c] = Clips!Empty
  PROVE  Cardinality(Samples(pool, slots)) = 0
<1>1. Samples(pool, slots) = {}
  <2>1. \A c \in slots : 1 .. Length(pool[c]) = {}
    BY LengthOfShape
  <2> QED BY <2>1 DEF Samples
<1> QED BY <1>1, FS_EmptySet

-----------------------------------------------------------------------------
ClipTypes ==
  /\ v_clips \in [ClipSlot -> Held]
  /\ v_voices \in [1 .. Voices -> [clip : Nat, phase : Nat, gen : {0, 1}]]
  /\ v_cues \in [1 .. Cues -> 0 .. ClipSlots]
  /\ v_loading \in 0 .. Cues
  /\ v_others \subseteq ClipSlot
  /\ v_ghost \in [gen : [ClipSlot -> {0, 1}], read : SUBSET (Nat \X Nat)]

Playing(v) ==
  v_voices[v].clip # 0 =>
    Clips!Live(v_voices[v].clip) /\ v_voices[v].gen = v_ghost.gen[v_voices[v].clip]

VoicesPlay == \A v \in 1 .. Voices : Playing(v)

ReadsWithin ==
  \A r \in v_ghost.read : r[2] < Length(v_clips[r[1]]) \/ ~Clips!Live(r[1])

(* Every clip has one owner; Falcon's are those of the cues loaded so far. *)
OwnersApart ==
  /\ \A c \in v_others : Clips!Live(c)
  /\ \A q \in 1 .. Cues : v_cues[q] # 0 => Clips!Live(v_cues[q]) /\ v_cues[q] \notin v_others
  /\ \A q, r \in 1 .. Cues : v_cues[q] # 0 /\ v_cues[q] = v_cues[r] => q = r

CuesInTurn ==
  IF v_loading = 0
  THEN (\A q \in 1 .. Cues : v_cues[q] = 0) \/ (\A q \in 1 .. Cues : v_cues[q] # 0)
  ELSE \A q \in 1 .. Cues : v_cues[q] # 0 <=> q < v_loading

BytesCounted == v_bytes = Cardinality(Samples(v_clips, ClipSlot))

ClipInv ==
  ClipTypes /\ VoicesPlay /\ ReadsWithin /\ OwnersApart /\ CuesInTurn /\ BytesCounted

LEMMA ClipsCountAlike == \A S : Clips!Cardinality(S) = Cardinality(S)
BY DEF Clips!Cardinality, Cardinality

LEMMA BytesAreSamples ==
  /\ \A slots : Clips!Bytes(slots) = Cardinality(Samples(v_clips, slots))
  /\ \A s : Clips!Size(s) = Length(s)
BY ClipsCountAlike DEF Clips!Bytes, Clips!Stored, Clips!Size, Samples, Length

(* A free slot is found wherever there is one.                             *)
LEMMA NextIsFree ==
  ASSUME Clips!FreeSlots # {}
  PROVE  Clips!NextSlot \in ClipSlot /\ v_clips[Clips!NextSlot] = Clips!Empty
<1>1. Clips!FreeSlots \in SUBSET Nat
  BY PoolSizes DEF Clips!FreeSlots, ClipSlot
<1>2. \E c \in Clips!FreeSlots : \A d \in Clips!FreeSlots : c <= d
  BY <1>1, NatLeast
<1>3. Clips!NextSlot \in Clips!FreeSlots
  BY <1>2 DEF Clips!NextSlot
<1> QED BY <1>3, PoolSizes DEF Clips!FreeSlots

LEMMA InitClips == Clips!Init => ClipInv
<1> SUFFICES ASSUME Clips!Init PROVE ClipInv
  OBVIOUS
<1>1. ClipTypes
  BY PoolSizes DEF Clips!Init, ClipTypes, Held, Clips!Silent, Clips!NoClip
<1>2. VoicesPlay
  BY PoolSizes DEF Clips!Init, VoicesPlay, Playing, Clips!Silent, Clips!NoClip
<1>3. ReadsWithin /\ OwnersApart /\ CuesInTurn
  BY PoolSizes DEF Clips!Init, ReadsWithin, OwnersApart, CuesInTurn, Clips!NoClip
<1>4. BytesCounted
  <2>1. \A c \in ClipSlot : v_clips[c] = Clips!Empty
    BY PoolSizes DEF Clips!Init
  <2> QED BY <2>1, SamplesOfNone DEF Clips!Init, BytesCounted
<1> QED BY <1>1, <1>2, <1>3, <1>4 DEF ClipInv

(* A clip is put into a free slot: the others stay, it is live, and its    *)
(* samples are counted.                                                    *)
LEMMA ClipIsAdded ==
  ASSUME ClipTypes, BytesCounted, NEW s \in Shape, Clips!Fits(s), Clips!Registered(s)
  PROVE  /\ v_clips' \in [ClipSlot -> Held] /\ BytesCounted'
         /\ v_ghost' \in [gen : [ClipSlot -> {0, 1}], read : SUBSET (Nat \X Nat)]
         /\ v_ghost'.read = {}
         /\ Clips!NextSlot \in ClipSlot /\ ~Clips!Live(Clips!NextSlot)
         /\ v_clips'[Clips!NextSlot] = s
         /\ \A c \in ClipSlot \ {Clips!NextSlot} :
              v_clips'[c] = v_clips[c] /\ v_ghost'.gen[c] = v_ghost.gen[c]
<1> DEFINE n == Clips!NextSlot
           Rest == ClipSlot \ {n}
<1>1. n \in ClipSlot /\ v_clips[n] = Clips!Empty
  BY NextIsFree DEF Clips!Fits
<1>2. v_clips' = [v_clips EXCEPT ![n] = s] /\ s \in Held
  BY DEF Clips!Registered, Held
<1>3. v_clips' \in [ClipSlot -> Held]
  BY <1>1, <1>2 DEF ClipTypes
<1>4. /\ v_clips'[n] = s
      /\ \A c \in Rest : v_clips'[c] = v_clips[c]
  BY <1>1, <1>2 DEF ClipTypes
<1>5. /\ v_ghost' \in [gen : [ClipSlot -> {0, 1}], read : SUBSET (Nat \X Nat)]
      /\ v_ghost'.read = {}
      /\ \A c \in Rest : v_ghost'.gen[c] = v_ghost.gen[c]
  <2>1. v_ghost.gen \in [ClipSlot -> {0, 1}]
    BY DEF ClipTypes
  <2>2. [v_ghost.gen EXCEPT ![n] = 1 - @] \in [ClipSlot -> {0, 1}]
    BY <1>1, <2>1
  <2> QED BY <2>1, <2>2 DEF Clips!Registered
<1>6. v_bytes' = v_bytes + Length(s)
  BY BytesAreSamples DEF Clips!Registered
<1> HIDE DEF n, Rest
<1>7. Rest \in SUBSET ClipSlot /\ {n} \in SUBSET ClipSlot /\ Rest \cap {n} = {}
      /\ ClipSlot = Rest \union {n}
  BY <1>1 DEF Rest
<1>8. v_bytes = Cardinality(Samples(v_clips, Rest))
  <2>1. v_clips \in [ClipSlot -> Held]
    BY DEF ClipTypes
  <2>2. /\ Cardinality(Samples(v_clips, Rest)) \in Nat
        /\ Cardinality(Samples(v_clips, Rest \union {n})) =
             Cardinality(Samples(v_clips, Rest)) + Cardinality(Samples(v_clips, {n}))
    BY <1>7, <2>1, SamplesAddUp
  <2>3. Cardinality(Samples(v_clips, {n})) = 0
    BY <1>1, SamplesOfNone
  <2>4. \A a \in Nat : a + 0 = a
    OBVIOUS
  <2> QED BY <1>7, <2>2, <2>3, <2>4 DEF BytesCounted
<1>9. Cardinality(Samples(v_clips', ClipSlot)) = v_bytes + Length(s)
  <2>1. Cardinality(Samples(v_clips', Rest \union {n})) =
          Cardinality(Samples(v_clips', Rest)) + Cardinality(Samples(v_clips', {n}))
    BY <1>3, <1>7, SamplesAddUp
  <2>2. Cardinality(Samples(v_clips', {n})) = Length(s)
    BY <1>1, <1>3, <1>4, SamplesOfOne
  <2>3. Samples(v_clips', Rest) = Samples(v_clips, Rest)
    BY <1>4, SamplesOfSame
  <2> QED BY <1>7, <1>8, <2>1, <2>2, <2>3
<1>10. BytesCounted'
  BY <1>6, <1>9 DEF BytesCounted
<1> QED BY <1>1, <1>3, <1>4, <1>5, <1>10 DEF n, Rest, Clips!Live

(* Clips are given back: the others stay, and their samples are counted.   *)
LEMMA ClipsAreRemoved ==
  ASSUME ClipTypes, BytesCounted, NEW gone \in SUBSET ClipSlot,
         v_clips' = [c \in Clips!Slot |-> IF c \in gone THEN Clips!Empty ELSE v_clips[c]],
         v_bytes' = v_bytes - Clips!Bytes(gone)
  PROVE  /\ v_clips' \in [ClipSlot -> Held] /\ BytesCounted'
         /\ \A c \in ClipSlot \ gone : v_clips'[c] = v_clips[c]
         /\ \A c \in gone : v_clips'[c] = Clips!Empty
<1> DEFINE Rest == ClipSlot \ gone
<1>1. v_clips' \in [ClipSlot -> Held]
  BY PoolSizes DEF ClipTypes, Held
<1>2. /\ \A c \in Rest : v_clips'[c] = v_clips[c]
      /\ \A c \in gone : v_clips'[c] = Clips!Empty
  BY PoolSizes
<1> HIDE DEF Rest
<1>3. /\ Rest \in SUBSET ClipSlot /\ gone \in SUBSET ClipSlot /\ Rest \cap gone = {}
      /\ ClipSlot = Rest \union gone
  BY DEF Rest
<1>4. /\ Cardinality(Samples(v_clips, Rest)) \in Nat
      /\ Cardinality(Samples(v_clips, gone)) \in Nat
      /\ v_bytes = Cardinality(Samples(v_clips, Rest)) + Cardinality(Samples(v_clips, gone))
  <2>1. v_clips \in [ClipSlot -> Held] /\ gone \cap Rest = {}
    BY <1>3 DEF ClipTypes
  <2>2. /\ Cardinality(Samples(v_clips, Rest)) \in Nat
        /\ Cardinality(Samples(v_clips, Rest \union gone)) =
             Cardinality(Samples(v_clips, Rest)) + Cardinality(Samples(v_clips, gone))
    BY <1>3, <2>1, SamplesAddUp
  <2>3. Cardinality(Samples(v_clips, gone)) \in Nat
    BY <1>3, <2>1, SamplesAddUp
  <2> QED BY <1>3, <2>2, <2>3 DEF BytesCounted
<1>5. v_bytes' = Cardinality(Samples(v_clips, Rest))
  <2>1. Clips!Bytes(gone) = Cardinality(Samples(v_clips, gone))
    BY BytesAreSamples
  <2>2. \A a, b \in Nat : (a + b) - b = a
    OBVIOUS
  <2> QED BY <1>4, <2>1, <2>2
<1>6. Cardinality(Samples(v_clips', ClipSlot)) = Cardinality(Samples(v_clips, Rest))
  <2>1. Cardinality(Samples(v_clips', Rest \union gone)) =
          Cardinality(Samples(v_clips', Rest)) + Cardinality(Samples(v_clips', gone))
    BY ONLY <1>1, <1>3, SamplesAddUp
  <2>2. Cardinality(Samples(v_clips', gone)) = 0
    BY <1>2, SamplesOfNone
  <2>3. Samples(v_clips', Rest) = Samples(v_clips, Rest)
    BY <1>2, SamplesOfSame
  <2>4. \A a \in Nat : a + 0 = a
    OBVIOUS
  <2> QED BY <1>3, <1>4, <2>1, <2>2, <2>3, <2>4
<1>7. BytesCounted'
  BY <1>5, <1>6 DEF BytesCounted
<1> QED BY <1>1, <1>2, <1>7 DEF Rest

LEMMA RegisterClip ==
  ASSUME ClipInv, NEW s \in Shapes, Clips!Register(s)
  PROVE  ClipInv'
<1>1. s \in Shape /\ ClipTypes /\ BytesCounted /\ Clips!Fits(s) /\ Clips!Registered(s)
  BY PoolSizes DEF ClipInv, Clips!Register
<1>2. PICK n \in ClipSlot :
      /\ n = Clips!NextSlot
      /\ v_clips' \in [ClipSlot -> Held] /\ BytesCounted'
      /\ v_ghost' \in [gen : [ClipSlot -> {0, 1}], read : SUBSET (Nat \X Nat)]
      /\ v_ghost'.read = {}
      /\ ~Clips!Live(n)
      /\ v_clips'[n] = s
      /\ \A c \in ClipSlot \ {n} :
           v_clips'[c] = v_clips[c] /\ v_ghost'.gen[c] = v_ghost.gen[c]
  <2>1. Clips!NextSlot \in ClipSlot
    BY <1>1, ClipIsAdded
  <2>2. PICK k \in ClipSlot : k = Clips!NextSlot
    BY <2>1
  <2>3. v_clips'[k] = s
    BY <1>1, <2>2, ClipIsAdded
  <2> QED BY <1>1, <2>2, <2>3, ClipIsAdded
<1>3. /\ v_voices' = v_voices /\ v_cues' = v_cues /\ v_loading' = v_loading
      /\ v_others' = v_others \union {n}
  BY <1>2 DEF Clips!Register
<1>4. s # Clips!Empty
  BY <1>1, LengthOfShape
<1>5. \A c : Clips!Live(c) => Clips!Live(c)' /\ c \in ClipSlot \ {n}
  BY <1>2, PoolSizes DEF Clips!Live
<1>6. Clips!Live(n)'
  BY <1>2, <1>4, PoolSizes DEF Clips!Live
<1>7. ClipTypes'
  BY <1>2, <1>3 DEF ClipInv, ClipTypes
<1>8. VoicesPlay'
  BY <1>2, <1>3, <1>5 DEF ClipInv, VoicesPlay, Playing
<1>9. ReadsWithin' /\ CuesInTurn'
  BY <1>2, <1>3 DEF ClipInv, ReadsWithin, CuesInTurn
<1>10. OwnersApart'
  BY <1>2, <1>3, <1>5, <1>6 DEF ClipInv, OwnersApart
<1> QED BY <1>2, <1>7, <1>8, <1>9, <1>10 DEF ClipInv

LEMMA LoadCue == ASSUME ClipInv, Clips!LoadOne PROVE ClipInv'
<1>1. /\ CueShape \in Shape /\ ClipTypes /\ BytesCounted
      /\ Clips!Fits(CueShape) /\ Clips!Registered(CueShape)
  BY PoolSizes DEF ClipInv, Clips!LoadOne
<1>2. PICK n \in ClipSlot :
      /\ n = Clips!NextSlot
      /\ v_clips' \in [ClipSlot -> Held] /\ BytesCounted'
      /\ v_ghost' \in [gen : [ClipSlot -> {0, 1}], read : SUBSET (Nat \X Nat)]
      /\ v_ghost'.read = {}
      /\ ~Clips!Live(n)
      /\ v_clips'[n] = CueShape
      /\ \A c \in ClipSlot \ {n} :
           v_clips'[c] = v_clips[c] /\ v_ghost'.gen[c] = v_ghost.gen[c]
  <2>1. Clips!NextSlot \in ClipSlot
    BY <1>1, ClipIsAdded
  <2>2. PICK k \in ClipSlot : k = Clips!NextSlot
    BY <2>1
  <2>3. v_clips'[k] = CueShape
    BY <1>1, <2>2, ClipIsAdded
  <2> QED BY <1>1, <2>2, <2>3, ClipIsAdded
<1>3. /\ v_voices' = v_voices /\ v_others' = v_others
      /\ v_loading # 0 /\ v_cues' = [v_cues EXCEPT ![v_loading] = n]
      /\ v_loading' = IF v_loading = Cues THEN 0 ELSE v_loading + 1
  BY <1>2 DEF Clips!LoadOne
<1>4. CueShape # Clips!Empty
  BY <1>1, LengthOfShape
<1>5. \A c : Clips!Live(c) => Clips!Live(c)' /\ c \in ClipSlot \ {n}
  BY <1>2, PoolSizes DEF Clips!Live
<1>6. Clips!Live(n)'
  BY <1>2, <1>4, PoolSizes DEF Clips!Live
<1>7. n \in Nat /\ n # 0 /\ n \in 0 .. ClipSlots
  BY <1>2, PoolSizes DEF ClipSlot
<1>8. /\ v_cues \in [1 .. Cues -> 0 .. ClipSlots] /\ v_loading \in 1 .. Cues
  BY <1>3, PoolSizes DEF ClipInv, ClipTypes
<1>9. /\ v_cues' \in [1 .. Cues -> 0 .. ClipSlots]
      /\ v_cues'[v_loading] = n
      /\ \A q \in 1 .. Cues : q # v_loading => v_cues'[q] = v_cues[q]
  BY <1>3, <1>7, <1>8
<1>10. v_loading' \in 0 .. Cues
  BY <1>3, <1>8, PoolSizes
<1>11. ClipTypes'
  BY <1>2, <1>3, <1>9, <1>10 DEF ClipInv, ClipTypes
<1>12. VoicesPlay'
  BY <1>2, <1>3, <1>5 DEF ClipInv, VoicesPlay, Playing
<1>13. ReadsWithin'
  BY <1>2 DEF ReadsWithin
<1>14. OwnersApart'
  <2>1. \A c \in v_others : Clips!Live(c) /\ c # n
    BY <1>2 DEF ClipInv, OwnersApart
  <2>2. \A q \in 1 .. Cues : v_cues[q] # 0 => v_cues[q] # n
    BY <1>2 DEF ClipInv, OwnersApart
  <2>3. \A c \in v_others' : Clips!Live(c)'
    BY <1>3, <1>5, <2>1
  <2>4. \A q \in 1 .. Cues : v_cues'[q] # 0 =>
          Clips!Live(v_cues[q])' /\ v_cues'[q] \notin v_others'
    BY <1>3, <1>5, <1>6, <1>9, <2>1 DEF ClipInv, OwnersApart
  <2>5. \A q, r \in 1 .. Cues : v_cues'[q] # 0 /\ v_cues'[q] = v_cues'[r] => q = r
    BY <1>9, <2>2 DEF ClipInv, OwnersApart
  <2> QED BY <2>3, <2>4, <2>5 DEF OwnersApart
<1>15. CuesInTurn'
  <2>1. \A q \in 1 .. Cues : v_cues[q] # 0 <=> q < v_loading
    BY <1>3 DEF ClipInv, CuesInTurn
  <2>2. \A q \in 1 .. Cues : v_cues'[q] # 0 <=> q <= v_loading
    BY <1>7, <1>8, <1>9, <2>1
  <2>3. CASE v_loading = Cues
    <3>1. v_loading' = 0 /\ \A q \in 1 .. Cues : q <= Cues
      BY <1>3, <2>3, PoolSizes
    <3> QED BY <2>2, <2>3, <3>1 DEF CuesInTurn
  <2>4. CASE v_loading # Cues
    <3>1. v_loading' = v_loading + 1 /\ v_loading' # 0
      BY <1>3, <1>8, <2>4, PoolSizes
    <3>2. \A q \in 1 .. Cues : q <= v_loading <=> q < v_loading'
      BY <1>8, <3>1, PoolSizes
    <3> QED BY <2>2, <3>1, <3>2 DEF CuesInTurn
  <2> QED BY <2>3, <2>4
<1> QED BY <1>2, <1>11, <1>12, <1>13, <1>14, <1>15 DEF ClipInv

LEMMA UnregisterClip ==
  ASSUME ClipInv, NEW c \in Clips!Slot, Clips!Unregister(c)
  PROVE  ClipInv'
<1>1. /\ ClipTypes /\ BytesCounted /\ {c} \in SUBSET ClipSlot /\ c \in v_others
      /\ v_clips' = [k \in Clips!Slot |-> IF k \in {c} THEN Clips!Empty ELSE v_clips[k]]
      /\ v_bytes' = v_bytes - Clips!Bytes({c})
  BY PoolSizes DEF ClipInv, Clips!Unregister, Clips!Unregistered
<1>2. /\ v_clips' \in [ClipSlot -> Held] /\ BytesCounted'
      /\ \A k \in ClipSlot \ {c} : v_clips'[k] = v_clips[k]
  BY ONLY <1>1, ClipsAreRemoved
<1>3. /\ v_voices' = [v \in 1 .. Voices |->
                        IF v_voices[v].clip \in {c} THEN Clips!Silent ELSE v_voices[v]]
      /\ v_ghost' = [v_ghost EXCEPT !.read = {}]
      /\ v_others' = v_others \ {c}
      /\ v_cues' = v_cues /\ v_loading' = v_loading
  BY DEF Clips!Unregister, Clips!Unregistered
<1>4. \A k : Clips!Live(k) /\ k # c => Clips!Live(k)'
  BY <1>2, PoolSizes DEF Clips!Live
<1>5. /\ v_ghost'.gen = v_ghost.gen /\ v_ghost'.read = {}
      /\ v_ghost' \in [gen : [ClipSlot -> {0, 1}], read : SUBSET (Nat \X Nat)]
  BY <1>3 DEF ClipInv, ClipTypes
<1>6. \A v \in 1 .. Voices :
        /\ v_voices'[v] \in [clip : Nat, phase : Nat, gen : {0, 1}]
        /\ v_voices'[v].clip # 0 => v_voices'[v] = v_voices[v] /\ v_voices[v].clip # c
  <2>1. Clips!Silent \in [clip : Nat, phase : Nat, gen : {0, 1}] /\ Clips!Silent.clip = 0
    BY DEF Clips!Silent, Clips!NoClip
  <2> QED BY <1>3, <2>1 DEF ClipInv, ClipTypes
<1>7. ClipTypes'
  <2>1. v_voices' \in [1 .. Voices -> [clip : Nat, phase : Nat, gen : {0, 1}]]
    BY <1>3, <1>6
  <2> QED BY <1>2, <1>3, <1>5, <2>1 DEF ClipInv, ClipTypes
<1>8. VoicesPlay'
  BY <1>4, <1>5, <1>6 DEF ClipInv, VoicesPlay, Playing
<1>9. ReadsWithin' /\ CuesInTurn'
  BY <1>3, <1>5 DEF ClipInv, ReadsWithin, CuesInTurn
<1>10. OwnersApart'
  BY <1>1, <1>3, <1>4 DEF ClipInv, OwnersApart
<1> QED BY <1>2, <1>7, <1>8, <1>9, <1>10 DEF ClipInv

(* smw_falcon_audio_reset gives back what the cues hold and nothing else.  *)
LEMMA ResetClips == ASSUME ClipInv, Clips!smw_falcon_audio_reset PROVE ClipInv'
<1> DEFINE gone == Clips!Taken
<1>1. gone = {v_cues[q] : q \in 1 .. Cues} \ {0}
  BY DEF Clips!Taken, Clips!NoClip
<1>2. /\ gone \in SUBSET ClipSlot
      /\ \A c \in v_others : c \notin gone
  BY <1>1 DEF ClipInv, ClipTypes, OwnersApart, ClipSlot
<1>3. /\ ClipTypes /\ BytesCounted
      /\ v_clips' = [c \in Clips!Slot |-> IF c \in gone THEN Clips!Empty ELSE v_clips[c]]
      /\ v_bytes' = v_bytes - Clips!Bytes(gone)
  BY DEF ClipInv, Clips!smw_falcon_audio_reset
<1> HIDE DEF gone
<1>4. /\ v_clips' \in [ClipSlot -> Held] /\ BytesCounted'
      /\ \A c \in ClipSlot \ gone : v_clips'[c] = v_clips[c]
  BY ONLY <1>2, <1>3, ClipsAreRemoved
<1>5. /\ v_voices' = [v \in 1 .. Voices |-> Clips!Silent]
      /\ v_cues' = [q \in 1 .. Cues |-> 0]
      /\ v_ghost' = [v_ghost EXCEPT !.read = {}]
      /\ v_loading' = 0 /\ v_others' = v_others
  BY DEF Clips!smw_falcon_audio_reset, Clips!NoClip
<1>6. /\ v_ghost'.read = {}
      /\ v_ghost' \in [gen : [ClipSlot -> {0, 1}], read : SUBSET (Nat \X Nat)]
  BY <1>5 DEF ClipInv, ClipTypes
<1>7. Clips!Silent \in [clip : Nat, phase : Nat, gen : {0, 1}] /\ Clips!Silent.clip = 0
  BY DEF Clips!Silent, Clips!NoClip
<1>8. ClipTypes'
  <2>1. v_voices' \in [1 .. Voices -> [clip : Nat, phase : Nat, gen : {0, 1}]]
    BY <1>5, <1>7
  <2>2. v_cues' \in [1 .. Cues -> 0 .. ClipSlots] /\ v_loading' \in 0 .. Cues
    BY <1>5, PoolSizes
  <2> QED BY <1>4, <1>5, <1>6, <2>1, <2>2 DEF ClipInv, ClipTypes
<1>9. VoicesPlay'
  BY <1>5, <1>7 DEF VoicesPlay, Playing
<1>10. ReadsWithin' /\ CuesInTurn'
  BY <1>5, <1>6 DEF ReadsWithin, CuesInTurn
<1>11. OwnersApart'
  <2>1. \A c \in v_others : Clips!Live(c)'
    BY <1>2, <1>4, PoolSizes DEF ClipInv, OwnersApart, Clips!Live
  <2> QED BY <1>5, <2>1 DEF OwnersApart
<1> QED BY <1>4, <1>8, <1>9, <1>10, <1>11 DEF ClipInv

LEMMA ActivateClips == ASSUME ClipInv, Clips!Activate PROVE ClipInv'
<1>1. /\ v_loading' = 1 /\ v_cues = [q \in 1 .. Cues |-> 0]
      /\ v_voices' = [v \in 1 .. Voices |-> Clips!Silent]
      /\ v_ghost' = [v_ghost EXCEPT !.read = {}]
      /\ v_clips' = v_clips /\ v_bytes' = v_bytes /\ v_cues' = v_cues
      /\ v_others' = v_others
  BY DEF Clips!Activate, Clips!NoClip
<1>2. /\ v_ghost'.read = {}
      /\ v_ghost' \in [gen : [ClipSlot -> {0, 1}], read : SUBSET (Nat \X Nat)]
  BY <1>1 DEF ClipInv, ClipTypes
<1>3. Clips!Silent \in [clip : Nat, phase : Nat, gen : {0, 1}] /\ Clips!Silent.clip = 0
  BY DEF Clips!Silent, Clips!NoClip
<1>4. v_loading' \in 0 .. Cues
  BY <1>1, PoolSizes
<1>5. ClipTypes'
  <2>1. v_voices' \in [1 .. Voices -> [clip : Nat, phase : Nat, gen : {0, 1}]]
    BY <1>1, <1>3
  <2> QED BY <1>1, <1>2, <1>4, <2>1 DEF ClipInv, ClipTypes
<1>6. VoicesPlay'
  BY <1>1, <1>3 DEF VoicesPlay, Playing
<1>7. ReadsWithin' /\ BytesCounted'
  BY <1>1, <1>2 DEF ClipInv, ReadsWithin, BytesCounted
<1>8. OwnersApart'
  BY <1>1 DEF ClipInv, OwnersApart, Clips!Live
<1>9. CuesInTurn'
  BY <1>1, PoolSizes DEF CuesInTurn
<1> QED BY <1>5, <1>6, <1>7, <1>8, <1>9 DEF ClipInv

(* The voice that is chosen, if the clip is there, plays it from its start. *)
LEMMA PlayClip == ASSUME ClipInv, NEW c, Clips!Play(c) PROVE ClipInv'
<1>1. /\ v_ghost' = [v_ghost EXCEPT !.read = {}]
      /\ v_clips' = v_clips /\ v_bytes' = v_bytes /\ v_cues' = v_cues
      /\ v_loading' = v_loading /\ v_others' = v_others
  BY DEF Clips!Play
<1>2. /\ v_ghost'.read = {} /\ v_ghost'.gen = v_ghost.gen
      /\ v_ghost' \in [gen : [ClipSlot -> {0, 1}], read : SUBSET (Nat \X Nat)]
  BY <1>1 DEF ClipInv, ClipTypes
<1>3. CASE ~Clips!Live(c)
  <2>1. v_voices' = v_voices
    BY <1>3 DEF Clips!Play
  <2> QED BY <1>1, <1>2, <2>1 DEF ClipInv, ClipTypes, VoicesPlay, Playing, ReadsWithin,
               OwnersApart, CuesInTurn, BytesCounted, Clips!Live
<1>4. CASE Clips!Live(c)
  <2> DEFINE new == [clip |-> c, phase |-> 0, gen |-> v_ghost.gen[c]]
  <2>1. \E v : v_voices' = [v_voices EXCEPT ![v] = new]
    BY <1>4 DEF Clips!Play
  <2>2. PICK v : v_voices' = [v_voices EXCEPT ![v] = new]
    BY <2>1
  <2>3. c \in ClipSlot /\ c \in Nat
    BY <1>4, PoolSizes DEF Clips!Live, ClipSlot
  <2>4. new \in [clip : Nat, phase : Nat, gen : {0, 1}] /\ new.clip = c
        /\ new.gen = v_ghost.gen[c]
    BY <2>3 DEF ClipInv, ClipTypes
  <2> HIDE DEF new
  <2>5. v_voices' \in [1 .. Voices -> [clip : Nat, phase : Nat, gen : {0, 1}]]
    BY <2>2, <2>4 DEF ClipInv, ClipTypes
  <2>6. \A u \in 1 .. Voices : v_voices'[u] = v_voices[u] \/ v_voices'[u] = new
    BY <2>2 DEF ClipInv, ClipTypes
  <2>7. VoicesPlay'
    BY <1>1, <1>2, <1>4, <2>4, <2>6 DEF ClipInv, VoicesPlay, Playing, Clips!Live
  <2> QED BY <1>1, <1>2, <2>5, <2>7 DEF ClipInv, ClipTypes, ReadsWithin,
               OwnersApart, CuesInTurn, BytesCounted, Clips!Live
<1> QED BY <1>3, <1>4

(* A frame inside a clip has its samples inside the clip.                  *)
LEMMA SamplesInside ==
  ASSUME NEW s \in Shape, NEW at \in Nat, at < s.frames
  PROVE  \A n \in Clips!Samples(s, at) : n \in Nat /\ n < Length(s)
<1>1. s.frames \in Nat /\ s.channels \in {1, 2}
  BY DEF Shape
<1>2. CASE s.channels = 1
  BY <1>1, <1>2 DEF Clips!Samples, Length
<1>3. CASE s.channels = 2
  BY <1>1, <1>3 DEF Clips!Samples, Length
<1> QED BY <1>1, <1>2, <1>3

LEMMA MixClips == ASSUME ClipInv, Clips!Mix PROVE ClipInv'
<1> DEFINE frame(v) == v_voices[v].phase \div One
           clip(v) == v_clips[v_voices[v].clip]
<1>1. /\ v_voices' = [v \in 1 .. Voices |->
                        IF Clips!Sounding(v) THEN Clips!Moved(v) ELSE Clips!Silent]
      /\ v_ghost' = [v_ghost EXCEPT !.read =
           UNION {{<<v_voices[v].clip, n>> : n \in Clips!Samples(clip(v), frame(v))} :
                    v \in {u \in 1 .. Voices : Clips!Sounding(u)}}]
      /\ v_clips' = v_clips /\ v_bytes' = v_bytes /\ v_cues' = v_cues
      /\ v_loading' = v_loading /\ v_others' = v_others
  BY DEF Clips!Mix
<1>2. ASSUME NEW v \in 1 .. Voices, Clips!Sounding(v)
      PROVE  /\ clip(v) \in Shape /\ frame(v) \in Nat /\ frame(v) < clip(v).frames
             /\ v_voices[v].clip \in ClipSlot
  <2>1. v_voices[v].phase \in Nat /\ v_voices[v].clip \in ClipSlot
    BY <1>2, PoolSizes DEF ClipInv, ClipTypes, Clips!Sounding, Clips!Live
  <2>2. clip(v) \in Held /\ clip(v) # Clips!Empty
    BY <1>2, <2>1 DEF ClipInv, ClipTypes, Clips!Sounding, Clips!Live
  <2>3. \A x \in Nat, y \in Nat \ {0} : x \div y \in Nat
    OBVIOUS
  <2> QED BY <1>2, <2>1, <2>2, <2>3, PoolSizes DEF Held, Clips!Sounding
<1>3. ASSUME NEW v \in 1 .. Voices
      PROVE  /\ v_voices'[v] \in [clip : Nat, phase : Nat, gen : {0, 1}]
             /\ v_voices'[v].clip # 0 =>
                  v_voices'[v].clip = v_voices[v].clip /\ v_voices'[v].gen = v_voices[v].gen
  <2>1. Clips!Silent \in [clip : Nat, phase : Nat, gen : {0, 1}] /\ Clips!Silent.clip = 0
    BY DEF Clips!Silent, Clips!NoClip
  <2>2. CASE ~Clips!Sounding(v)
    BY <1>1, <2>1, <2>2
  <2>3. CASE Clips!Sounding(v)
    <3>1. v_voices[v] \in [clip : Nat, phase : Nat, gen : {0, 1}] /\ clip(v).step \in Nat
      BY <1>2, <2>3 DEF ClipInv, ClipTypes, Shape
    <3>2. v_voices[v].phase + clip(v).step \in Nat
      BY <3>1
    <3>3. \/ Clips!Moved(v) = Clips!Silent
          \/ Clips!Moved(v) = [v_voices[v] EXCEPT !.phase = v_voices[v].phase + clip(v).step]
      BY DEF Clips!Moved
    <3>4. v_voices'[v] = Clips!Moved(v)
      BY <1>1, <2>3
    <3> QED BY <2>1, <3>1, <3>2, <3>3, <3>4
  <2> QED BY <2>2, <2>3
<1>4. ASSUME NEW r \in v_ghost'.read
      PROVE  r \in Nat \X Nat /\ r[2] < Length(v_clips[r[1]])
  <2>1. r \in UNION {{<<v_voices[v].clip, n>> : n \in Clips!Samples(clip(v), frame(v))} :
                       v \in {u \in 1 .. Voices : Clips!Sounding(u)}}
    BY <1>1, <1>4 DEF ClipInv, ClipTypes
  <2>2. PICK v \in 1 .. Voices :
          /\ Clips!Sounding(v)
          /\ r \in {<<v_voices[v].clip, n>> : n \in Clips!Samples(clip(v), frame(v))}
    BY <2>1
  <2>3. PICK n \in Clips!Samples(clip(v), frame(v)) : r = <<v_voices[v].clip, n>>
    BY <2>2
  <2>4. /\ clip(v) \in Shape /\ frame(v) \in Nat /\ frame(v) < clip(v).frames
        /\ v_voices[v].clip \in ClipSlot
    BY <1>2, <2>2
  <2> HIDE DEF clip, frame
  <2>5. n \in Nat /\ n < Length(clip(v))
    BY <2>3, <2>4, SamplesInside
  <2>6. v_voices[v].clip \in Nat
    BY <2>4, PoolSizes DEF ClipSlot
  <2> QED BY <2>3, <2>5, <2>6 DEF clip
<1>5. v_ghost' \in [gen : [ClipSlot -> {0, 1}], read : SUBSET (Nat \X Nat)]
      /\ v_ghost'.gen = v_ghost.gen
  <2>1. \A x : [v_ghost EXCEPT !.read = x].gen = v_ghost.gen
    BY DEF ClipInv, ClipTypes
  <2>2. PICK x : v_ghost' = [v_ghost EXCEPT !.read = x]
    BY <1>1
  <2>3. v_ghost'.read = x
    BY <2>2 DEF ClipInv, ClipTypes
  <2>4. x \in SUBSET (Nat \X Nat)
    BY <1>4, <2>3
  <2> QED BY <2>2, <2>4 DEF ClipInv, ClipTypes
<1>6. ClipTypes'
  <2>1. v_voices' \in [1 .. Voices -> [clip : Nat, phase : Nat, gen : {0, 1}]]
    BY <1>1, <1>3
  <2> QED BY <1>1, <1>5, <2>1 DEF ClipInv, ClipTypes
<1>7. VoicesPlay'
  BY <1>1, <1>3, <1>5 DEF ClipInv, VoicesPlay, Playing, Clips!Live
<1>8. ReadsWithin'
  BY <1>1, <1>4 DEF ReadsWithin
<1>9. OwnersApart' /\ CuesInTurn' /\ BytesCounted'
  BY <1>1 DEF ClipInv, OwnersApart, CuesInTurn, BytesCounted, Clips!Live
<1> QED BY <1>6, <1>7, <1>8, <1>9 DEF ClipInv

LEMMA ClipStep == ClipInv /\ Clips!Next => ClipInv'
<1> SUFFICES ASSUME ClipInv, Clips!Next PROVE ClipInv'
  OBVIOUS
<1>1. CASE Clips!Deactivate \/ Clips!LoadFails
  BY <1>1, ResetClips DEF Clips!Deactivate, Clips!LoadFails, Clips!GiveUp
<1>2. CASE \E c \in Clips!Slot : Clips!Unregister(c) \/ (c \notin Clips!Taken /\ Clips!Play(c))
  BY <1>2, UnregisterClip, PlayClip
<1>3. CASE \E q \in 1 .. Cues : Clips!PlayCue(q)
  BY <1>3, PlayClip DEF Clips!PlayCue
<1> QED BY <1>1, <1>2, <1>3, RegisterClip, LoadCue, ActivateClips, MixClips DEF Clips!Next

LEMMA ClipStutter == ASSUME ClipInv, UNCHANGED clipsVars PROVE ClipInv'
BY DEF clipsVars, ClipInv, ClipTypes, VoicesPlay, Playing, ReadsWithin, OwnersApart,
       CuesInTurn, BytesCounted, Clips!Live

(* As many clips as cues, if each cue has one of its own.                  *)
LEMMA CuesAreTaken ==
  ASSUME ClipInv, v_loading = 0
  PROVE  Cardinality(Clips!Taken) \in {0, Cues}
<1>1. CASE \A q \in 1 .. Cues : v_cues[q] = 0
  <2>1. Clips!Taken = {}
    BY <1>1 DEF Clips!Taken, Clips!NoClip
  <2> QED BY <2>1, FS_EmptySet
<1>2. CASE \A q \in 1 .. Cues : v_cues[q] # 0
  <2>1. Clips!Taken = {v_cues[q] : q \in 1 .. Cues}
    BY <1>2 DEF Clips!Taken, Clips!NoClip
  <2>2. v_cues \in Bijection(1 .. Cues, Clips!Taken)
    <3>1. v_cues \in [1 .. Cues -> Clips!Taken]
      BY <2>1 DEF ClipInv, ClipTypes
    <3>2. \A q, r \in 1 .. Cues : v_cues[q] = v_cues[r] => q = r
      BY <1>2 DEF ClipInv, OwnersApart
    <3>3. \A c \in Clips!Taken : \E q \in 1 .. Cues : v_cues[q] = c
      BY <2>1
    <3> QED BY <3>1, <3>2, <3>3 DEF Bijection, Injection, IsInjective, Surjection
  <2>3. ExistsBijection(1 .. Cues, Clips!Taken)
    BY <2>2 DEF ExistsBijection
  <2>4. IsFiniteSet(1 .. Cues) /\ Cardinality(1 .. Cues) = Cues
    BY PoolSizes, FS_Interval
  <2> QED BY <2>3, <2>4, FS_Bijection
<1> QED BY <1>1, <1>2 DEF ClipInv, CuesInTurn

LEMMA ClipsAreKept == ClipInv => Clips!ClipsKept
<1> SUFFICES ASSUME ClipInv PROVE Clips!ClipsKept
  OBVIOUS
<1>1. Clips!VoicesPlayTheirClip
  BY BytesAreSamples DEF ClipInv, VoicesPlay, Playing, ReadsWithin,
     Clips!VoicesPlayTheirClip, Clips!NoClip
<1>2. v_loading = 0 => Clips!Cardinality(Clips!Taken) \in {0, Cues}
  BY CuesAreTaken, ClipsCountAlike
<1>3. Clips!Taken \intersect v_others = {} /\ \A c \in Clips!Taken : Clips!Live(c)
  BY DEF ClipInv, OwnersApart, Clips!Taken, Clips!NoClip
<1>4. v_bytes = Clips!Bytes(Clips!Slot)
  BY BytesAreSamples, PoolSizes DEF ClipInv, BytesCounted
<1> QED BY <1>1, <1>2, <1>3, <1>4 DEF Clips!ClipsKept, Clips!CuesWhole

-----------------------------------------------------------------------------
(* No voice goes on with a clip that took another's slot, no sample is     *)
(* read outside a clip, Falcon has all of his cues or none, and the bytes  *)
(* on account are the clips', for any pool, voices and clips               *)
(* (mod_audio.c:39-196, smw_falcon_audio.c:146-240).                       *)
THEOREM ClipsAreAlwaysKept == BenchSpec => []ClipsKept
<1> DEFINE Inv == part = "clips" => ClipInv
<1>1. BenchInit => Inv
  BY InitClips DEF BenchInit
<1>2. Inv /\ [BenchNext]_benchVars => Inv'
  <2> SUFFICES ASSUME Inv, part' = "clips", [BenchNext]_benchVars PROVE ClipInv'
    OBVIOUS
  <2>1. part = "clips" /\ ClipInv
    BY DEF BenchNext, benchVars
  <2>2. Clips!Next \/ UNCHANGED clipsVars
    BY <2>1 DEF BenchNext, benchVars
  <2> QED BY <2>1, <2>2, ClipStep, ClipStutter
<1>3. Inv => ClipsKept
  BY ClipsAreKept DEF ClipsKept
<1> QED BY <1>1, <1>2, <1>3, PTL DEF BenchSpec
-----------------------------------------------------------------------------
(* CoopMouths.  What mouths and sprites hold between any two steps.        *)
Mounts == 1 .. MountSlots
Thing == [kind : {"none", "yoshi", "egg", "baby", "food"},
         eaten : {"no", "caught", "swallowed"},
         owner : 0 .. Riders, bond : {"free", "ridden", "held"}]
Lick == [mount : Mounts, object : Mounts, actor : Nat, distance : Nat]
Touch == [mount : Mounts, tile : Tiles, actor : Nat, distance : Nat]

MouthTypes ==
  /\ m_sprite \in [Mounts -> Thing]
  /\ m_mouth \in [Mounts -> 0 .. MountSlots]
  /\ m_meal \in [Mounts -> BOOLEAN]
  /\ m_licks \subseteq Lick

BerryTypes ==
  /\ m_bite \in [Mounts -> [left : Nat, tile : Tiles \union {0}]]
  /\ m_berry \in [Tiles -> BOOLEAN]
  /\ m_gone \in [Tiles -> Nat]
  /\ m_bites \in Seq(Touch)

Active(s) == Mouths!coop_mount_mouth_active(s)

(* What a mouth holds is food that nobody carries, and no one else's.      *)
FoodIsOwn ==
  /\ \A s \in Mounts : Active(s) =>
       IF m_mouth[s] = 0 THEN m_sprite[s].kind = "yoshi"
       ELSE m_sprite[m_mouth[s]].kind = "food" /\ m_sprite[m_mouth[s]].bond # "held"
  /\ \A s, r \in Mounts :
       Active(s) /\ Active(r) /\ m_mouth[s] = m_mouth[r] /\ m_mouth[s] # 0 => s = r

(* What is eaten is food; what hatches is nobody's; what is held is        *)
(* somebody's; a meal is a baby's.                                         *)
SpritesSound ==
  \A s \in Mounts :
    /\ m_meal[s] => m_sprite[s].kind = "baby"
    /\ m_sprite[s].eaten # "no" => m_sprite[s].kind = "food"
    /\ m_sprite[s].kind \in {"egg", "baby"} => m_sprite[s].owner = 0
    /\ m_sprite[s].bond = "held" => m_sprite[s].owner # 0

Biting(b, s) == b[s].left > 0

(* A bite is a mount's, on a berry that is there and that nobody else has  *)
(* begun; a berry that is gone was eaten once.                             *)
BitesApart ==
  /\ \A s \in Mounts : Biting(m_bite, s) =>
       /\ m_sprite[s].kind = "yoshi"
       /\ m_bite[s].tile \in Tiles /\ m_berry[m_bite[s].tile]
  /\ \A s, r \in Mounts :
       Biting(m_bite, s) /\ Biting(m_bite, r) /\ m_bite[s].tile = m_bite[r].tile => s = r

BerriesCounted == \A t \in Tiles : m_gone[t] = IF m_berry[t] THEN 0 ELSE 1

FoodInv == MouthTypes /\ FoodIsOwn /\ SpritesSound /\ Mouths!CatchIsKept
BerryInv == BerryTypes /\ BitesApart /\ BerriesCounted

LEMMA MouthSizes ==
  /\ Riders \in Nat /\ MountSlots \in Nat /\ Gulp \in Nat
  /\ Mouths!NoFood = 0 /\ Mouths!NoPlayer = 0
  /\ Mouths!Vacant \in Thing /\ Mouths!Vacant.kind = "none" /\ Mouths!Vacant.eaten = "no"
  /\ Mouths!Vacant.owner = 0 /\ Mouths!Vacant.bond = "free"
  /\ Mounts \subseteq Nat /\ 0 \notin Mounts
BY MouthsAssumption DEF Mouths!NoFood, Mouths!NoPlayer, Mouths!Vacant, Thing, Mounts

(* Who is active, in the fields of a sprite.                               *)
LEMMA WhoIsActive ==
  \A s : Active(s) <=>
    /\ m_sprite[s].eaten # "swallowed"
    /\ \/ m_sprite[s].kind = "yoshi"
       \/ m_sprite[s].kind = "baby" /\ m_meal[s]
BY DEF Active, Mouths!coop_mount_mouth_active, Mouths!Mount, Mouths!Live

LEMMA WhoIsActiveNext ==
  \A s : Active(s)' <=>
    /\ m_sprite'[s].eaten # "swallowed"
    /\ \/ m_sprite'[s].kind = "yoshi"
       \/ m_sprite'[s].kind = "baby" /\ m_meal'[s]
BY DEF Active, Mouths!coop_mount_mouth_active, Mouths!Mount, Mouths!Live

(* What was caught, in the same words.                                     *)
LEMMA CatchKept ==
  /\ Mouths!CatchIsKept <=>
       \A o \in Mounts : m_sprite[o].eaten # "no" => \E s \in Mounts : Active(s) /\ m_mouth[s] = o
  /\ Mouths!CatchIsKept' <=>
       \A o \in Mounts : m_sprite'[o].eaten # "no" =>
         \E s \in Mounts : Active(s)' /\ m_mouth'[s] = o
BY DEF Mouths!CatchIsKept, Mouths!Holds, Active, Mounts

(* A step on a mouth: what the invariant needs of it, field by field.      *)
LEMMA FoodStays ==
  ASSUME FoodInv, m_sprite' = m_sprite, m_mouth' = m_mouth, m_meal' = m_meal,
         m_licks' \subseteq Lick
  PROVE  FoodInv'
<1>1. \A s : Active(s)' <=> Active(s)
  BY WhoIsActive, WhoIsActiveNext
<1>2. MouthTypes' /\ SpritesSound'
  BY DEF FoodInv, MouthTypes, SpritesSound
<1>3. FoodIsOwn'
  BY <1>1 DEF FoodInv, FoodIsOwn
<1>4. Mouths!CatchIsKept'
  BY <1>1, CatchKept DEF FoodInv
<1> QED BY <1>2, <1>3, <1>4 DEF FoodInv

LEMMA SwallowsFood ==
  ASSUME FoodInv, NEW s \in Mounts, Mouths!Mount(s), Mouths!Swallows(s), m_meal' = m_meal
  PROVE  /\ FoodInv'
         /\ \A k \in Mounts : m_sprite'[k].kind = "yoshi" <=> m_sprite[k].kind = "yoshi"
<1>1. PICK o : o = m_mouth[s]
  OBVIOUS
<1>2. Active(s)
  BY DEF Active, Mouths!coop_mount_mouth_active
<1>3. /\ o \in Mounts /\ o # 0 /\ m_sprite[o].kind = "food" /\ o # s /\ m_sprite[o] \in Thing
      /\ m_sprite[s].kind = "yoshi"
  BY <1>1, <1>2, MouthSizes DEF FoodInv, MouthTypes, FoodIsOwn, Mouths!Swallows, Mouths!Mount,
     Mounts
<1>4. m_licks' = m_licks
  BY DEF Mouths!Swallows
<1>5. \A r \in Mounts : Active(r) /\ m_mouth[r] = o => r = s
  BY <1>1, <1>2, <1>3 DEF FoodInv, FoodIsOwn
<1>6. CASE /\ m_sprite' = [m_sprite EXCEPT ![o].eaten = "swallowed"]
           /\ m_mouth' = m_mouth
  <2>1. /\ m_sprite' \in [Mounts -> Thing]
        /\ \A k \in Mounts : /\ m_sprite'[k].kind = m_sprite[k].kind
                             /\ m_sprite'[k].owner = m_sprite[k].owner
                             /\ m_sprite'[k].bond = m_sprite[k].bond
                             /\ k # o => m_sprite'[k].eaten = m_sprite[k].eaten
    BY <1>3, <1>6 DEF FoodInv, MouthTypes, Thing
  <2>2. \A k \in Mounts : Active(k)' <=> Active(k)
    BY <1>3, <2>1, WhoIsActive, WhoIsActiveNext
  <2>3. MouthTypes' /\ SpritesSound'
    BY <1>3, <1>4, <1>6, <2>1 DEF FoodInv, MouthTypes, SpritesSound
  <2>4. FoodIsOwn'
    <3>1. \A k \in Mounts : m_mouth[k] # 0 => m_mouth[k] \in Mounts
      BY MouthSizes DEF FoodInv, MouthTypes, Mounts
    <3> QED BY <1>6, <2>1, <2>2, <3>1 DEF FoodInv, FoodIsOwn
  <2>5. Mouths!CatchIsKept'
    BY <1>1, <1>2, <1>6, <2>1, <2>2, CatchKept DEF FoodInv
  <2> QED BY <2>1, <2>3, <2>4, <2>5 DEF FoodInv
<1>7. CASE /\ m_mouth' = [m_mouth EXCEPT ![s] = 0]
           /\ \/ m_sprite' = [m_sprite EXCEPT ![o] = Mouths!Vacant]
              \/ m_sprite' = [m_sprite EXCEPT ![o].eaten = "no"]
  <2>1. /\ m_sprite' \in [Mounts -> Thing]
        /\ m_sprite'[o].eaten = "no" /\ m_sprite'[o].kind \in {"none", "food"}
        /\ m_sprite'[o].bond = "held" => m_sprite'[o].owner # 0
        /\ \A k \in Mounts : k # o => m_sprite'[k] = m_sprite[k]
    <3>1. CASE m_sprite' = [m_sprite EXCEPT ![o] = Mouths!Vacant]
      BY <1>3, <3>1, MouthSizes DEF FoodInv, MouthTypes
    <3>2. CASE m_sprite' = [m_sprite EXCEPT ![o].eaten = "no"]
      <4>1. m_sprite[o].bond = "held" => m_sprite[o].owner # 0
        BY <1>3 DEF FoodInv, SpritesSound
      <4> QED BY <1>3, <3>2, <4>1 DEF FoodInv, MouthTypes, Thing
    <3> QED BY <1>7, <3>1, <3>2
  <2>2. /\ m_mouth' \in [Mounts -> 0 .. MountSlots] /\ m_mouth'[s] = 0
        /\ \A k \in Mounts : k # s => m_mouth'[k] = m_mouth[k]
    BY <1>7, MouthSizes DEF FoodInv, MouthTypes
  <2>3. \A k \in Mounts : Active(k)' <=> Active(k)
    BY <1>3, <2>1, WhoIsActive, WhoIsActiveNext
  <2>4. MouthTypes'
    BY <1>4, <2>1, <2>2 DEF FoodInv, MouthTypes
  <2>5. SpritesSound'
    BY <1>3, <2>1 DEF FoodInv, SpritesSound
  <2>6. \A k \in Mounts : m_mouth[k] # 0 => m_mouth[k] \in Mounts
    BY MouthSizes DEF FoodInv, MouthTypes, Mounts
  <2>7. FoodIsOwn'
    BY <1>3, <1>5, <2>1, <2>2, <2>3, <2>6 DEF FoodInv, FoodIsOwn
  <2>8. Mouths!CatchIsKept'
    BY <1>1, <2>1, <2>2, <2>3, CatchKept DEF FoodInv
  <2> QED BY <1>3, <2>1, <2>4, <2>5, <2>7, <2>8 DEF FoodInv
<1> QED BY <1>1, <1>6, <1>7, MouthSizes DEF Mouths!Swallows

(* Spelled out: the slots a world action leaves alone stay as they were.   *)
LEMMA BabyEatsFood ==
  ASSUME FoodInv, NEW s \in Mounts, Mouths!BabyEats(s)
  PROVE  /\ FoodInv'
         /\ \A k \in Mounts : m_sprite[k].kind = "yoshi" => m_sprite'[k].kind = "yoshi"
<1>1. PICK o : o = m_mouth[s]
  OBVIOUS
<1>2. /\ m_sprite[s].kind = "baby" /\ m_meal[s] /\ m_sprite[s].eaten = "no"
      /\ m_sprite[s].owner = 0 /\ m_sprite[s] \in Thing /\ m_sprite[s].bond # "held"
  BY DEF Mouths!BabyEats, FoodInv, SpritesSound, MouthTypes
<1>3. Active(s)
  BY <1>2, WhoIsActive
<1>4. /\ o \in Mounts /\ o # 0 /\ m_sprite[o].kind = "food" /\ o # s
  BY <1>1, <1>2, <1>3, MouthSizes DEF FoodInv, MouthTypes, FoodIsOwn, Mounts
<1>5. \A r \in Mounts : Active(r) /\ m_mouth[r] = o => r = s
  BY <1>1, <1>3, <1>4 DEF FoodInv, FoodIsOwn
<1>6. PICK grows \in BOOLEAN :
        /\ m_sprite' = [m_sprite EXCEPT ![o] = Mouths!Vacant,
                                        ![s].kind = IF grows THEN "yoshi" ELSE "baby"]
        /\ m_mouth' = IF grows THEN [m_mouth EXCEPT ![s] = 0] ELSE m_mouth
  BY <1>1, MouthSizes DEF Mouths!BabyEats
<1>7. m_meal' = [m_meal EXCEPT ![s] = FALSE] /\ m_licks' = m_licks
  BY DEF Mouths!BabyEats, Mouths!World
<1>8. /\ m_sprite' \in [Mounts -> Thing]
      /\ m_sprite'[o] = Mouths!Vacant
      /\ m_sprite'[s].kind = (IF grows THEN "yoshi" ELSE "baby")
      /\ m_sprite'[s].eaten = "no" /\ m_sprite'[s].owner = 0 /\ m_sprite'[s].bond # "held"
      /\ \A k \in Mounts \ {o, s} : m_sprite'[k] = m_sprite[k]
  BY <1>2, <1>4, <1>6, MouthSizes DEF FoodInv, MouthTypes, Thing
<1>9. /\ m_mouth' \in [Mounts -> 0 .. MountSlots]
      /\ grows => m_mouth'[s] = 0
      /\ \A k \in Mounts : k # s => m_mouth'[k] = m_mouth[k]
  BY <1>6, MouthSizes DEF FoodInv, MouthTypes
<1>10. /\ m_meal' \in [Mounts -> BOOLEAN] /\ ~m_meal'[s]
       /\ \A k \in Mounts : k # s => m_meal'[k] = m_meal[k]
  BY <1>7 DEF FoodInv, MouthTypes
<1>11. /\ \A k \in Mounts \ {s} : Active(k)' <=> Active(k)
       /\ Active(s)' <=> grows
  <2>1. Active(s)' <=> grows
    BY <1>8, <1>10, WhoIsActiveNext
  <2>2. \A k \in Mounts \ {o, s} : Active(k)' <=> Active(k)
    BY <1>8, <1>10, WhoIsActive, WhoIsActiveNext
  <2>3. ~Active(o) /\ ~Active(o)'
    BY <1>4, <1>8, MouthSizes, WhoIsActive, WhoIsActiveNext
  <2> QED BY <2>1, <2>2, <2>3
<1>12. MouthTypes'
  BY <1>7, <1>8, <1>9, <1>10 DEF FoodInv, MouthTypes
<1>13. SpritesSound'
  BY <1>4, <1>8, <1>10, MouthSizes DEF FoodInv, SpritesSound
<1>14. \A k \in Mounts : m_mouth[k] # 0 => m_mouth[k] \in Mounts
  BY MouthSizes DEF FoodInv, MouthTypes, Mounts
<1>15. FoodIsOwn'
  <2>1. \A k \in Mounts \ {s} : Active(k) /\ m_mouth[k] # 0 =>
          m_mouth[k] \in Mounts \ {o, s}
    BY <1>2, <1>5, <1>14 DEF FoodInv, FoodIsOwn
  <2>2. \A k \in Mounts \ {s} : Active(k)' => m_sprite'[k].kind = m_sprite[k].kind
    BY <1>8, MouthSizes, WhoIsActiveNext
  <2> QED BY <1>8, <1>9, <1>11, <2>1, <2>2 DEF FoodInv, FoodIsOwn
<1>16. Mouths!CatchIsKept'
  <2> SUFFICES ASSUME NEW k \in Mounts, m_sprite'[k].eaten # "no"
               PROVE  \E r \in Mounts : Active(r)' /\ m_mouth'[r] = k
    BY CatchKept
  <2>1. k # o /\ k # s /\ m_sprite[k].eaten # "no"
    BY <1>8, MouthSizes
  <2>2. PICK r \in Mounts : Active(r) /\ m_mouth[r] = k
    BY <2>1, CatchKept DEF FoodInv
  <2>3. r # s
    BY <1>1, <2>1, <2>2
  <2> QED BY <1>9, <1>11, <2>2, <2>3
<1>17. \A k \in Mounts : m_sprite[k].kind = "yoshi" => m_sprite'[k].kind = "yoshi"
  BY <1>2, <1>4, <1>8
<1> QED BY <1>12, <1>13, <1>15, <1>16, <1>17 DEF FoodInv

(* What a world action on one sprite needs: the others stay, and it is     *)
(* neither eaten nor food in a mouth.                                      *)
LEMMA OneSpriteChanges ==
  ASSUME FoodInv, NEW s \in Mounts, NEW b \in Thing, m_licks' = m_licks,
         m_sprite' = [m_sprite EXCEPT ![s] = b], m_mouth' = m_mouth, m_meal' = m_meal,
         b.eaten = m_sprite[s].eaten,
         b.eaten # "no" => b.kind = "food",
         b.kind \in {"egg", "baby"} => b.owner = 0,
         b.bond = "held" => b.owner # 0,
         \/ b.kind = m_sprite[s].kind
         \/ /\ ~Active(s) /\ b.kind = "baby" /\ ~m_meal[s] /\ m_sprite[s].kind # "food",
         b.bond = "held" => \A r \in Mounts : ~(Active(r) /\ m_mouth[r] = s)
  PROVE  FoodInv'
<1>1. /\ m_sprite' \in [Mounts -> Thing] /\ m_sprite'[s] = b
      /\ \A k \in Mounts \ {s} : m_sprite'[k] = m_sprite[k]
  BY DEF FoodInv, MouthTypes
<1>2. \A k \in Mounts : Active(k)' <=> Active(k)
  <2>1. \A k \in Mounts \ {s} : Active(k)' <=> Active(k)
    BY <1>1, WhoIsActive, WhoIsActiveNext
  <2>2. Active(s)' <=> Active(s)
    BY <1>1, WhoIsActive, WhoIsActiveNext
  <2> QED BY <2>1, <2>2
<1>3. MouthTypes' /\ SpritesSound'
  BY <1>1 DEF FoodInv, MouthTypes, SpritesSound
<1>4. \A k \in Mounts : m_mouth[k] # 0 => m_mouth[k] \in Mounts
  BY MouthSizes DEF FoodInv, MouthTypes, Mounts
<1>5. FoodIsOwn'
  <2>1. ASSUME NEW k \in Mounts, Active(k)
        PROVE  IF m_mouth[k] = 0 THEN m_sprite'[k].kind = "yoshi"
               ELSE m_sprite'[m_mouth[k]].kind = "food" /\ m_sprite'[m_mouth[k]].bond # "held"
    <3>1. m_sprite'[k].kind = m_sprite[k].kind
      BY <1>1, <2>1
    <3>2. CASE m_mouth[k] = 0
      BY <2>1, <3>1, <3>2 DEF FoodInv, FoodIsOwn
    <3>3. CASE m_mouth[k] # 0
      <4>1. m_sprite[m_mouth[k]].kind = "food" /\ m_sprite[m_mouth[k]].bond # "held"
            /\ m_mouth[k] \in Mounts
        BY <1>4, <2>1, <3>3 DEF FoodInv, FoodIsOwn
      <4>2. CASE m_mouth[k] = s
        BY <1>1, <2>1, <3>3, <4>1, <4>2
      <4>3. CASE m_mouth[k] # s
        BY <1>1, <3>3, <4>1, <4>3
      <4> QED BY <4>2, <4>3
    <3> QED BY <3>2, <3>3
  <2> QED BY <1>2, <2>1 DEF FoodInv, FoodIsOwn
<1>6. Mouths!CatchIsKept'
  BY <1>1, <1>2, CatchKept DEF FoodInv
<1> QED BY <1>3, <1>5, <1>6 DEF FoodInv

LEMMA WorldLicks == ASSUME FoodInv, Mouths!World PROVE m_licks' = m_licks
BY DEF Mouths!World

LEMMA HatchesFood ==
  ASSUME FoodInv, NEW s \in Mounts, Mouths!Hatches(s)
  PROVE  /\ FoodInv'
         /\ \A k \in Mounts : m_sprite[k].kind = "yoshi" => m_sprite'[k].kind = "yoshi"
<1> DEFINE b == [m_sprite[s] EXCEPT !.kind = "baby"]
<1>1. m_sprite[s].kind = "egg" /\ m_sprite[s].eaten = "no" /\ m_sprite[s].owner = 0
      /\ m_sprite[s] \in Thing /\ m_sprite[s].bond # "held"
  BY DEF Mouths!Hatches, FoodInv, SpritesSound, MouthTypes
<1>2. /\ m_sprite' = [m_sprite EXCEPT ![s] = b] /\ m_mouth' = m_mouth /\ m_meal' = m_meal
      /\ m_licks' = m_licks
  BY WorldLicks DEF Mouths!Hatches
<1>3. /\ b \in Thing /\ b.kind = "baby" /\ b.eaten = "no" /\ b.owner = 0 /\ b.bond # "held"
  BY <1>1 DEF Thing
<1> HIDE DEF b
<1>4. ~Active(s)
  BY <1>1, WhoIsActive
<1>5. ~m_meal[s]
  BY <1>1 DEF FoodInv, SpritesSound
<1>6. FoodInv'
  BY <1>1, <1>2, <1>3, <1>4, <1>5, OneSpriteChanges
<1>7. \A k \in Mounts : m_sprite[k].kind = "yoshi" => m_sprite'[k].kind = "yoshi"
  BY <1>1, <1>2 DEF FoodInv, MouthTypes
<1> QED BY <1>6, <1>7

LEMMA RidesFood ==
  ASSUME FoodInv, NEW p \in 1 .. Riders, NEW s \in Mounts, Mouths!Rides(p, s)
  PROVE  /\ FoodInv'
         /\ \A k \in Mounts : m_sprite[k].kind = "yoshi" => m_sprite'[k].kind = "yoshi"
<1> DEFINE b == [m_sprite[s] EXCEPT !.owner = p, !.bond = "ridden"]
<1>1. m_sprite[s].kind = "yoshi" /\ m_sprite[s] \in Thing
  BY DEF Mouths!Rides, Mouths!Mount, FoodInv, MouthTypes
<1>2. /\ m_sprite' = [m_sprite EXCEPT ![s] = b] /\ m_mouth' = m_mouth /\ m_meal' = m_meal
      /\ m_licks' = m_licks
  BY WorldLicks DEF Mouths!Rides, FoodInv, MouthTypes
<1>3. p \in 0 .. Riders
  BY MouthSizes
<1>4. /\ b \in Thing /\ b.kind = "yoshi" /\ b.eaten = m_sprite[s].eaten /\ b.bond # "held"
  BY <1>1, <1>3 DEF Thing
<1> HIDE DEF b
<1>5. b.eaten = "no"
  BY <1>1, <1>4 DEF FoodInv, SpritesSound
<1>6. FoodInv'
  BY <1>1, <1>2, <1>4, <1>5, OneSpriteChanges
<1>7. \A k \in Mounts : m_sprite[k].kind = "yoshi" => m_sprite'[k].kind = "yoshi"
  BY <1>2, <1>4 DEF FoodInv, MouthTypes
<1> QED BY <1>6, <1>7

LEMMA PicksUpFood ==
  ASSUME FoodInv, NEW p \in 1 .. Riders, NEW o \in Mounts, Mouths!PicksUp(p, o)
  PROVE  /\ FoodInv'
         /\ \A k \in Mounts : m_sprite[k].kind = "yoshi" => m_sprite'[k].kind = "yoshi"
<1> DEFINE b == [m_sprite[o] EXCEPT !.owner = p, !.bond = "held"]
<1>1. /\ m_sprite[o].kind = "food" /\ m_sprite[o] \in Thing
      /\ \A r \in Mounts : ~(Active(r) /\ m_mouth[r] = o)
  BY DEF Mouths!PicksUp, Mouths!NotInMouth, Mouths!Holds, Active, FoodInv, MouthTypes, Mounts
<1>2. /\ m_sprite' = [m_sprite EXCEPT ![o] = b] /\ m_mouth' = m_mouth /\ m_meal' = m_meal
      /\ m_licks' = m_licks
  BY WorldLicks DEF Mouths!PicksUp, FoodInv, MouthTypes
<1>3. p \in 0 .. Riders /\ p # 0
  BY MouthSizes
<1>4. /\ b \in Thing /\ b.kind = "food" /\ b.eaten = m_sprite[o].eaten /\ b.owner # 0
  BY <1>1, <1>3 DEF Thing
<1> HIDE DEF b
<1>5. FoodInv'
  BY <1>1, <1>2, <1>4, OneSpriteChanges
<1>6. \A k \in Mounts : m_sprite[k].kind = "yoshi" => m_sprite'[k].kind = "yoshi"
  BY <1>1, <1>2 DEF FoodInv, MouthTypes
<1> QED BY <1>5, <1>6

LEMMA LetsGoFood ==
  ASSUME FoodInv, NEW s \in Mounts, Mouths!LetsGo(s)
  PROVE  /\ FoodInv'
         /\ \A k \in Mounts : m_sprite[k].kind = "yoshi" => m_sprite'[k].kind = "yoshi"
<1> DEFINE b == [m_sprite[s] EXCEPT !.owner = 0, !.bond = "free"]
<1>1. m_sprite[s] \in Thing /\ (m_sprite[s].eaten # "no" => m_sprite[s].kind = "food")
  BY DEF FoodInv, MouthTypes, SpritesSound
<1>2. /\ m_sprite' = [m_sprite EXCEPT ![s] = b] /\ m_mouth' = m_mouth /\ m_meal' = m_meal
      /\ m_licks' = m_licks
  BY WorldLicks, MouthSizes DEF Mouths!LetsGo, FoodInv, MouthTypes
<1>3. /\ b \in Thing /\ b.kind = m_sprite[s].kind /\ b.eaten = m_sprite[s].eaten
      /\ b.owner = 0 /\ b.bond = "free"
  BY <1>1, MouthSizes DEF Thing
<1> HIDE DEF b
<1>4. FoodInv'
  BY <1>1, <1>2, <1>3, OneSpriteChanges
<1>5. \A k \in Mounts : m_sprite[k].kind = "yoshi" => m_sprite'[k].kind = "yoshi"
  BY <1>2, <1>3 DEF FoodInv, MouthTypes
<1> QED BY <1>4, <1>5

LEMMA AppearsFood ==
  ASSUME FoodInv, NEW s \in Mounts, NEW kind \in {"egg", "food"}, Mouths!Appears(s, kind)
  PROVE  /\ FoodInv'
         /\ \A k \in Mounts : m_sprite[k].kind = "yoshi" => m_sprite'[k].kind = "yoshi"
<1> DEFINE b == [Mouths!Vacant EXCEPT !.kind = kind]
<1>1. m_sprite[s].kind = "none" /\ ~m_meal[s]
  BY DEF Mouths!Appears, FoodInv, SpritesSound
<1>2. /\ m_sprite' = [m_sprite EXCEPT ![s] = b]
      /\ m_mouth' = [m_mouth EXCEPT ![s] = 0] /\ m_meal' = [m_meal EXCEPT ![s] = FALSE]
      /\ m_licks' = m_licks
  BY WorldLicks, MouthSizes DEF Mouths!Appears
<1>3. /\ b \in Thing /\ b.kind = kind /\ b.eaten = "no" /\ b.owner = 0 /\ b.bond = "free"
  BY MouthSizes DEF Thing, Mouths!Vacant
<1> HIDE DEF b
<1>4. /\ m_sprite' \in [Mounts -> Thing] /\ m_sprite'[s] = b
      /\ \A k \in Mounts \ {s} : m_sprite'[k] = m_sprite[k]
  BY <1>2, <1>3 DEF FoodInv, MouthTypes
<1>5. /\ m_mouth' \in [Mounts -> 0 .. MountSlots] /\ m_mouth'[s] = 0
      /\ \A k \in Mounts \ {s} : m_mouth'[k] = m_mouth[k]
  BY <1>2, MouthSizes DEF FoodInv, MouthTypes
<1>6. m_meal' \in [Mounts -> BOOLEAN] /\ \A k \in Mounts : m_meal'[k] = m_meal[k]
  BY <1>1, <1>2 DEF FoodInv, MouthTypes
<1>7. /\ \A k \in Mounts \ {s} : Active(k)' <=> Active(k)
      /\ ~Active(s) /\ ~Active(s)'
  <2>1. \A k \in Mounts \ {s} : Active(k)' <=> Active(k)
    BY <1>4, <1>6, WhoIsActive, WhoIsActiveNext
  <2>2. ~Active(s) /\ ~Active(s)'
    BY <1>1, <1>3, <1>4, WhoIsActive, WhoIsActiveNext
  <2> QED BY <2>1, <2>2
<1>8. MouthTypes'
  BY <1>2, <1>4, <1>5, <1>6 DEF FoodInv, MouthTypes
<1>9. SpritesSound'
  BY <1>1, <1>3, <1>4, <1>6 DEF FoodInv, SpritesSound
<1>10. \A k \in Mounts : Active(k) /\ m_mouth[k] # 0 => m_mouth[k] \in Mounts \ {s}
  BY <1>1, MouthSizes DEF FoodInv, MouthTypes, FoodIsOwn, Mounts
<1>11. FoodIsOwn'
  BY <1>4, <1>5, <1>7, <1>10 DEF FoodInv, FoodIsOwn
<1>12. Mouths!CatchIsKept'
  <2> SUFFICES ASSUME NEW k \in Mounts, m_sprite'[k].eaten # "no"
               PROVE  \E r \in Mounts : Active(r)' /\ m_mouth'[r] = k
    BY CatchKept
  <2>1. k # s /\ m_sprite[k].eaten # "no"
    BY <1>3, <1>4
  <2>2. PICK r \in Mounts : Active(r) /\ m_mouth[r] = k
    BY <2>1, CatchKept DEF FoodInv
  <2> QED BY <1>5, <1>7, <2>2
<1>13. \A k \in Mounts : m_sprite[k].kind = "yoshi" => m_sprite'[k].kind = "yoshi"
  BY <1>1, <1>4
<1> QED BY <1>8, <1>9, <1>11, <1>12, <1>13 DEF FoodInv

LEMMA BabyReachesFood ==
  ASSUME FoodInv, NEW s \in Mounts, NEW o \in Mounts, Mouths!BabyReaches(s, o)
  PROVE  FoodInv' /\ m_sprite' = m_sprite
<1>1. /\ m_sprite[s].kind = "baby" /\ ~m_meal[s] /\ o # s /\ m_sprite' = m_sprite
      /\ m_meal' = [m_meal EXCEPT ![s] = TRUE] /\ m_mouth' = [m_mouth EXCEPT ![s] = o]
      /\ m_licks' = m_licks
  BY WorldLicks DEF Mouths!BabyReaches
<1>2. /\ m_sprite[s].eaten = "no" /\ m_sprite[s].owner = 0
  BY <1>1 DEF FoodInv, SpritesSound
<1>3. /\ m_sprite[o].kind = "food" /\ m_sprite[o].bond # "held"
      /\ \A r \in Mounts \ {s} : ~(Active(r) /\ m_mouth[r] = o)
  <2>1. /\ m_sprite[o].kind \notin {"egg", "baby", "yoshi", "none"}
        /\ m_sprite[o].bond # "held" \/ m_sprite[o].owner = m_sprite[s].owner
        /\ \A r \in Mounts \ {s} : ~(Active(r) /\ m_mouth[r] = o)
    BY DEF Mouths!BabyReaches, Mouths!mouth_candidate_available, Mouths!Holds, Mouths!Live,
           Active, Mounts
  <2>2. m_sprite[o] \in Thing /\ (m_sprite[o].bond = "held" => m_sprite[o].owner # 0)
    BY DEF FoodInv, MouthTypes, SpritesSound
  <2> QED BY <1>2, <2>1, <2>2 DEF Thing
<1>4. o \in 0 .. MountSlots /\ o # 0
  BY MouthSizes DEF Mounts
<1>5. /\ m_mouth' \in [Mounts -> 0 .. MountSlots] /\ m_mouth'[s] = o
      /\ \A k \in Mounts \ {s} : m_mouth'[k] = m_mouth[k]
      /\ m_meal' \in [Mounts -> BOOLEAN] /\ m_meal'[s]
      /\ \A k \in Mounts \ {s} : m_meal'[k] = m_meal[k]
  BY <1>1, <1>4 DEF FoodInv, MouthTypes
<1>6. /\ \A k \in Mounts \ {s} : Active(k)' <=> Active(k)
      /\ ~Active(s) /\ Active(s)'
  <2>1. \A k \in Mounts \ {s} : Active(k)' <=> Active(k)
    BY <1>1, <1>5, WhoIsActive, WhoIsActiveNext
  <2>2. ~Active(s) /\ Active(s)'
    BY <1>1, <1>2, <1>5, WhoIsActive, WhoIsActiveNext
  <2> QED BY <2>1, <2>2
<1>7. MouthTypes' /\ SpritesSound'
  BY <1>1, <1>5 DEF FoodInv, MouthTypes, SpritesSound
<1>8. FoodIsOwn'
  <2>1. \A k \in Mounts : m_mouth[k] # 0 => m_mouth[k] \in Mounts
    BY MouthSizes DEF FoodInv, MouthTypes, Mounts
  <2>2. m_sprite' = m_sprite
    BY <1>1
  <2> QED BY <1>3, <1>4, <1>5, <1>6, <2>1, <2>2 DEF FoodInv, FoodIsOwn
<1>9. Mouths!CatchIsKept'
  <2> SUFFICES ASSUME NEW k \in Mounts, m_sprite'[k].eaten # "no"
               PROVE  \E r \in Mounts : Active(r)' /\ m_mouth'[r] = k
    BY CatchKept
  <2>1. PICK r \in Mounts : Active(r) /\ m_mouth[r] = k
    BY <1>1, CatchKept DEF FoodInv
  <2> QED BY <1>5, <1>6, <2>1
<1> QED BY <1>1, <1>7, <1>8, <1>9 DEF FoodInv

-----------------------------------------------------------------------------
(* Among any contacts one is foremost.                                     *)
LEMMA OneIsForemost ==
  ASSUME NEW fit \in SUBSET Lick, fit # {}
  PROVE  \E c \in fit : Mouths!Foremost(c, fit)
<1> DEFINE Ds == {c.distance : c \in fit}
<1>1. Ds \in SUBSET Nat /\ Ds # {}
  BY DEF Lick
<1>2. PICK d \in Ds : \A n \in Ds : d <= n
  BY <1>1, NatLeast
<1> DEFINE As == {c.actor : c \in {x \in fit : x.distance = d}}
<1>3. As \in SUBSET Nat /\ As # {}
  BY <1>2 DEF Lick
<1>4. PICK a \in As : \A n \in As : a <= n
  BY <1>3, NatLeast
<1> DEFINE Ms == {c.mount : c \in {x \in fit : x.distance = d /\ x.actor = a}}
<1>5. Ms \in SUBSET Nat /\ Ms # {}
  <2>1. PICK x \in fit : x.distance = d /\ x.actor = a
    BY <1>4
  <2>2. \A c \in fit : c.mount \in Nat
    BY MouthSizes DEF Lick
  <2> QED BY <2>1, <2>2
<1>6. PICK m \in Ms : \A n \in Ms : m <= n
  BY <1>5, NatLeast
<1>7. PICK c \in fit : c.distance = d /\ c.actor = a /\ c.mount = m
  BY <1>6
<1>8. ASSUME NEW r \in fit, Mouths!Beats(r, c) PROVE FALSE
  <2>1. /\ r.distance \in Nat /\ r.actor \in Nat /\ r.mount \in Nat
        /\ d \in Nat /\ a \in Nat /\ m \in Nat
    BY <1>1, <1>3, <1>5, MouthSizes DEF Lick
  <2>2. d <= r.distance
    BY <1>2
  <2>3. r.distance = d => a <= r.actor
    BY <1>4
  <2>4. r.distance = d /\ r.actor = a => m <= r.mount
    BY <1>6
  <2>5. \/ r.distance < d
        \/ r.distance = d /\ r.actor < a
        \/ r.distance = d /\ r.actor = a /\ r.mount < m
    BY <1>7, <1>8 DEF Mouths!Beats
  <2> HIDE DEF Ds, As, Ms
  <2> QED BY ONLY <2>1, <2>2, <2>3, <2>4, <2>5
<1> QED BY <1>7, <1>8 DEF Mouths!Foremost

(* What the claims settled so far keep.                                    *)
ClaimsOk(m) ==
  /\ m \in [mouth : [Mounts -> 0 .. MountSlots], taken : SUBSET Mounts]
  /\ \A s \in Mounts : Active(s) /\ m_mouth[s] # 0 => m.mouth[s] = m_mouth[s]
  /\ \A s, r \in Mounts :
       Active(s) /\ Active(r) /\ m.mouth[s] = m.mouth[r] /\ m.mouth[s] # 0 => s = r
  /\ \A s \in Mounts : Active(s) /\ m.mouth[s] = 0 => m_sprite[s].kind = "yoshi"
  /\ \A s \in Mounts : Active(s) /\ m.mouth[s] # 0 =>
       /\ m_sprite[m.mouth[s]].kind = "food"
       /\ m.mouth[s] \in m.taken \/ m_sprite[m.mouth[s]].bond # "held"
  /\ \A o \in m.taken :
       m_sprite[o].kind = "food" /\ \E s \in Mounts : Active(s) /\ m.mouth[s] = o

LEMMA ClaimsBegin == FoodInv => ClaimsOk([mouth |-> m_mouth, taken |-> {}])
<1> SUFFICES ASSUME FoodInv PROVE ClaimsOk([mouth |-> m_mouth, taken |-> {}])
  OBVIOUS
<1> DEFINE m == [mouth |-> m_mouth, taken |-> {}]
<1>1. m.mouth = m_mouth /\ m.taken = {}
      /\ m \in [mouth : [Mounts -> 0 .. MountSlots], taken : SUBSET Mounts]
  BY DEF FoodInv, MouthTypes
<1> HIDE DEF m
<1>2. ClaimsOk(m)
  BY <1>1 DEF ClaimsOk, FoodInv, FoodIsOwn
<1> QED BY <1>2 DEF m

(* One more object goes to the foremost of those that may take it.         *)
LEMMA ClaimGoesOn ==
  ASSUME FoodInv, NEW m, ClaimsOk(m), NEW o \in Mounts
  PROVE  ClaimsOk(Mouths!Given(m, o))
<1> DEFINE fit == {c \in m_licks : c.object = o /\ Mouths!MayTake(m.mouth, c, o)}
           won == CHOOSE c \in fit : Mouths!Foremost(c, fit)
           next == [mouth |-> [m.mouth EXCEPT ![won.mount] = o], taken |-> m.taken \union {o}]
<1>1. CASE fit = {}
  <2>1. Mouths!Given(m, o) = m
    BY <1>1 DEF Mouths!Given
  <2> QED BY <2>1
<1>2. CASE fit # {}
  <2>1. Mouths!Given(m, o) = next
    BY <1>2 DEF Mouths!Given
  <2>2. fit \in SUBSET Lick
    BY DEF FoodInv, MouthTypes
  <2>3. \E c \in fit : Mouths!Foremost(c, fit)
    <3> HIDE DEF fit
    <3> QED BY <1>2, <2>2, OneIsForemost
  <2>4. won \in fit
    <3> HIDE DEF fit
    <3> QED BY <2>3
  <2>5. PICK w : w = won.mount
    OBVIOUS
  <2>6. w \in Mounts /\ Mouths!MayTake(m.mouth, won, o)
    <3> HIDE DEF won
    <3>1. won \in Lick
      BY <2>2, <2>4
    <3> QED BY <2>4, <2>5, <3>1 DEF Lick
  <2> HIDE DEF won, fit
  <2>7. /\ Mouths!Mount(w) /\ m.mouth[w] = 0 /\ Mouths!Live(o)
        /\ m_sprite[o].kind \notin {"egg", "baby", "yoshi"}
        /\ \A s \in Mounts \ {w} : ~(Active(s) /\ m.mouth[s] = o)
    BY <2>5, <2>6, MouthSizes DEF Mouths!MayTake, Active, Mounts
  <2>8. Active(w) /\ m_sprite[w].kind = "yoshi"
    BY <2>7 DEF Active, Mouths!coop_mount_mouth_active, Mouths!Mount
  <2>9. m_sprite[o].kind = "food"
    BY <2>7 DEF Mouths!Live, FoodInv, MouthTypes, Thing
  <2>10. o \in 0 .. MountSlots /\ o # 0
    BY MouthSizes DEF Mounts
  <2>11. PICK mouth : mouth = [m.mouth EXCEPT ![w] = o]
    OBVIOUS
  <2>12. /\ next = [mouth |-> mouth, taken |-> m.taken \union {o}]
         /\ next.mouth = mouth /\ next.taken = m.taken \union {o}
    BY <2>5, <2>11
  <2>13. /\ mouth \in [Mounts -> 0 .. MountSlots] /\ mouth[w] = o
         /\ \A s \in Mounts \ {w} : mouth[s] = m.mouth[s]
    BY <2>6, <2>10, <2>11 DEF ClaimsOk
  <2>14. next \in [mouth : [Mounts -> 0 .. MountSlots], taken : SUBSET Mounts]
    BY <2>12, <2>13 DEF ClaimsOk
  <2> HIDE DEF next
  <2>15. \A s \in Mounts : Active(s) /\ m_mouth[s] # 0 => mouth[s] = m_mouth[s]
    BY <2>7, <2>13 DEF ClaimsOk
  <2>16. \A s, r \in Mounts :
           Active(s) /\ Active(r) /\ mouth[s] = mouth[r] /\ mouth[s] # 0 => s = r
    BY <2>7, <2>13 DEF ClaimsOk
  <2>17. \A s \in Mounts : Active(s) /\ mouth[s] = 0 => m_sprite[s].kind = "yoshi"
    BY <2>8, <2>13 DEF ClaimsOk
  <2>18. \A s \in Mounts : Active(s) /\ mouth[s] # 0 =>
           /\ m_sprite[mouth[s]].kind = "food"
           /\ mouth[s] \in m.taken \union {o} \/ m_sprite[mouth[s]].bond # "held"
    BY <2>9, <2>13 DEF ClaimsOk
  <2>19. \A k \in m.taken \union {o} :
           m_sprite[k].kind = "food" /\ \E s \in Mounts : Active(s) /\ mouth[s] = k
    <3>1. ASSUME NEW k \in m.taken PROVE \E s \in Mounts : Active(s) /\ mouth[s] = k
      <4>1. PICK s \in Mounts : Active(s) /\ m.mouth[s] = k
        BY DEF ClaimsOk
      <4>2. k \in Mounts /\ k # 0
        BY MouthSizes DEF ClaimsOk
      <4>3. s # w
        BY <2>7, <4>1, <4>2
      <4> QED BY <2>13, <4>1, <4>3
    <3> QED BY <2>6, <2>8, <2>9, <2>13, <3>1 DEF ClaimsOk
  <2>20. ClaimsOk(next)
    BY <2>12, <2>14, <2>15, <2>16, <2>17, <2>18, <2>19 DEF ClaimsOk
  <2> QED BY <2>1, <2>20
<1> QED BY <1>1, <1>2

(* The objects are claimed from the last slot to the first: what the       *)
(* recursion computes, by the least number of objects that it would fail.  *)
LastSlot == Mouths!Cardinality(1 .. MountSlots)
ClaimChain(n, g) ==
  g = [k \in 0 .. n |-> IF k = 0 THEN [mouth |-> m_mouth, taken |-> {}]
                        ELSE Mouths!Given(g[k - 1], LastSlot + 1 - k)]

LEMMA ClaimChainExists == ASSUME NEW n \in Nat PROVE \E g : ClaimChain(n, g)
<1> DEFINE first == [mouth |-> m_mouth, taken |-> {}]
           step(m, k) == Mouths!Given(m, LastSlot + 1 - k)
           T == {k \in Nat : ~\E g : ClaimChain(k, g)}
<1> SUFFICES ASSUME T # {} PROVE FALSE
  OBVIOUS
<1>1. PICK k \in T : \A j \in T : k <= j
  BY NatLeast
<1>2. CASE k = 0
  <2> DEFINE g == [p \in 0 .. 0 |-> first]
  <2>1. ClaimChain(0, g)
    BY DEF ClaimChain
  <2> QED BY <1>1, <1>2, <2>1
<1>3. CASE k # 0
  <2>1. k - 1 \in Nat /\ k - 1 \notin T
    BY <1>1, <1>3
  <2>2. PICK f : ClaimChain(k - 1, f)
    BY <2>1
  <2> DEFINE g == [p \in 0 .. k |-> IF p = k THEN step(f[k - 1], k) ELSE f[p]]
  <2>3. ASSUME NEW p \in 0 .. k
        PROVE  g[p] = IF p = 0 THEN first ELSE step(g[p - 1], p)
    <3>1. CASE p = k
      <4>1. g[p] = step(f[k - 1], k) /\ g[k - 1] = f[k - 1] /\ p # 0
        BY <1>1, <1>3, <3>1, <2>1
      <4> QED BY <4>1, <3>1
    <3>2. CASE p # k /\ p # 0
      <4>1. /\ p \in 0 .. k - 1 /\ p - 1 \in 0 .. k - 1 /\ p - 1 \in 0 .. k /\ p - 1 # k
        BY <1>1, <3>2
      <4>2. g[p] = f[p] /\ g[p - 1] = f[p - 1]
        BY <3>2, <4>1
      <4>3. f[p] = step(f[p - 1], p)
        BY <2>2, <3>2, <4>1 DEF ClaimChain
      <4> QED BY <3>2, <4>2, <4>3
    <3>3. CASE p = 0
      <4>1. 0 \in 0 .. k - 1 /\ 0 # k
        BY <1>1, <1>3
      <4>2. f[0] = first
        BY <2>2, <4>1 DEF ClaimChain
      <4> QED BY <1>3, <3>3, <4>2
    <3> QED BY <3>1, <3>2, <3>3
  <2>4. g = [p \in 0 .. k |-> g[p]]
    OBVIOUS
  <2> HIDE DEF g
  <2>5. ClaimChain(k, g)
    BY <2>3, <2>4 DEF ClaimChain
  <2> QED BY <1>1, <2>5
<1> QED BY <1>2, <1>3

LEMMA MountsCounted == LastSlot = MountSlots
<1>1. Cardinality(1 .. MountSlots) = MountSlots
  BY MouthSizes, FS_Interval
<1>2. \A S : Mouths!Cardinality(S) = Cardinality(S)
  BY DEF Mouths!Cardinality, Cardinality
<1> QED BY <1>1, <1>2 DEF LastSlot

LEMMA ClaimedEquation ==
  \E g : ClaimChain(MountSlots, g) /\ Mouths!Claimed = g[MountSlots]
<1> DEFINE g == CHOOSE g : ClaimChain(LastSlot, g)
<1>1. ClaimChain(LastSlot, g)
  BY ClaimChainExists, MountsCounted, MouthSizes
<1>2. Mouths!Claimed = g[LastSlot]
  BY Zenon DEF Mouths!Claimed, ClaimChain, LastSlot
<1> QED BY <1>1, <1>2, MountsCounted

LEMMA AllClaimsOk == ASSUME FoodInv PROVE ClaimsOk(Mouths!Claimed)
<1>1. PICK g : ClaimChain(MountSlots, g) /\ Mouths!Claimed = g[MountSlots]
  BY ClaimedEquation
<1>2. MountSlots \in Nat
  BY MouthSizes
<1> DEFINE T == {k \in Nat : k <= MountSlots /\ ~ClaimsOk(g[k])}
<1>3. T = {}
  <2> SUFFICES ASSUME T # {} PROVE FALSE
    OBVIOUS
  <2>1. PICK k \in T : \A j \in T : k <= j
    BY NatLeast
  <2>2. CASE k = 0
    <3>1. g[0] = [mouth |-> m_mouth, taken |-> {}]
      BY <1>1, <1>2 DEF ClaimChain
    <3> QED BY <2>1, <2>2, <3>1, ClaimsBegin
  <2>3. CASE k # 0
    <3>1. k \in 1 .. MountSlots /\ k - 1 \in Nat /\ k - 1 <= MountSlots /\ ~(k <= k - 1)
          /\ MountSlots + 1 - k \in Mounts
      BY <1>2, <2>1, <2>3 DEF Mounts
    <3>2. ClaimsOk(g[k - 1])
      BY <2>1, <3>1
    <3>3. g[k] = Mouths!Given(g[k - 1], MountSlots + 1 - k)
      <4>1. k \in 0 .. MountSlots
        BY <3>1
      <4>2. g[k] = Mouths!Given(g[k - 1], LastSlot + 1 - k)
        BY <1>1, <2>3, <4>1 DEF ClaimChain
      <4> QED BY <4>2, MountsCounted
    <3>4. ClaimsOk(g[k])
      BY <3>1, <3>2, <3>3, ClaimGoesOn
    <3> QED BY <2>1, <3>4
  <2> QED BY <2>2, <2>3
<1> QED BY <1>1, <1>2, <1>3

LEMMA ClaimsFood ==
  ASSUME FoodInv, Mouths!Claims
  PROVE  /\ FoodInv'
         /\ \A k \in Mounts : m_sprite'[k].kind = m_sprite[k].kind
<1>1. PICK m : m = Mouths!Claimed
  OBVIOUS
<1>2. ClaimsOk(m)
  BY <1>1, AllClaimsOk
<1>3. /\ m_mouth' = m.mouth /\ m_meal' = m_meal /\ m_licks' = {}
      /\ m_sprite' = [s \in Mounts |->
           IF s \in m.taken
           THEN [m_sprite[s] EXCEPT !.eaten = "caught", !.bond = "free", !.owner = 0]
           ELSE m_sprite[s]]
  BY <1>1, MouthSizes DEF Mouths!Claims, Mounts
<1>4. /\ m_sprite' \in [Mounts -> Thing]
      /\ \A s \in Mounts \ m.taken : m_sprite'[s] = m_sprite[s]
      /\ \A s \in Mounts \cap m.taken :
           /\ m_sprite'[s].kind = m_sprite[s].kind /\ m_sprite'[s].bond = "free"
           /\ m_sprite'[s].owner = 0 /\ m_sprite'[s].kind = "food"
  <2>1. ASSUME NEW s \in Mounts, s \in m.taken
        PROVE  /\ m_sprite'[s] \in Thing
               /\ m_sprite'[s].kind = m_sprite[s].kind /\ m_sprite'[s].bond = "free"
               /\ m_sprite'[s].owner = 0 /\ m_sprite'[s].kind = "food"
    <3>1. m_sprite[s] \in Thing /\ m_sprite[s].kind = "food"
      BY <1>2, <2>1 DEF FoodInv, MouthTypes, ClaimsOk
    <3>2. m_sprite'[s] = [m_sprite[s] EXCEPT !.eaten = "caught", !.bond = "free", !.owner = 0]
      BY <1>3, <2>1
    <3> QED BY <3>1, <3>2, MouthSizes DEF Thing
  <2>2. \A s \in Mounts \ m.taken : m_sprite'[s] = m_sprite[s] /\ m_sprite'[s] \in Thing
    BY <1>3 DEF FoodInv, MouthTypes
  <2> QED BY <1>3, <2>1, <2>2
<1>5. \A k \in Mounts : m_sprite'[k].kind = m_sprite[k].kind
  BY <1>4
<1>6. \A k \in Mounts : Active(k)' <=> Active(k)
  <2>1. ASSUME NEW k \in Mounts PROVE Active(k)' <=> Active(k)
    <3>1. CASE k \in m.taken
      <4>1. m_sprite[k].kind = "food" /\ m_sprite'[k].kind = "food"
        BY <1>4, <1>5, <3>1
      <4> QED BY <4>1, WhoIsActive, WhoIsActiveNext
    <3>2. CASE k \notin m.taken
      BY <1>3, <1>4, <3>2, WhoIsActive, WhoIsActiveNext
    <3> QED BY <3>1, <3>2
  <2> QED BY <2>1
<1>7. MouthTypes'
  BY <1>2, <1>3, <1>4 DEF FoodInv, MouthTypes, ClaimsOk
<1>8. SpritesSound'
  BY <1>3, <1>4 DEF FoodInv, SpritesSound
<1>9. FoodIsOwn'
  <2>1. \A s \in Mounts : m.mouth[s] # 0 => m.mouth[s] \in Mounts
    BY <1>2, MouthSizes DEF ClaimsOk, Mounts
  <2>2. \A s \in Mounts : Active(s) /\ m.mouth[s] # 0 =>
          m_sprite'[m.mouth[s]].kind = "food" /\ m_sprite'[m.mouth[s]].bond # "held"
    BY <1>2, <1>4, <2>1 DEF ClaimsOk
  <2>3. \A s \in Mounts : Active(s) /\ m.mouth[s] = 0 => m_sprite'[s].kind = "yoshi"
    BY <1>2, <1>5 DEF ClaimsOk
  <2>4. \A s, r \in Mounts :
          Active(s) /\ Active(r) /\ m.mouth[s] = m.mouth[r] /\ m.mouth[s] # 0 => s = r
    BY <1>2 DEF ClaimsOk
  <2> QED BY <1>3, <1>6, <2>2, <2>3, <2>4 DEF FoodIsOwn
<1>10. Mouths!CatchIsKept'
  <2> SUFFICES ASSUME NEW k \in Mounts, m_sprite'[k].eaten # "no"
               PROVE  \E r \in Mounts : Active(r)' /\ m_mouth'[r] = k
    BY CatchKept
  <2>1. CASE k \in m.taken
    BY <1>2, <1>3, <1>6, <2>1 DEF ClaimsOk
  <2>2. CASE k \notin m.taken
    <3>1. m_sprite[k].eaten # "no" /\ k # 0
      BY <1>4, <2>2, MouthSizes
    <3>2. PICK r \in Mounts : Active(r) /\ m_mouth[r] = k
      BY <3>1, CatchKept DEF FoodInv
    <3> QED BY <1>2, <1>3, <1>6, <3>1, <3>2 DEF ClaimsOk
  <2> QED BY <2>1, <2>2
<1> QED BY <1>5, <1>7, <1>8, <1>9, <1>10 DEF FoodInv

-----------------------------------------------------------------------------
(* Bites begun so far: each a mount's, on a berry that is there and that   *)
(* no one else is at.                                                      *)
BitesOk(b) ==
  /\ b \in [Mounts -> [left : Nat, tile : Tiles \union {0}]]
  /\ \A s \in Mounts : Biting(b, s) =>
       /\ m_sprite[s].kind = "yoshi"
       /\ b[s].tile \in Tiles /\ m_berry[b[s].tile]
  /\ \A s, r \in Mounts :
       Biting(b, s) /\ Biting(b, r) /\ b[s].tile = b[r].tile => s = r

LEMMA BiteGoesOn ==
  ASSUME NEW b, BitesOk(b), NEW c \in Touch
  PROVE  BitesOk(Mouths!Bitten(b, c))
<1>1. CASE ~Mouths!MayBite(b, c)
  BY <1>1 DEF Mouths!Bitten
<1>2. CASE Mouths!MayBite(b, c)
  <2>1. PICK w, t : w = c.mount /\ t = c.tile /\ w \in Mounts /\ t \in Tiles
    BY DEF Touch
  <2>2. PICK d : d = Mouths!Bitten(b, c)
    OBVIOUS
  <2>3. d = [b EXCEPT ![w] = [left |-> Gulp, tile |-> t]]
    BY <1>2, <2>1, <2>2 DEF Mouths!Bitten
  <2>4. /\ m_sprite[w].kind = "yoshi" /\ m_berry[t]
        /\ \A s \in Mounts \ {w} : ~(Biting(b, s) /\ b[s].tile = t)
    BY <1>2, <2>1 DEF Mouths!MayBite, Mouths!Mount, Mounts, Biting
  <2>5. /\ d \in [Mounts -> [left : Nat, tile : Tiles \union {0}]]
        /\ d[w] = [left |-> Gulp, tile |-> t]
        /\ \A s \in Mounts \ {w} : d[s] = b[s]
    BY <2>1, <2>3, MouthSizes DEF BitesOk
  <2>6. d[w].tile = t
    BY <2>5
  <2>7. \A s \in Mounts \ {w} : Biting(d, s) <=> Biting(b, s)
    BY <2>5 DEF Biting
  <2>8. BitesOk(d)
    BY <2>1, <2>4, <2>5, <2>6, <2>7 DEF BitesOk
  <2> QED BY <2>2, <2>8
<1> QED BY <1>1, <1>2

(* The bites are begun in the order they were recorded.                    *)
BiteChain(n, g) ==
  g = [i \in 0 .. n |-> IF i = 0 THEN m_bite ELSE Mouths!Bitten(g[i - 1], m_bites[i])]

LEMMA BiteChainExists == ASSUME NEW n \in Nat PROVE \E g : BiteChain(n, g)
<1> DEFINE step(b, i) == Mouths!Bitten(b, m_bites[i])
           T == {k \in Nat : ~\E g : BiteChain(k, g)}
<1> SUFFICES ASSUME T # {} PROVE FALSE
  OBVIOUS
<1>1. PICK k \in T : \A j \in T : k <= j
  BY NatLeast
<1>2. CASE k = 0
  <2> DEFINE g == [p \in 0 .. 0 |-> m_bite]
  <2>1. BiteChain(0, g)
    BY DEF BiteChain
  <2> QED BY <1>1, <1>2, <2>1
<1>3. CASE k # 0
  <2>1. k - 1 \in Nat /\ k - 1 \notin T
    BY <1>1, <1>3
  <2>2. PICK f : BiteChain(k - 1, f)
    BY <2>1
  <2> DEFINE g == [p \in 0 .. k |-> IF p = k THEN step(f[k - 1], k) ELSE f[p]]
  <2>3. ASSUME NEW p \in 0 .. k
        PROVE  g[p] = IF p = 0 THEN m_bite ELSE step(g[p - 1], p)
    <3>1. CASE p = k
      <4>1. g[p] = step(f[k - 1], k) /\ g[k - 1] = f[k - 1] /\ p # 0
        BY <1>1, <1>3, <3>1, <2>1
      <4> QED BY <4>1, <3>1
    <3>2. CASE p # k /\ p # 0
      <4>1. /\ p \in 0 .. k - 1 /\ p - 1 \in 0 .. k - 1 /\ p - 1 \in 0 .. k /\ p - 1 # k
        BY <1>1, <3>2
      <4>2. g[p] = f[p] /\ g[p - 1] = f[p - 1]
        BY <3>2, <4>1
      <4>3. f[p] = step(f[p - 1], p)
        BY <2>2, <3>2, <4>1 DEF BiteChain
      <4> QED BY <3>2, <4>2, <4>3
    <3>3. CASE p = 0
      <4>1. 0 \in 0 .. k - 1 /\ 0 # k
        BY <1>1, <1>3
      <4>2. f[0] = m_bite
        BY <2>2, <4>1 DEF BiteChain
      <4> QED BY <1>3, <3>3, <4>2
    <3> QED BY <3>1, <3>2, <3>3
  <2>4. g = [p \in 0 .. k |-> g[p]]
    OBVIOUS
  <2> HIDE DEF g
  <2>5. BiteChain(k, g)
    BY <2>3, <2>4 DEF BiteChain
  <2> QED BY <1>1, <2>5
<1> QED BY <1>2, <1>3

LEMMA BegunEquation ==
  ASSUME Len(m_bites) \in Nat
  PROVE  \E g : BiteChain(Len(m_bites), g) /\ Mouths!Begun = g[Len(m_bites)]
<1> DEFINE g == CHOOSE g : BiteChain(Len(m_bites), g)
<1>1. BiteChain(Len(m_bites), g)
  BY BiteChainExists
<1>2. Mouths!Begun = g[Len(m_bites)]
  BY Zenon DEF Mouths!Begun, BiteChain
<1> QED BY <1>1, <1>2

LEMMA AllBitesOk == ASSUME BerryInv PROVE BitesOk(Mouths!Begun)
<1>1. m_bites \in Seq(Touch)
  BY DEF BerryInv, BerryTypes
<1>2. PICK n : n = Len(m_bites) /\ n \in Nat
  BY <1>1
<1>3. PICK g : BiteChain(n, g) /\ Mouths!Begun = g[n]
  BY <1>2, BegunEquation
<1> DEFINE T == {k \in Nat : k <= n /\ ~BitesOk(g[k])}
<1>4. T = {}
  <2> SUFFICES ASSUME T # {} PROVE FALSE
    OBVIOUS
  <2>1. PICK k \in T : \A j \in T : k <= j
    BY NatLeast
  <2>2. CASE k = 0
    <3>1. g[0] = m_bite
      BY <1>2, <1>3 DEF BiteChain
    <3>2. BitesOk(m_bite)
      BY DEF BerryInv, BerryTypes, BitesApart, BitesOk
    <3> QED BY <2>1, <2>2, <3>1, <3>2
  <2>3. CASE k # 0
    <3>1. k \in 1 .. n /\ k \in 0 .. n /\ k - 1 \in Nat /\ k - 1 <= n /\ ~(k <= k - 1)
      BY <1>2, <2>1, <2>3
    <3>2. BitesOk(g[k - 1])
      BY <2>1, <3>1
    <3>3. g[k] = Mouths!Bitten(g[k - 1], m_bites[k])
      BY <1>3, <2>3, <3>1 DEF BiteChain
    <3>4. m_bites[k] \in Touch
      BY <1>1, <1>2, <3>1
    <3>5. BitesOk(g[k])
      BY <3>2, <3>3, <3>4, BiteGoesOn
    <3> QED BY <2>1, <3>5
  <2> QED BY <2>2, <2>3
<1> QED BY <1>2, <1>3, <1>4

LEMMA ClaimsBerries ==
  ASSUME BerryInv, Mouths!Claims, \A k \in Mounts : m_sprite'[k].kind = m_sprite[k].kind
  PROVE  BerryInv'
<1>1. /\ m_bite' = Mouths!Begun /\ m_berry' = m_berry /\ m_gone' = m_gone
      /\ m_bites' = <<>>
  BY DEF Mouths!Claims
<1>2. BitesOk(m_bite')
  BY <1>1, AllBitesOk
<1>3. BerryTypes'
  BY <1>1, <1>2 DEF BerryInv, BerryTypes, BitesOk
<1>4. BitesApart'
  BY <1>1, <1>2 DEF BitesApart, BitesOk
<1>5. BerriesCounted'
  BY <1>1 DEF BerryInv, BerriesCounted
<1> QED BY <1>3, <1>4, <1>5 DEF BerryInv

(* A step that leaves bites and berries alone and mounts mounts.           *)
LEMMA BerriesStay ==
  ASSUME BerryInv, m_bite' = m_bite, m_berry' = m_berry, m_gone' = m_gone,
         m_bites' \in Seq(Touch),
         \A k \in Mounts : m_sprite[k].kind = "yoshi" => m_sprite'[k].kind = "yoshi"
  PROVE  BerryInv'
<1>1. BerryTypes' /\ BerriesCounted'
  BY DEF BerryInv, BerryTypes, BerriesCounted
<1>2. BitesApart'
  BY DEF BerryInv, BitesApart, Biting
<1> QED BY <1>1, <1>2 DEF BerryInv

(* One that ends a bite without its berry.                                 *)
LEMMA BiteIsDropped ==
  ASSUME BerryInv, NEW s \in Mounts, m_bite' = [m_bite EXCEPT ![s] = Mouths!NoBite],
         m_berry' = m_berry, m_gone' = m_gone, m_bites' = m_bites,
         \A k \in Mounts : m_sprite[k].kind = "yoshi" => m_sprite'[k].kind = "yoshi"
  PROVE  BerryInv'
<1>1. /\ Mouths!NoBite \in [left : Nat, tile : Tiles \union {0}] /\ ~(Mouths!NoBite.left > 0)
  BY DEF Mouths!NoBite
<1>2. /\ m_bite' \in [Mounts -> [left : Nat, tile : Tiles \union {0}]]
      /\ \A k \in Mounts : Biting(m_bite', k) => k # s /\ m_bite'[k] = m_bite[k]
  BY <1>1 DEF BerryInv, BerryTypes, Biting
<1>3. \A k \in Mounts : Biting(m_bite', k) => Biting(m_bite, k)
  BY <1>2 DEF Biting
<1>4. BerryTypes' /\ BerriesCounted'
  BY <1>2 DEF BerryInv, BerryTypes, BerriesCounted
<1>5. BitesApart'
  BY <1>2, <1>3 DEF BerryInv, BitesApart
<1> QED BY <1>4, <1>5 DEF BerryInv

(* A berry that nobody is at is eaten.                                     *)
LEMMA BerryIsEaten ==
  ASSUME BerryInv, NEW t \in Tiles, m_berry[t],
         NEW bite \in [Mounts -> [left : Nat, tile : Tiles \union {0}]], m_bite' = bite,
         \A k \in Mounts : Biting(bite, k) =>
           Biting(m_bite, k) /\ bite[k] = m_bite[k] /\ bite[k].tile # t,
         m_berry' = [m_berry EXCEPT ![t] = FALSE],
         m_gone' = [m_gone EXCEPT ![t] = @ + 1],
         m_bites' \in Seq(Touch), m_sprite' = m_sprite
  PROVE  BerryInv'
<1>1. /\ m_berry' \in [Tiles -> BOOLEAN] /\ ~m_berry'[t]
      /\ \A u \in Tiles \ {t} : m_berry'[u] = m_berry[u]
  BY DEF BerryInv, BerryTypes
<1>2. /\ m_gone' \in [Tiles -> Nat] /\ m_gone'[t] = m_gone[t] + 1
      /\ \A u \in Tiles \ {t} : m_gone'[u] = m_gone[u]
  BY DEF BerryInv, BerryTypes
<1>3. BerryTypes'
  BY <1>1, <1>2 DEF BerryInv, BerryTypes
<1>4. BerriesCounted'
  <2>1. m_gone[t] = 0
    BY DEF BerryInv, BerriesCounted
  <2> QED BY <1>1, <1>2, <2>1 DEF BerryInv, BerriesCounted
<1>5. BitesApart'
  BY <1>1 DEF BerryInv, BitesApart
<1> QED BY <1>3, <1>4, <1>5 DEF BerryInv

(* A mount's own step.                                                     *)
LEMMA TouchesRecorded ==
  ASSUME FoodInv, BerryInv, NEW s \in Mounts, Mouths!Touching(s)
  PROVE  m_bites' \in Seq(Touch)
<1>1. CASE UNCHANGED m_bites
  BY <1>1 DEF BerryInv, BerryTypes
<1>2. ASSUME NEW t \in Tiles, NEW a \in Mouths!NearestPlayer(s), NEW d \in Mouths!Distances,
             m_bites' = Append(m_bites, [mount |-> s, tile |-> t, actor |-> a, distance |-> d])
      PROVE  m_bites' \in Seq(Touch)
  <2>1. a \in Nat /\ d \in Nat
    BY MouthSizes DEF Mouths!NearestPlayer, Mouths!Distances, FoodInv, MouthTypes, Thing
  <2>2. [mount |-> s, tile |-> t, actor |-> a, distance |-> d] \in Touch
    BY <2>1 DEF Touch
  <2>3. m_bites \in Seq(Touch)
    BY DEF BerryInv, BerryTypes
  <2> QED BY <1>2, <2>2, <2>3
<1> QED BY <1>1, <1>2 DEF Mouths!Touching

LEMMA DrawMouths ==
  ASSUME FoodInv, BerryInv, NEW s \in Mounts, Mouths!Draw(s)
  PROVE  FoodInv' /\ BerryInv'
<1>1. Mouths!Mount(s) /\ Mouths!Touching(s) /\ m_meal' = m_meal
  BY DEF Mouths!Draw
<1>2. m_bites' \in Seq(Touch)
  BY <1>1, TouchesRecorded
<1>3. m_licks \subseteq Lick
  BY DEF FoodInv, MouthTypes
<1>4. CASE Mouths!Gulps(s)
  <2>1. FoodInv'
    BY <1>1, <1>3, <1>4, FoodStays DEF Mouths!Gulps
  <2>2. m_bite \in [Mounts -> [left : Nat, tile : Tiles \union {0}]]
        /\ m_sprite' = m_sprite
    BY <1>4 DEF BerryInv, BerryTypes, Mouths!Gulps
  <2>3. CASE m_bite[s].left = 1
    <3>1. PICK t : t = m_bite[s].tile
      OBVIOUS
    <3>2. t \in Tiles /\ m_berry[t] /\ Biting(m_bite, s)
      BY <2>3, <3>1 DEF BerryInv, BitesApart, Biting
    <3>3. PICK bite : bite = [m_bite EXCEPT ![s] = Mouths!NoBite]
      OBVIOUS
    <3>4. m_bite' = bite
      BY <1>4, <2>2, <2>3, <3>3 DEF Mouths!Gulps
    <3>5. /\ bite \in [Mounts -> [left : Nat, tile : Tiles \union {0}]]
          /\ \A k \in Mounts : Biting(bite, k) => k # s /\ bite[k] = m_bite[k]
      <4>1. /\ Mouths!NoBite \in [left : Nat, tile : Tiles \union {0}]
            /\ ~(Mouths!NoBite.left > 0)
        BY DEF Mouths!NoBite
      <4> QED BY <2>2, <3>3, <4>1 DEF Biting
    <3>6. \A k \in Mounts : Biting(bite, k) =>
            Biting(m_bite, k) /\ bite[k] = m_bite[k] /\ bite[k].tile # t
      <4>1. \A k \in Mounts : Biting(bite, k) => Biting(m_bite, k)
        BY <3>5 DEF Biting
      <4> QED BY <3>1, <3>2, <3>5, <4>1 DEF BerryInv, BitesApart
    <3>7. /\ m_berry' = [m_berry EXCEPT ![t] = FALSE]
          /\ m_gone' = [m_gone EXCEPT ![t] = @ + 1]
      BY <1>4, <2>3, <3>1 DEF Mouths!Gulps
    <3>8. BerryInv'
      BY <1>2, <2>2, <3>2, <3>4, <3>5, <3>6, <3>7, BerryIsEaten
    <3> QED BY <2>1, <3>8
  <2>4. CASE m_bite[s].left # 1
    <3>1. m_bite[s].left \in Nat /\ m_bite[s].left > 1 /\ m_bite[s].tile \in Tiles \union {0}
      BY <1>4, <2>2, <2>4 DEF Mouths!Gulps
    <3> DEFINE less == [left |-> m_bite[s].left - 1, tile |-> m_bite[s].tile]
    <3>2. /\ m_bite' = [m_bite EXCEPT ![s] = less]
          /\ m_berry' = m_berry /\ m_gone' = m_gone
      BY <1>4, <2>4 DEF Mouths!Gulps
    <3>3. /\ m_bite' \in [Mounts -> [left : Nat, tile : Tiles \union {0}]]
          /\ \A k \in Mounts : m_bite'[k].tile = m_bite[k].tile
          /\ \A k \in Mounts : k # s => m_bite'[k] = m_bite[k]
      <4>1. /\ less \in [left : Nat, tile : Tiles \union {0}]
            /\ less.tile = m_bite[s].tile
        BY <2>2, <3>1
      <4> HIDE DEF less
      <4> QED BY <2>2, <3>2, <4>1
    <3>4. Biting(m_bite, s) /\ \A k \in Mounts : Biting(m_bite', k) => Biting(m_bite, k)
      BY <3>1, <3>3 DEF Biting
    <3>5. BerryTypes' /\ BerriesCounted'
      BY <1>2, <3>2, <3>3 DEF BerryInv, BerryTypes, BerriesCounted
    <3>6. BitesApart'
      BY <2>2, <3>2, <3>3, <3>4 DEF BerryInv, BitesApart
    <3> QED BY <2>1, <3>5, <3>6 DEF BerryInv
  <2> QED BY <2>3, <2>4
<1>5. CASE Mouths!Swallows(s)
  <2>1. /\ FoodInv'
        /\ \A k \in Mounts : m_sprite'[k].kind = "yoshi" <=> m_sprite[k].kind = "yoshi"
    BY <1>1, <1>5, SwallowsFood
  <2>2. m_bite' = m_bite /\ m_berry' = m_berry /\ m_gone' = m_gone
    BY <1>5 DEF Mouths!Swallows
  <2>3. BerryInv'
    BY <1>2, <2>1, <2>2, BerriesStay
  <2> QED BY <2>1, <2>3
<1>6. CASE Mouths!Licks(s)
  <2>1. /\ m_sprite' = m_sprite /\ m_mouth' = m_mouth
        /\ m_bite' = m_bite /\ m_berry' = m_berry /\ m_gone' = m_gone
    BY <1>6 DEF Mouths!Licks
  <2>2. m_licks' \subseteq Lick
    <3>1. PICK os \in SUBSET (1 .. MountSlots), a \in Mouths!NearestPlayer(s),
               d \in Mouths!Distances :
            m_licks' = m_licks \union {[mount |-> s, object |-> o, actor |-> a,
                                         distance |-> d] : o \in os}
      BY <1>6 DEF Mouths!Licks
    <3>2. a \in Nat /\ d \in Nat
      BY MouthSizes DEF Mouths!NearestPlayer, Mouths!Distances, FoodInv, MouthTypes, Thing
    <3>3. \A o \in os : [mount |-> s, object |-> o, actor |-> a, distance |-> d] \in Lick
      BY <3>2 DEF Lick, Mounts
    <3> QED BY <1>3, <3>1, <3>3
  <2>3. FoodInv'
    BY <1>1, <2>1, <2>2, FoodStays
  <2>4. BerryInv'
    BY <1>2, <2>1, BerriesStay
  <2> QED BY <2>3, <2>4
<1>7. CASE Mouths!Idles
  <2>1. /\ m_sprite' = m_sprite /\ m_mouth' = m_mouth /\ m_licks' = m_licks
        /\ m_bite' = m_bite /\ m_berry' = m_berry /\ m_gone' = m_gone
    BY <1>7 DEF Mouths!Idles
  <2> QED BY <1>1, <1>2, <1>3, <2>1, FoodStays, BerriesStay
<1>8. CASE /\ m_mouth[s] = 0 /\ m_bite[s].left = 0 /\ Mouths!LicksBerry(s)
           /\ UNCHANGED <<m_sprite, m_mouth, m_bite, m_licks>>
  <2>1. FoodInv'
    BY <1>1, <1>3, <1>8, FoodStays
  <2>2. PICK t \in Tiles :
          /\ m_berry[t] /\ ~Mouths!berry_reserved(s, t)
          /\ m_berry' = [m_berry EXCEPT ![t] = FALSE]
          /\ m_gone' = [m_gone EXCEPT ![t] = @ + 1]
    BY <1>8 DEF Mouths!LicksBerry
  <2>3. \A k \in Mounts : Biting(m_bite, k) => m_bite[k].tile # t
    <3> SUFFICES ASSUME NEW k \in Mounts, Biting(m_bite, k), m_bite[k].tile = t PROVE FALSE
      OBVIOUS
    <3>1. m_sprite[k].kind = "yoshi" /\ m_sprite[k].eaten = "no"
      BY DEF BerryInv, BitesApart, FoodInv, SpritesSound
    <3>2. Mouths!coop_mount_pending_berry(k, t)
      BY <3>1 DEF Mouths!coop_mount_pending_berry, Mouths!Mount, Mouths!Live, Biting
    <3>3. k # s
      BY <1>8 DEF Biting
    <3> QED BY <2>2, <3>2, <3>3 DEF Mouths!berry_reserved, Mounts
  <2>4. m_bite \in [Mounts -> [left : Nat, tile : Tiles \union {0}]]
    BY DEF BerryInv, BerryTypes
  <2>5. BerryInv'
    BY <1>2, <1>8, <2>2, <2>3, <2>4, BerryIsEaten
  <2> QED BY <2>1, <2>5
<1> QED BY <1>4, <1>5, <1>6, <1>7, <1>8, MouthSizes DEF Mouths!Draw

-----------------------------------------------------------------------------
LEMMA InitMouths == Mouths!Init => FoodInv /\ BerryInv
<1> SUFFICES ASSUME Mouths!Init PROVE FoodInv /\ BerryInv
  OBVIOUS
<1>1. PICK third \in {"egg", "food"} :
        m_sprite = [s \in Mounts |->
          [Mouths!Vacant EXCEPT !.kind = IF s <= 2 THEN "yoshi"
                                         ELSE IF s = 3 THEN third ELSE "food"]]
  BY DEF Mouths!Init, Mounts
<1>2. ASSUME NEW s \in Mounts
      PROVE  /\ m_sprite[s] \in Thing /\ m_sprite[s].kind \in {"yoshi", "egg", "food"}
             /\ m_sprite[s].eaten = "no" /\ m_sprite[s].owner = 0 /\ m_sprite[s].bond = "free"
  <2>1. PICK kind \in {"yoshi", "egg", "food"} : m_sprite[s] = [Mouths!Vacant EXCEPT !.kind = kind]
    BY <1>1
  <2> QED BY <2>1, MouthSizes DEF Thing, Mouths!Vacant
<1>3. /\ m_mouth = [s \in Mounts |-> 0] /\ m_meal = [s \in Mounts |-> FALSE]
      /\ m_bite = [s \in Mounts |-> Mouths!NoBite]
      /\ m_berry = [t \in Tiles |-> TRUE] /\ m_gone = [t \in Tiles |-> 0]
      /\ m_bites = <<>> /\ m_licks = {}
  BY MouthSizes DEF Mouths!Init, Mounts
<1>4. MouthTypes /\ SpritesSound
  <2>1. m_sprite \in [Mounts -> Thing]
    BY <1>1, <1>2
  <2> QED BY <1>2, <1>3, <2>1, MouthSizes DEF MouthTypes, SpritesSound
<1>5. FoodIsOwn /\ Mouths!CatchIsKept
  BY <1>2, <1>3, WhoIsActive, CatchKept DEF FoodIsOwn
<1>6. BerryTypes /\ BitesApart /\ BerriesCounted
  BY <1>3 DEF BerryTypes, BitesApart, BerriesCounted, Biting, Mouths!NoBite
<1> QED BY <1>4, <1>5, <1>6 DEF FoodInv, BerryInv

LEMMA MouthStep ==
  ASSUME FoodInv, BerryInv, Mouths!Next
  PROVE  FoodInv' /\ BerryInv'
<1>1. Mouths!World => /\ m_berry' = m_berry /\ m_gone' = m_gone /\ m_bites' = m_bites
                      /\ m_bites' \in Seq(Touch)
  BY DEF Mouths!World, BerryInv, BerryTypes
<1>2. ASSUME NEW s \in Mounts, Mouths!BabyEats(s) PROVE FoodInv' /\ BerryInv'
  <2>1. m_bite' = [m_bite EXCEPT ![s] = Mouths!NoBite] /\ Mouths!World
    BY <1>2 DEF Mouths!BabyEats
  <2> QED BY <1>1, <1>2, <2>1, BabyEatsFood, BiteIsDropped
<1>3. ASSUME NEW s \in Mounts, NEW o \in Mounts, Mouths!BabyReaches(s, o)
      PROVE  FoodInv' /\ BerryInv'
  <2>1. m_bite' = m_bite /\ Mouths!World
    BY <1>3 DEF Mouths!BabyReaches
  <2> QED BY <1>1, <1>3, <2>1, BabyReachesFood, BerriesStay
<1>4. ASSUME NEW s \in Mounts, Mouths!Hatches(s) PROVE FoodInv' /\ BerryInv'
  <2>1. m_bite' = m_bite /\ Mouths!World
    BY <1>4 DEF Mouths!Hatches
  <2> QED BY <1>1, <1>4, <2>1, HatchesFood, BerriesStay
<1>5. ASSUME NEW s \in Mounts, NEW kind \in {"egg", "food"}, Mouths!Appears(s, kind)
      PROVE  FoodInv' /\ BerryInv'
  <2>1. m_bite' = [m_bite EXCEPT ![s] = Mouths!NoBite] /\ Mouths!World
    BY <1>5 DEF Mouths!Appears
  <2> QED BY <1>1, <1>5, <2>1, AppearsFood, BiteIsDropped
<1>6. ASSUME NEW p \in 1 .. Riders, NEW s \in Mounts, Mouths!Rides(p, s)
      PROVE  FoodInv' /\ BerryInv'
  <2>1. m_bite' = m_bite /\ Mouths!World
    BY <1>6 DEF Mouths!Rides
  <2> QED BY <1>1, <1>6, <2>1, RidesFood, BerriesStay
<1>7. ASSUME NEW p \in 1 .. Riders, NEW s \in Mounts, Mouths!PicksUp(p, s)
      PROVE  FoodInv' /\ BerryInv'
  <2>1. m_bite' = m_bite /\ Mouths!World
    BY <1>7 DEF Mouths!PicksUp
  <2> QED BY <1>1, <1>7, <2>1, PicksUpFood, BerriesStay
<1>8. ASSUME NEW s \in Mounts, Mouths!LetsGo(s) PROVE FoodInv' /\ BerryInv'
  <2>1. m_bite' = m_bite /\ Mouths!World
    BY <1>8 DEF Mouths!LetsGo
  <2> QED BY <1>1, <1>8, <2>1, LetsGoFood, BerriesStay
<1>9. ASSUME Mouths!DrawStarts \/ \E s \in Mounts : Mouths!DrawSkips(s)
      PROVE  FoodInv' /\ BerryInv'
  <2>1. /\ m_sprite' = m_sprite /\ m_mouth' = m_mouth /\ m_meal' = m_meal
        /\ m_bite' = m_bite /\ m_berry' = m_berry /\ m_gone' = m_gone
        /\ m_licks' = {} \/ m_licks' = m_licks
        /\ m_bites' = <<>> \/ m_bites' = m_bites
    BY <1>9 DEF Mouths!DrawStarts, Mouths!DrawSkips
  <2>2. m_licks' \subseteq Lick
    BY <2>1 DEF FoodInv, MouthTypes
  <2>3. m_bites' \in Seq(Touch)
    <3>1. <<>> \in Seq(Touch)
      OBVIOUS
    <3>2. m_bites \in Seq(Touch)
      BY DEF BerryInv, BerryTypes
    <3>3. PICK none : none = <<>>
      OBVIOUS
    <3>4. m_bites' = none \/ m_bites' = m_bites
      BY <2>1, <3>3
    <3> QED BY ONLY <3>1, <3>2, <3>3, <3>4
  <2>4. FoodInv'
    BY <2>1, <2>2, FoodStays
  <2>5. BerryInv'
    BY <2>1, <2>3, BerriesStay
  <2> QED BY <2>4, <2>5
<1>10. CASE Mouths!Claims
  BY <1>10, ClaimsFood, ClaimsBerries
<1>11. ASSUME NEW s \in Mounts, Mouths!Draw(s) PROVE FoodInv' /\ BerryInv'
  BY <1>11, DrawMouths
<1> QED BY <1>2, <1>3, <1>4, <1>5, <1>6, <1>7, <1>8, <1>9, <1>10, <1>11
        DEF Mouths!Next, Mounts

LEMMA MouthStutter ==
  ASSUME FoodInv, BerryInv, UNCHANGED mouthsVars
  PROVE  FoodInv' /\ BerryInv'
<1>1. /\ m_sprite' = m_sprite /\ m_mouth' = m_mouth /\ m_meal' = m_meal
      /\ m_bite' = m_bite /\ m_berry' = m_berry /\ m_gone' = m_gone
      /\ m_licks' = m_licks /\ m_bites' = m_bites
  BY DEF mouthsVars
<1>2. m_licks' \subseteq Lick /\ m_bites' \in Seq(Touch)
  BY <1>1 DEF FoodInv, MouthTypes, BerryInv, BerryTypes
<1> QED BY <1>1, <1>2, FoodStays, BerriesStay

LEMMA MouthsAreKept == FoodInv /\ BerryInv => Mouths!MouthsKept
<1> SUFFICES ASSUME FoodInv, BerryInv PROVE Mouths!MouthsKept
  OBVIOUS
<1>1. Mouths!BerryEatenOnce
  BY DEF BerryInv, BerriesCounted, Mouths!BerryEatenOnce
<1>2. Mouths!MouthsValid
  <2>1. \A s, r \in Mounts, t \in Tiles :
          Mouths!coop_mount_pending_berry(s, t) /\ Mouths!coop_mount_pending_berry(r, t) => s = r
    BY DEF BerryInv, BitesApart, Biting, Mouths!coop_mount_pending_berry
  <2>2. ASSUME NEW s \in Mounts, Active(s), m_mouth[s] # 0
        PROVE  /\ m_mouth[s] # s
               /\ \A r \in Mounts \ {s} : ~Mouths!Holds(r, m_mouth[s])
               /\ m_sprite[m_mouth[s]].kind = "food" /\ m_sprite[m_mouth[s]].bond # "held"
    <3>1. m_sprite[s].kind # "food"
      BY <2>2, WhoIsActive
    <3> QED BY <2>2, <3>1 DEF FoodInv, FoodIsOwn, Mouths!Holds, Active
  <2>3. ASSUME NEW s \in Mounts, Active(s), m_mouth[s] = 0
        PROVE  m_sprite[s].kind # "baby"
    BY <2>3 DEF FoodInv, FoodIsOwn
  <2> QED BY <2>1, <2>2, <2>3, MouthSizes DEF Mouths!MouthsValid, Active, Mounts
<1> QED BY <1>1, <1>2 DEF Mouths!MouthsKept, FoodInv

-----------------------------------------------------------------------------
(* No food is in two mouths, somebody else's or forgotten, no berry is     *)
(* bitten by two mounts, and none is eaten twice, for any players, slots,  *)
(* berries and contacts (coop_simulation.c:690-924,                        *)
(* coop_machine.c:584-624).                                                *)
THEOREM MouthsAreAlwaysKept == BenchSpec => []MouthsKept
<1> DEFINE Inv == part = "mouths" => FoodInv /\ BerryInv
<1>1. BenchInit => Inv
  BY InitMouths DEF BenchInit
<1>2. Inv /\ [BenchNext]_benchVars => Inv'
  <2> SUFFICES ASSUME Inv, part' = "mouths", [BenchNext]_benchVars
               PROVE  FoodInv' /\ BerryInv'
    OBVIOUS
  <2>1. part = "mouths" /\ FoodInv /\ BerryInv
    BY DEF BenchNext, benchVars
  <2>2. Mouths!Next \/ UNCHANGED mouthsVars
    BY <2>1 DEF BenchNext, benchVars
  <2> QED BY <2>1, <2>2, MouthStep, MouthStutter
<1>3. Inv => MouthsKept
  BY MouthsAreKept DEF MouthsKept
<1> QED BY <1>1, <1>2, <1>3, PTL DEF BenchSpec
=============================================================================
