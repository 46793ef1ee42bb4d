----------------------------- MODULE HostProofs -----------------------------
(* The safety of the places where the host waits.  CoopStorage, for any set *)
(* of namespaces and any bounds, with its refinement of SaveStore; then    *)
(* HostLoop, which waits for its peer, and HostAudio, which waits for the  *)
(* sound device, for any timeouts, any share of turbo frames, any depth of *)
(* the lock and any high-water mark.                                       *)
EXTENDS HostWaits, TLAPS

USE StorageAssumption

-----------------------------------------------------------------------------
(* Facts about the list and the two ways it changes.                       *)

LEMMA ListTypes ==
  ASSUME TypeOK
  PROVE  /\ Len(images) \in Nat /\ DOMAIN images = 1..Len(images)
         /\ \A i \in DOMAIN images : /\ images[i] \in Image
                                     /\ images[i].path \in Namespace
                                     /\ images[i].bytes \in Nat
                                     /\ images[i].success \in BOOLEAN
<1>1. images \in Seq(Image)
  BY DEF TypeOK
<1>2. /\ Len(images) \in Nat /\ DOMAIN images = 1..Len(images)
      /\ \A i \in DOMAIN images : images[i] \in Image
  BY <1>1
<1> QED
  BY <1>2 DEF Image

LEMMA EmptyList == <<>> \in Seq(Image) /\ Len(<<>>) = 0 /\ DOMAIN <<>> = {}
OBVIOUS

(* Queueing appends one image of the active namespace and moves nothing.   *)
LEMMA QueueFacts ==
  ASSUME TypeOK, QueueStorage, selected \in Namespace
  PROVE  /\ images' \in Seq(Image)
         /\ Len(images') = Len(images) + 1
         /\ DOMAIN images' = DOMAIN images \cup {Len(images) + 1}
         /\ \A i \in DOMAIN images : images'[i] = images[i]
         /\ images'[Len(images) + 1] =
              [path |-> selected, bytes |-> sram, success |-> FALSE]
         /\ pending' \in 0..Len(images')
         /\ worker' \in {"ready", "writing", "done"}
         /\ stopping' \in BOOLEAN
<1> DEFINE new == [path |-> selected, bytes |-> sram, success |-> FALSE]
<1>1. new \in Image
  BY DEF TypeOK, Image
<1>2. images' = Append(images, new)
  BY DEF QueueStorage
<1>3. images \in Seq(Image) /\ Len(images) \in Nat
  BY DEF TypeOK
<1> HIDE DEF new
<1>4. /\ images' \in Seq(Image)
      /\ Len(images') = Len(images) + 1
      /\ DOMAIN images' = DOMAIN images \cup {Len(images) + 1}
      /\ \A i \in DOMAIN images : images'[i] = images[i]
      /\ images'[Len(images) + 1] = new
  BY <1>1, <1>2, <1>3
<1>5. pending' \in 0..Len(images')
  BY <1>3, <1>4 DEF QueueStorage, TypeOK
<1>6. worker' \in {"ready", "writing", "done"} /\ stopping' \in BOOLEAN
  BY DEF QueueStorage, TypeOK, Signalled
<1> QED
  BY <1>4, <1>5, <1>6 DEF new

(* Writing an image changes its success flag and possibly its file.        *)
LEMMA WriteFacts ==
  ASSUME TypeOK, NEW k \in DOMAIN images, NEW ok \in BOOLEAN, WriteImage(k, ok)
  PROVE  /\ images' \in Seq(Image)
         /\ Len(images') = Len(images)
         /\ DOMAIN images' = DOMAIN images
         /\ \A i \in DOMAIN images : /\ images'[i].path = images[i].path
                                     /\ images'[i].bytes = images[i].bytes
         /\ \A i \in DOMAIN images : i # k => images'[i] = images[i]
         /\ images'[k].success = ok
         /\ files' \in [Namespace -> Nat]
         /\ ok => files'[images[k].path] = images[k].bytes
         /\ \A n \in Namespace : n # images[k].path \/ ~ok => files'[n] = files[n]
<1>1. images \in Seq(Image) /\ images[k] \in Image /\ files \in [Namespace -> Nat]
  BY DEF TypeOK
<1>2. images[k].path \in Namespace /\ images[k].bytes \in Nat
  BY <1>1 DEF Image
<1>3. images' = [images EXCEPT ![k].success = ok]
  BY DEF WriteImage
<1>4. [images[k] EXCEPT !.success = ok] \in Image
  BY <1>1 DEF Image
<1>5. /\ images' \in Seq(Image)
      /\ Len(images') = Len(images)
      /\ DOMAIN images' = DOMAIN images
  BY <1>1, <1>3, <1>4
<1>6. /\ \A i \in DOMAIN images : i # k => images'[i] = images[i]
      /\ images'[k] = [images[k] EXCEPT !.success = ok]
  BY <1>1, <1>3
<1>7. /\ images'[k].success = ok
      /\ images'[k].path = images[k].path
      /\ images'[k].bytes = images[k].bytes
  BY <1>1, <1>6 DEF Image
<1>8. /\ files' \in [Namespace -> Nat]
      /\ ok => files'[images[k].path] = images[k].bytes
      /\ \A n \in Namespace : n # images[k].path \/ ~ok => files'[n] = files[n]
  BY <1>1, <1>2 DEF WriteImage
<1> QED
  BY <1>5, <1>6, <1>7, <1>8

(* Only images of the active namespace become superseded by queueing.      *)
LEMMA QueueSuperseded ==
  ASSUME TypeOK, QueueStorage, selected \in Namespace
  PROVE  /\ \A i \in DOMAIN images :
              Superseded(i)' <=> Superseded(i) \/ images[i].path = selected
         /\ \A i \in Nat, n \in Namespace :
              i = Len(images) + 1 /\ n = selected => ~Superseded(i)' /\ IsLatest(i, n)'
         /\ \A i \in DOMAIN images, n \in Namespace :
              n # selected /\ IsLatest(i, n) => IsLatest(i, n)'
<1>0. images \in Seq(Image) /\ Len(images) \in Nat /\ DOMAIN images = 1..Len(images)
  BY DEF TypeOK
<1>q. /\ Len(images') = Len(images) + 1
      /\ DOMAIN images' = DOMAIN images \cup {Len(images) + 1}
      /\ \A j \in DOMAIN images : images'[j] = images[j]
      /\ images'[Len(images) + 1].path = selected
  BY QueueFacts
<1>1. ASSUME NEW i \in DOMAIN images
      PROVE  Superseded(i)' <=> Superseded(i) \/ images[i].path = selected
  <2>2. Superseded(i)' <=>
          \E j \in (i + 1)..(Len(images) + 1) : images'[j].path = images[i].path
    BY <1>q DEF Superseded
  <2> QED
    BY <1>0, <1>q, <2>2 DEF Superseded
<1>2. ASSUME NEW i \in Nat, i = Len(images) + 1
      PROVE  ~Superseded(i)'
  BY <1>0, <1>q, <1>2 DEF Superseded
<1>3. ASSUME NEW i \in Nat, NEW n \in Namespace, i = Len(images) + 1, n = selected
      PROVE  IsLatest(i, n)'
  BY <1>0, <1>q, <1>2, <1>3 DEF IsLatest
<1>4. ASSUME NEW i \in DOMAIN images, NEW n \in Namespace, n # selected, IsLatest(i, n)
      PROVE  IsLatest(i, n)'
  BY <1>0, <1>q, <1>1, <1>4 DEF IsLatest
<1> QED
  BY <1>1, <1>2, <1>3, <1>4

(* Writing supersedes nothing.                                             *)
LEMMA WriteSuperseded ==
  ASSUME TypeOK, NEW k \in DOMAIN images, NEW ok \in BOOLEAN, WriteImage(k, ok)
  PROVE  /\ \A i \in DOMAIN images : Superseded(i)' <=> Superseded(i)
         /\ \A i \in DOMAIN images, n \in Namespace : IsLatest(i, n)' <=> IsLatest(i, n)
<1>0. images \in Seq(Image) /\ Len(images) \in Nat /\ DOMAIN images = 1..Len(images)
  BY DEF TypeOK
<1>1. ASSUME NEW i \in DOMAIN images
      PROVE  Superseded(i)' <=> Superseded(i)
  <2>1. /\ Len(images') = Len(images)
        /\ \A j \in DOMAIN images : images'[j].path = images[j].path
    BY WriteFacts
  <2> QED
    BY <1>0, <2>1 DEF Superseded
<1>2. ASSUME NEW i \in DOMAIN images, NEW n \in Namespace
      PROVE  IsLatest(i, n)' <=> IsLatest(i, n)
  BY <1>0, <1>1, WriteFacts DEF IsLatest
<1> QED
  BY <1>1, <1>2

(* The newest image of a path is unique, so that is what is read back.     *)
LEMMA ReadBackLatest ==
  ASSUME TypeOK, NEW n \in Namespace, NEW i \in DOMAIN images, IsLatest(i, n)
  PROVE  ReadBack(n) = images[i].bytes
<1>0. DOMAIN images = 1..Len(images) /\ Len(images) \in Nat
  BY DEF TypeOK
<1>1. \A j \in DOMAIN images : IsLatest(j, n) => j = i
  BY <1>0 DEF IsLatest, Superseded
<1>2. (CHOOSE j \in DOMAIN images : IsLatest(j, n)) = i
  BY <1>1
<1>3. \E j \in DOMAIN images : images[j].path = n
  BY DEF IsLatest
<1> QED
  BY <1>2, <1>3 DEF ReadBack

(* What is read back is at least as new as everything known of the path.   *)
LEMMA ReadBackIsNewest ==
  ASSUME StorageInv, NEW n \in Namespace
  PROVE  /\ ReadBack(n) \in Nat
         /\ files[n] <= ReadBack(n)
         /\ ReadBack(n) <= stamp
         /\ \A i \in DOMAIN images : images[i].path = n => images[i].bytes <= ReadBack(n)
<1> USE DEF StorageInv
<1>0. /\ DOMAIN images = 1..Len(images) /\ Len(images) \in Nat
      /\ \A i \in DOMAIN images : images[i] \in Image
      /\ files[n] \in Nat /\ stamp \in Nat
  BY DEF TypeOK
<1>1. CASE \E i \in DOMAIN images : images[i].path = n
  <2>1. PICK i \in DOMAIN images : images[i].path = n
    BY <1>1
  <2>2. PICK k \in DOMAIN images : IsLatest(k, n)
    BY <2>1 DEF Ordered
  <2>3. ReadBack(n) = images[k].bytes
    BY <2>2, ReadBackLatest
  <2>4. images[k].bytes \in Nat /\ images[k].bytes <= stamp /\ files[n] <= images[k].bytes
    BY <1>0, <2>2 DEF Stamped, FilesBetween, IsLatest, Image
  <2>5. ASSUME NEW j \in DOMAIN images, images[j].path = n
        PROVE  images[j].bytes <= images[k].bytes
    <3>1. j <= k
      BY <1>0, <2>2, <2>5 DEF IsLatest, Superseded
    <3>2. images[j].bytes \in Nat
      BY <1>0 DEF Image
    <3>3. CASE j < k
      BY <2>2, <2>5, <3>3 DEF Ordered, IsLatest
    <3>4. CASE j = k
      BY <2>4, <3>4
    <3> QED
      BY <1>0, <3>1, <3>3, <3>4
  <2> QED
    BY <2>3, <2>4, <2>5
<1>2. CASE ~\E i \in DOMAIN images : images[i].path = n
  BY <1>0, <1>2 DEF ReadBack, Stamped
<1> QED
  BY <1>1, <1>2

-----------------------------------------------------------------------------
(* The invariant is inductive.                                             *)

LEMMA InitInv == Init => StorageInv
<1> SUFFICES ASSUME Init PROVE StorageInv
  OBVIOUS
<1> USE DEF Init
<1>1. TypeOK
  <2>1. images \in Seq(Image) /\ Len(images) = 0
    BY EmptyList
  <2>2. /\ files \in [Namespace -> Nat] /\ stopping \in BOOLEAN
        /\ capture \in BOOLEAN /\ allSaved \in BOOLEAN
    OBVIOUS
  <2> QED
    BY <2>1, <2>2 DEF TypeOK, MainAt, Closed
<1>2. Stamped /\ Ordered /\ LiveIsNewest /\ FilesBetween
  BY EmptyList DEF Stamped, Ordered, LiveIsNewest, FilesBetween
<1>3. WorkerPlace /\ ShutdownPlace
  BY DEF WorkerPlace, ShutdownPlace, Closed
<1> QED
  BY <1>1, <1>2, <1>3 DEF StorageInv

(* Steps that leave saves, list and files alone keep the facts about them. *)
LEMMA DataUnchanged ==
  ASSUME StorageInv, UNCHANGED <<files, selected, sram, images, stamp>>
  PROVE  /\ Stamped' /\ Ordered' /\ LiveIsNewest'
         /\ \A i \in DOMAIN images : Superseded(i)' <=> Superseded(i)
         /\ \A i \in DOMAIN images, n \in Namespace : IsLatest(i, n)' <=> IsLatest(i, n)
<1>1. Stamped' /\ LiveIsNewest'
  BY DEF StorageInv, Stamped, LiveIsNewest
<1>2. Ordered'
  BY DEF StorageInv, Ordered, IsLatest, Superseded
<1> QED
  BY <1>1, <1>2 DEF IsLatest, Superseded

(* The end of a process leaves only files behind.                          *)
LEMMA ProcessGoneInv ==
  ASSUME StorageInv, NEW how \in Closed, ProcessGone(how)
  PROVE  StorageInv'
<1>1. TypeOK'
  <2>1. images' \in Seq(Image) /\ Len(images') = 0
    BY EmptyList DEF ProcessGone
  <2>2. /\ files' \in [Namespace -> Nat] /\ stamp' \in Nat
        /\ lastMode' \in Namespace \cup {NoNamespace}
    BY DEF StorageInv, TypeOK, ProcessGone, durable
  <2>3. /\ main' \in MainAt /\ selected' = NoNamespace /\ sram' = 0
        /\ pending' = 0 /\ worker' = "absent" /\ current' = 0 /\ cursor' = 1
    BY DEF ProcessGone, MainAt
  <2>4. stopping' \in BOOLEAN /\ capture' \in BOOLEAN /\ allSaved' \in BOOLEAN
    BY DEF ProcessGone
  <2> QED
    BY <2>1, <2>2, <2>3, <2>4 DEF TypeOK
<1>2. Stamped' /\ Ordered' /\ LiveIsNewest' /\ FilesBetween'
  BY DEF StorageInv, TypeOK, ProcessGone, durable, Stamped, Ordered, LiveIsNewest,
         FilesBetween
<1>3. WorkerPlace' /\ ShutdownPlace'
  BY DEF StorageInv, ProcessGone, durable, Closed, WorkerPlace, ShutdownPlace
<1> QED
  BY <1>1, <1>2, <1>3 DEF StorageInv

LEMMA PrepareStorageInv == StorageInv /\ PrepareStorage => StorageInv'
<1> SUFFICES ASSUME StorageInv, PrepareStorage
             PROVE  StorageInv'
  OBVIOUS
<1> USE DEF StorageInv, PrepareStorage, durable, queue, thread, finish
<1>0. images = <<>> /\ worker = "absent" /\ main \in Closed /\ pending = 0
  BY DEF ShutdownPlace, WorkerPlace
<1>1. TypeOK'
  BY DEF TypeOK, MainAt, Closed
<1>2. Stamped' /\ Ordered' /\ FilesBetween'
  BY <1>0 DEF TypeOK, Stamped, Ordered, FilesBetween
<1>3. LiveIsNewest'
  BY <1>0 DEF TypeOK, LiveIsNewest, ShutdownPlace
<1>4. WorkerPlace' /\ ShutdownPlace'
  BY <1>0 DEF WorkerPlace, ShutdownPlace, Closed
<1> QED
  BY <1>1, <1>2, <1>3, <1>4

LEMMA GuestWriteInv == StorageInv /\ GuestWrite => StorageInv'
<1> SUFFICES ASSUME StorageInv, GuestWrite
             PROVE  StorageInv'
  OBVIOUS
<1> USE DEF StorageInv, GuestWrite, durable, queue, thread, finish
<1>0. /\ stamp \in Nat /\ files \in [Namespace -> Nat] /\ sram \in Nat
      /\ \A i \in DOMAIN images : images[i].bytes \in Nat
  BY ListTypes DEF TypeOK
<1>1. TypeOK'
  BY DEF TypeOK
<1>2. Stamped' /\ LiveIsNewest'
  BY <1>0 DEF Stamped, LiveIsNewest
<1>3. Ordered' /\ FilesBetween'
  BY DEF Ordered, FilesBetween, Unwritten, IsLatest, Superseded
<1>4. WorkerPlace' /\ ShutdownPlace'
  BY DEF WorkerPlace, ShutdownPlace, Closed
<1> QED
  BY <1>1, <1>2, <1>3, <1>4

(* Queueing the live bytes keeps the facts about list, files and worker.   *)
LEMMA QueueInv ==
  ASSUME StorageInv, QueueStorage, selected \in Namespace, UNCHANGED <<files, stamp>>,
         main \in {"running", "capture"}
  PROVE  /\ \A i \in DOMAIN images' : images'[i].bytes <= stamp'
         /\ Ordered'
         /\ FilesBetween'
         /\ \A i \in DOMAIN images' :
              images'[i].path = selected => images'[i].bytes <= sram
         /\ worker' \in {"ready", "writing"} /\ ~stopping'
         /\ worker' = "writing" => current' # 0 /\ (pending' # 0 => current' < pending')
<1> DEFINE L == Len(images) + 1
<1>0. /\ Len(images) \in Nat /\ DOMAIN images = 1..Len(images)
      /\ \A i \in DOMAIN images : images[i] \in Image
      /\ sram \in Nat /\ stamp \in Nat /\ files \in [Namespace -> Nat]
      /\ pending \in 0..Len(images) /\ current \in 0..Len(images)
  BY DEF StorageInv, TypeOK
<1>1. /\ DOMAIN images' = DOMAIN images \cup {L}
      /\ \A i \in DOMAIN images : images'[i] = images[i]
      /\ images'[L].path = selected /\ images'[L].bytes = sram
      /\ ~images'[L].success
  BY QueueFacts DEF StorageInv
<1>2. /\ \A i \in DOMAIN images :
           Superseded(i)' <=> Superseded(i) \/ images[i].path = selected
      /\ \A i \in Nat, n \in Namespace : i = L /\ n = selected =>
           ~Superseded(i)' /\ IsLatest(i, n)'
      /\ \A i \in DOMAIN images, n \in Namespace :
           n # selected /\ IsLatest(i, n) => IsLatest(i, n)'
  BY QueueSuperseded DEF StorageInv
<1>3. \A i \in DOMAIN images' : images'[i].bytes <= stamp'
  BY <1>0, <1>1 DEF StorageInv, Stamped
<1>4. \A i \in DOMAIN images' : images'[i].path = selected => images'[i].bytes <= sram
  BY <1>0, <1>1 DEF StorageInv, LiveIsNewest
<1>5. Ordered'
  <2>1. ASSUME NEW i \in DOMAIN images', NEW j \in DOMAIN images',
               i < j, images'[i].path = images'[j].path
        PROVE  images'[i].bytes <= images'[j].bytes
    <3>1. CASE j \in DOMAIN images
      <4>1. i \in DOMAIN images
        BY <1>0, <1>1, <2>1, <3>1
      <4> QED
        BY <1>1, <2>1, <3>1, <4>1 DEF StorageInv, Ordered
    <3>2. CASE j = L
      BY <1>1, <1>4, <2>1, <3>2
    <3> QED
      BY <1>1, <3>1, <3>2
  <2>2. ASSUME NEW i \in DOMAIN images'
        PROVE  \E j \in DOMAIN images' : i <= j /\ IsLatest(j, images[i].path)'
    <3>1. CASE images'[i].path = selected
      <4>1. PICK k \in Nat : k = L
        BY <1>0
      <4>2. ~Superseded(k)'
        BY <1>2, <4>1
      <4> QED
        BY <1>0, <1>1, <3>1, <4>1, <4>2 DEF IsLatest
    <3>2. CASE images'[i].path # selected
      <4>1. i \in DOMAIN images /\ images'[i] = images[i]
        BY <1>1, <3>2
      <4>2. PICK j \in DOMAIN images : i <= j /\ IsLatest(j, images[i].path)
        BY <4>1 DEF StorageInv, Ordered
      <4>3. images[i].path \in Namespace
        BY <1>0, <4>1 DEF Image
      <4>4. ~Superseded(j)' /\ images'[j].path = images'[i].path
        BY <1>1, <1>2, <3>2, <4>1, <4>2 DEF IsLatest
      <4> QED
        BY <1>1, <4>2, <4>4 DEF IsLatest
    <3> QED
      BY <3>1, <3>2
  <2> QED
    BY <2>1, <2>2 DEF Ordered
<1>6. FilesBetween'
  <2> SUFFICES ASSUME NEW i \in DOMAIN images'
               PROVE  /\ images'[i].success => images'[i].bytes <= files[images'[i].path]
                      /\ ~Superseded(i)' \/ Unwritten(i)' =>
                           files[images'[i].path] <= images'[i].bytes
    BY DEF FilesBetween
  <2>1. CASE i = L
    BY <1>0, <1>1, <2>1 DEF StorageInv, LiveIsNewest
  <2>2. CASE i \in DOMAIN images
    <3>1. Unwritten(i)' => Unwritten(i)
      BY <1>0, <2>2 DEF Unwritten, QueueStorage, Signalled
    <3> QED
      BY <1>1, <1>2, <2>2, <3>1 DEF StorageInv, FilesBetween
  <2> QED
    BY <1>1, <2>1, <2>2
<1>7. /\ worker' \in {"ready", "writing"} /\ ~stopping'
      /\ worker' = "writing" => current' # 0 /\ (pending' # 0 => current' < pending')
  BY <1>0 DEF StorageInv, TypeOK, WorkerPlace, QueueStorage, Signalled
<1> QED
  BY <1>3, <1>4, <1>5, <1>6, <1>7

(* The live bytes after switching to n are the newest of n.                *)
LEMMA ChooseInv ==
  ASSUME StorageInv, NEW n \in Namespace, Choose(n)
  PROVE  StorageInv'
<1> USE DEF StorageInv
<1>0. /\ main = "running" /\ main' = main
      /\ UNCHANGED <<files, stamp, capture, cursor, allSaved>>
      /\ lastMode' \in Namespace \cup {NoNamespace}
  BY DEF Choose, TypeOK, finish
<1>1. CASE n = selected
  <2>0. UNCHANGED <<selected, sram, images, pending, stopping, worker, current>>
    BY <1>1 DEF Choose, queue, thread
  <2>1. TypeOK'
    BY <1>0, <2>0 DEF TypeOK
  <2>2. Stamped' /\ Ordered' /\ LiveIsNewest' /\ FilesBetween'
    BY <1>0, <2>0, DataUnchanged DEF FilesBetween, Unwritten
  <2>3. WorkerPlace' /\ ShutdownPlace'
    BY <1>0, <2>0 DEF WorkerPlace, ShutdownPlace, Closed
  <2> QED
    BY <2>1, <2>2, <2>3
<1>2. CASE n # selected /\ selected = NoNamespace
  <2>0. /\ selected' = n /\ sram' = ReadBack(n)
        /\ UNCHANGED <<images, pending, stopping, worker, current>>
    BY <1>2 DEF Choose, queue, thread
  <2>r. /\ ReadBack(n) \in Nat /\ files[n] <= ReadBack(n) /\ ReadBack(n) <= stamp
        /\ \A i \in DOMAIN images : images[i].path = n => images[i].bytes <= ReadBack(n)
    BY ReadBackIsNewest
  <2>1. TypeOK'
    BY <1>0, <2>0, <2>r DEF TypeOK
  <2>2. Stamped' /\ LiveIsNewest'
    BY <1>0, <2>0, <2>r DEF Stamped, LiveIsNewest
  <2>3. Ordered' /\ FilesBetween'
    BY <1>0, <2>0 DEF Ordered, FilesBetween, Unwritten, IsLatest, Superseded
  <2>4. WorkerPlace' /\ ShutdownPlace'
    BY <1>0, <2>0 DEF WorkerPlace, ShutdownPlace, Closed
  <2> QED
    BY <2>1, <2>2, <2>3, <2>4
<1>3. CASE n # selected /\ selected # NoNamespace
  <2>0. /\ selected' = n /\ sram' = ReadBack(n) /\ QueueStorage
        /\ selected \in Namespace /\ current' = current
    BY <1>3 DEF Choose, TypeOK, QueueStorage
  <2>r. /\ ReadBack(n) \in Nat /\ files[n] <= ReadBack(n) /\ ReadBack(n) <= stamp
        /\ \A i \in DOMAIN images : images[i].path = n => images[i].bytes <= ReadBack(n)
    BY ReadBackIsNewest
  <2>q. /\ images' \in Seq(Image)
        /\ Len(images') = Len(images) + 1
        /\ DOMAIN images' = DOMAIN images \cup {Len(images) + 1}
        /\ \A i \in DOMAIN images : images'[i] = images[i]
        /\ images'[Len(images) + 1].path = selected
        /\ pending' \in 0..Len(images')
    BY <2>0, QueueFacts
  <2>i. /\ \A i \in DOMAIN images' : images'[i].bytes <= stamp'
        /\ Ordered'
        /\ FilesBetween'
        /\ worker' \in {"ready", "writing"} /\ ~stopping'
        /\ worker' = "writing" => current' # 0 /\ (pending' # 0 => current' < pending')
    BY <1>0, <2>0, QueueInv
  <2>1. TypeOK'
    <3>1. stopping' \in BOOLEAN
      BY <2>0, QueueFacts
    <3>2. cursor' \in 1..(Len(images') + 1) /\ current' \in 0..Len(images')
      BY <1>0, <2>0, <2>q, ListTypes DEF TypeOK
    <3> QED
      BY <1>0, <2>0, <2>r, <2>q, <2>i, <3>1, <3>2 DEF TypeOK
  <2>2. Stamped'
    BY <1>0, <2>0, <2>r, <2>i DEF Stamped
  <2>3. LiveIsNewest'
    BY <1>0, <1>3, <2>0, <2>r, <2>q DEF LiveIsNewest
  <2>4. WorkerPlace'
    BY <1>0, <2>i DEF WorkerPlace, Closed
  <2>5. ShutdownPlace'
    BY <1>0, <2>0 DEF ShutdownPlace, Closed
  <2> QED
    BY <2>1, <2>2, <2>3, <2>4, <2>5, <2>i
<1> QED
  BY <1>1, <1>2, <1>3

LEMMA ChooseRejectedInv ==
  ASSUME StorageInv, NEW n \in Namespace, ChooseRejected(n)
  PROVE  StorageInv'
<1> USE DEF StorageInv, ChooseRejected, QueueRejected, durable, queue, finish
<1>1. TypeOK'
  BY DEF TypeOK
<1>2. Stamped' /\ Ordered' /\ LiveIsNewest' /\ FilesBetween'
  BY DataUnchanged DEF FilesBetween, Unwritten
<1>3. WorkerPlace' /\ ShutdownPlace'
  <2>1. WorkerPlace'
    BY DEF WorkerPlace, Closed
  <2>2. ShutdownPlace'
    BY DEF ShutdownPlace, Closed
  <2> QED
    BY <2>1, <2>2
<1> QED
  BY <1>1, <1>2, <1>3

LEMMA WorkerTakeInv == StorageInv /\ WorkerTake => StorageInv'
<1> SUFFICES ASSUME StorageInv, WorkerTake
             PROVE  StorageInv'
  OBVIOUS
<1> USE DEF StorageInv, WorkerTake, durable, finish
<1>0. Len(images) \in Nat /\ DOMAIN images = 1..Len(images)
  BY ListTypes
<1>1. TypeOK'
  BY <1>0 DEF TypeOK
<1>2. Stamped' /\ Ordered' /\ LiveIsNewest'
  BY DataUnchanged
<1>3. FilesBetween'
  <2>1. \A i \in DOMAIN images : Unwritten(i)' => Unwritten(i)
    BY <1>0 DEF Unwritten, TypeOK
  <2>2. \A i \in DOMAIN images : Superseded(i)' <=> Superseded(i)
    BY DataUnchanged
  <2> QED
    BY <2>1, <2>2 DEF FilesBetween
<1>4. WorkerPlace'
  BY <1>0 DEF WorkerPlace, TypeOK, Closed
<1>5. ShutdownPlace'
  BY DEF ShutdownPlace, Closed, IsLatest, Superseded
<1> QED
  BY <1>1, <1>2, <1>3, <1>4, <1>5

LEMMA SpuriousWakeInv == StorageInv /\ SpuriousWake => StorageInv'
<1> SUFFICES ASSUME StorageInv, SpuriousWake
             PROVE  StorageInv'
  OBVIOUS
<1> USE DEF StorageInv, SpuriousWake, durable, queue, finish
<1>1. TypeOK'
  BY DEF TypeOK
<1>2. Stamped' /\ Ordered' /\ LiveIsNewest' /\ FilesBetween'
  BY DataUnchanged DEF FilesBetween, Unwritten
<1>3. WorkerPlace'
  BY DEF WorkerPlace, Closed
<1>4. ShutdownPlace'
  BY DEF ShutdownPlace, Closed, IsLatest, Superseded
<1> QED
  BY <1>1, <1>2, <1>3, <1>4

(* Writing an image that is the newest of its path, or whose turn it is,   *)
(* moves its file forward and keeps the facts about list and files.        *)
LEMMA WriteInv ==
  ASSUME StorageInv, NEW k \in DOMAIN images, NEW ok \in BOOLEAN, WriteImage(k, ok),
         ~Superseded(k) \/ Unwritten(k), UNCHANGED <<selected, sram, stamp>>,
         \A i \in DOMAIN images : Unwritten(i)' => Unwritten(i) /\ k < i
  PROVE  /\ Stamped' /\ Ordered' /\ LiveIsNewest' /\ FilesBetween'
         /\ \A n \in Namespace : files[n] <= files'[n]
<1> USE DEF StorageInv
<1>0. /\ Len(images) \in Nat /\ DOMAIN images = 1..Len(images)
      /\ \A i \in DOMAIN images : images[i].path \in Namespace /\ images[i].bytes \in Nat
      /\ files \in [Namespace -> Nat] /\ sram \in Nat /\ stamp \in Nat
  BY ListTypes DEF TypeOK
<1>1. /\ DOMAIN images' = DOMAIN images
      /\ \A i \in DOMAIN images : /\ images'[i].path = images[i].path
                                  /\ images'[i].bytes = images[i].bytes
      /\ \A i \in DOMAIN images : i # k => images'[i] = images[i]
      /\ images'[k].success = ok
      /\ files' \in [Namespace -> Nat]
      /\ ok => files'[images[k].path] = images[k].bytes
      /\ \A n \in Namespace : n # images[k].path \/ ~ok => files'[n] = files[n]
  BY WriteFacts
<1>2. \A i \in DOMAIN images : Superseded(i)' <=> Superseded(i)
  BY WriteSuperseded
<1>3. files[images[k].path] <= images[k].bytes
  BY DEF FilesBetween
<1>4. \A n \in Namespace : files[n] <= files'[n]
  BY <1>0, <1>1, <1>3
<1>5. Stamped'
  BY <1>0, <1>1 DEF Stamped
<1>6. LiveIsNewest'
  BY <1>0, <1>1 DEF LiveIsNewest
<1>7. Ordered'
  <2>1. \A i, j \in DOMAIN images' : i < j /\ images'[i].path = images'[j].path
          => images'[i].bytes <= images'[j].bytes
    BY <1>1 DEF Ordered
  <2>2. ASSUME NEW i \in DOMAIN images'
        PROVE  \E j \in DOMAIN images' : i <= j /\ IsLatest(j, images[i].path)'
    BY <1>1, <1>2 DEF Ordered, IsLatest
  <2> QED
    BY <2>1, <2>2 DEF Ordered
<1>8. FilesBetween'
  <2> SUFFICES ASSUME NEW i \in DOMAIN images
               PROVE  /\ images'[i].success => images[i].bytes <= files'[images[i].path]
                      /\ ~Superseded(i) \/ Unwritten(i)' =>
                           files'[images[i].path] <= images[i].bytes
    BY <1>1, <1>2 DEF FilesBetween
  <2>1. images'[i].success => images[i].bytes <= files'[images[i].path]
    <3>1. CASE i = k
      BY <1>0, <1>1, <3>1
    <3>2. CASE i # k
      <4>1. images'[i].success => images[i].bytes <= files[images[i].path]
        BY <1>1, <3>2 DEF FilesBetween
      <4> QED
        BY <1>0, <1>1, <1>4, <4>1
    <3> QED
      BY <3>1, <3>2
  <2>2. ASSUME ~Superseded(i) \/ Unwritten(i)'
        PROVE  files'[images[i].path] <= images[i].bytes
    <3>1. CASE images[i].path # images[k].path \/ ~ok
      <4>1. files[images[i].path] <= images[i].bytes
        BY <2>2 DEF FilesBetween
      <4> QED
        BY <1>0, <1>1, <3>1, <4>1
    <3>2. CASE images[i].path = images[k].path /\ ok
      <4>1. k <= i
        BY <1>0, <2>2, <3>2 DEF Superseded
      <4>2. images[k].bytes <= images[i].bytes
        <5>1. CASE k = i
          BY <1>0, <5>1
        <5>2. CASE k < i
          BY <3>2, <5>2 DEF Ordered
        <5> QED
          BY <1>0, <4>1, <5>1, <5>2
      <4> QED
        BY <1>1, <3>2, <4>2
    <3> QED
      BY <3>1, <3>2
  <2> QED
    BY <2>1, <2>2
<1> QED
  BY <1>4, <1>5, <1>6, <1>7, <1>8

LEMMA WorkerWriteInv ==
  ASSUME StorageInv, NEW ok \in BOOLEAN, WorkerWrite(ok)
  PROVE  StorageInv' /\ \A n \in Namespace : files[n] <= files'[n]
<1> USE DEF StorageInv
<1>0. /\ Len(images) \in Nat /\ DOMAIN images = 1..Len(images)
      /\ worker = "writing" /\ worker' = "ready" /\ current' = 0
      /\ WriteImage(current, ok)
      /\ UNCHANGED <<lastMode, selected, sram, pending, stopping, main, capture, cursor,
                     allSaved, stamp>>
  BY ListTypes DEF WorkerWrite, finish
<1>1. current \in DOMAIN images /\ Unwritten(current)
  BY <1>0 DEF TypeOK, WorkerPlace, Unwritten
<1>2. \A i \in DOMAIN images : Unwritten(i)' => Unwritten(i) /\ current < i
  BY <1>0, <1>1 DEF Unwritten, WorkerPlace, TypeOK
<1>3. PICK k \in DOMAIN images : k = current
  BY <1>1
<1>4. /\ Stamped' /\ Ordered' /\ LiveIsNewest' /\ FilesBetween'
      /\ \A n \in Namespace : files[n] <= files'[n]
  BY <1>0, <1>1, <1>2, <1>3, WriteInv
<1>5. /\ images' \in Seq(Image) /\ Len(images') = Len(images)
      /\ DOMAIN images' = DOMAIN images /\ files' \in [Namespace -> Nat]
      /\ \A i \in DOMAIN images : /\ images'[i].path = images[i].path
                                  /\ images'[i].bytes = images[i].bytes
  BY <1>0, <1>3, WriteFacts
<1>6. TypeOK'
  BY <1>0, <1>5 DEF TypeOK
<1>7. WorkerPlace'
  BY <1>0 DEF WorkerPlace, Closed
<1>8. ShutdownPlace'
  <2>1. main # "retry" /\ main \notin Closed
    BY <1>0 DEF WorkerPlace
  <2>2. \A i \in DOMAIN images, n \in Namespace : IsLatest(i, n)' <=> IsLatest(i, n)
    BY <1>0, <1>3, WriteSuperseded
  <2>3. main \in {"capture", "stop", "join", "retry", "dialog"} /\ ~capture
          /\ selected \in Namespace
        => \E i \in DOMAIN images' : IsLatest(i, selected)' /\ images'[i].bytes = sram
    <3> SUFFICES ASSUME main \in {"capture", "stop", "join", "retry", "dialog"},
                        ~capture, selected \in Namespace
                 PROVE  \E i \in DOMAIN images' :
                          IsLatest(i, selected)' /\ images'[i].bytes = sram
      OBVIOUS
    <3>1. PICK i \in DOMAIN images : IsLatest(i, selected) /\ images[i].bytes = sram
      BY DEF ShutdownPlace
    <3>2. ~Superseded(i)'
      BY <1>0, <1>3, <3>1, WriteSuperseded DEF IsLatest
    <3>3. IsLatest(i, selected)'
      BY <1>0, <1>5, <3>1, <3>2 DEF IsLatest
    <3> QED
      BY <1>5, <3>1, <3>3
  <2> QED
    BY <1>0, <2>1, <2>3 DEF ShutdownPlace, Closed
<1> QED
  BY <1>4, <1>6, <1>7, <1>8

LEMMA ShutdownInv == StorageInv /\ Shutdown => StorageInv'
<1> SUFFICES ASSUME StorageInv, Shutdown
             PROVE  StorageInv'
  OBVIOUS
<1> USE DEF StorageInv, Shutdown, durable, queue, thread
<1>1. TypeOK'
  <2>1. capture' \in BOOLEAN
    OBVIOUS
  <2> QED
    BY <2>1 DEF TypeOK, MainAt
<1>2. Stamped' /\ Ordered' /\ LiveIsNewest' /\ FilesBetween'
  BY DataUnchanged DEF FilesBetween, Unwritten
<1>3. WorkerPlace'
  BY DEF WorkerPlace, Closed
<1>4. ShutdownPlace'
  BY DEF TypeOK, ShutdownPlace, Closed
<1> QED
  BY <1>1, <1>2, <1>3, <1>4

(* After shutdown has queued the active namespace its newest image holds   *)
(* the live bytes.                                                         *)
LEMMA ShutdownCaptureInv == StorageInv /\ ShutdownCapture => StorageInv'
<1> SUFFICES ASSUME StorageInv, ShutdownCapture
             PROVE  StorageInv'
  OBVIOUS
<1> USE DEF StorageInv
<1>0. /\ main = "capture"
      /\ UNCHANGED <<files, lastMode, selected, sram, cursor, allSaved, stamp>>
  BY DEF ShutdownCapture, durable
<1>1. CASE ~capture /\ main' = "stop" /\ UNCHANGED <<queue, thread, capture>>
  <2> USE DEF queue, thread
  <2>1. TypeOK'
    BY <1>0, <1>1 DEF TypeOK, MainAt
  <2>2. Stamped' /\ Ordered' /\ LiveIsNewest' /\ FilesBetween'
    BY <1>0, <1>1, DataUnchanged DEF FilesBetween, Unwritten
  <2>3. WorkerPlace'
    BY <1>0, <1>1 DEF WorkerPlace, Closed
  <2>4. ShutdownPlace'
    BY <1>0, <1>1 DEF ShutdownPlace, Closed, IsLatest, Superseded
  <2> QED
    BY <2>1, <2>2, <2>3, <2>4
<1>2. CASE capture /\ QueueStorage /\ main' = "stop" /\ capture' = FALSE
  <2>s. selected \in Namespace
    BY <1>0, <1>2 DEF TypeOK, ShutdownPlace
  <2>q. /\ images' \in Seq(Image)
        /\ Len(images') = Len(images) + 1
        /\ DOMAIN images' = DOMAIN images \cup {Len(images) + 1}
        /\ images'[Len(images) + 1].bytes = sram
        /\ pending' \in 0..Len(images')
    BY <1>2, <2>s, QueueFacts
  <2>i. /\ \A i \in DOMAIN images' : images'[i].bytes <= stamp'
        /\ Ordered'
        /\ FilesBetween'
        /\ \A i \in DOMAIN images' :
             images'[i].path = selected => images'[i].bytes <= sram
        /\ worker' \in {"ready", "writing"} /\ ~stopping'
        /\ worker' = "writing" => current' # 0 /\ (pending' # 0 => current' < pending')
    BY <1>0, <1>2, <2>s, QueueInv
  <2>1. TypeOK'
    <3>1. stopping' \in BOOLEAN /\ capture' \in BOOLEAN
      BY <1>2, <2>s, QueueFacts
    <3>2. cursor' \in 1..(Len(images') + 1) /\ current' \in 0..Len(images')
      BY <1>0, <1>2, <2>q, ListTypes DEF TypeOK, QueueStorage
    <3> QED
      BY <1>0, <1>2, <2>q, <2>i, <3>1, <3>2 DEF TypeOK, MainAt
  <2>2. Stamped' /\ LiveIsNewest'
    BY <1>0, <2>i DEF Stamped, LiveIsNewest
  <2>3. WorkerPlace'
    BY <1>0, <1>2, <2>i DEF WorkerPlace, Closed
  <2>4. ShutdownPlace'
    <3>1. PICK k \in Nat : k = Len(images) + 1
      BY ListTypes
    <3>2. ~Superseded(k)'
      BY <1>2, <2>s, <3>1, QueueSuperseded
    <3>3. images'[k].path = selected
      BY <1>2, <2>s, <3>1, QueueFacts
    <3>4. IsLatest(k, selected)' /\ images'[k].bytes = sram' /\ k \in DOMAIN images'
      BY <1>0, <2>q, <3>1, <3>2, <3>3 DEF IsLatest
    <3> QED
      BY <1>2, <3>4 DEF ShutdownPlace, Closed
  <2> QED
    BY <2>1, <2>2, <2>3, <2>4, <2>i
<1>3. CASE capture /\ QueueRejected /\ main' = "dialog" /\ UNCHANGED capture
  <2> USE DEF QueueRejected, queue
  <2>1. TypeOK'
    BY <1>0, <1>3 DEF TypeOK, MainAt
  <2>2. Stamped' /\ Ordered' /\ LiveIsNewest' /\ FilesBetween'
    BY <1>0, <1>3, DataUnchanged DEF FilesBetween, Unwritten
  <2>3. WorkerPlace'
    BY <1>0, <1>3 DEF WorkerPlace, Closed
  <2>4. ShutdownPlace'
    BY <1>0, <1>3 DEF ShutdownPlace, Closed
  <2> QED
    BY <2>1, <2>2, <2>3, <2>4
<1> QED
  BY <1>1, <1>2, <1>3 DEF ShutdownCapture

LEMMA StopWorkerInv == StorageInv /\ StopWorker => StorageInv'
<1> SUFFICES ASSUME StorageInv, StopWorker
             PROVE  StorageInv'
  OBVIOUS
<1> USE DEF StorageInv, StopWorker, durable, queue, finish
<1>1. TypeOK'
  <2>1. stopping' \in BOOLEAN /\ worker' \in {"absent", "ready", "waiting", "writing", "done"}
    BY DEF TypeOK, Signalled
  <2> QED
    BY <2>1 DEF TypeOK, MainAt
<1>2. Stamped' /\ Ordered' /\ LiveIsNewest' /\ FilesBetween'
  BY DataUnchanged DEF FilesBetween, Unwritten, Signalled
<1>3. WorkerPlace'
  BY DEF WorkerPlace, Closed, Signalled
<1>4. ShutdownPlace'
  BY DEF ShutdownPlace, Closed, IsLatest, Superseded
<1> QED
  BY <1>1, <1>2, <1>3, <1>4

(* The retry loop starts with the worker joined and nothing pending.       *)
LEMMA BeginRetryInv ==
  ASSUME StorageInv, BeginRetry, worker \in {"absent", "done"}, worker' = "absent",
         main \in {"stop", "join"}
  PROVE  StorageInv'
<1> USE DEF StorageInv, BeginRetry, durable, queue
<1>1. TypeOK'
  <2>1. allSaved' \in BOOLEAN
    OBVIOUS
  <2> QED
    BY <2>1, ListTypes DEF TypeOK, MainAt
<1>2. Stamped' /\ Ordered' /\ LiveIsNewest' /\ FilesBetween'
  BY DataUnchanged DEF FilesBetween, Unwritten
<1>3. WorkerPlace'
  BY DEF WorkerPlace, Closed
<1>4. ShutdownPlace'
  BY DEF ShutdownPlace, Closed, IsLatest, Superseded
<1> QED
  BY <1>1, <1>2, <1>3, <1>4

LEMMA NoWorkerInv == StorageInv /\ NoWorker => StorageInv'
<1> SUFFICES ASSUME StorageInv, NoWorker
             PROVE  StorageInv'
  OBVIOUS
<1>1. CASE main = "stop" /\ BeginRetry /\ UNCHANGED worker
  BY <1>1, BeginRetryInv DEF NoWorker
<1>2. CASE main = "quit" /\ ProcessGone("lost")
  BY <1>2, ProcessGoneInv DEF Closed
<1> QED
  BY <1>1, <1>2 DEF NoWorker

LEMMA JoinInv == StorageInv /\ Join => StorageInv'
<1> SUFFICES ASSUME StorageInv, Join
             PROVE  StorageInv'
  OBVIOUS
<1>1. CASE main = "join" /\ BeginRetry /\ worker' = "absent"
  BY <1>1, BeginRetryInv DEF Join
<1>2. CASE main = "quitjoin" /\ ProcessGone("lost")
  BY <1>2, ProcessGoneInv DEF Closed
<1> QED
  BY <1>1, <1>2 DEF Join

(* A retried image is the newest of its path, so its file moves forward.   *)
LEMMA RetryImageInv ==
  ASSUME StorageInv, NEW ok \in BOOLEAN, RetryImage(ok)
  PROVE  StorageInv' /\ \A n \in Namespace : files[n] <= files'[n]
<1> USE DEF StorageInv
<1>0. /\ Len(images) \in Nat /\ DOMAIN images = 1..Len(images)
      /\ main = "retry" /\ cursor \in DOMAIN images /\ cursor' = cursor + 1
      /\ worker = "absent" /\ pending = 0 /\ ~capture
      /\ UNCHANGED <<lastMode, selected, sram, pending, stopping, worker, current, main,
                     capture, stamp>>
  BY ListTypes DEF RetryImage, thread, WorkerPlace, ShutdownPlace, TypeOK
<1>1. CASE (Superseded(cursor) \/ images[cursor].success)
            /\ UNCHANGED <<files, images, allSaved>>
  <2>1. TypeOK'
    BY <1>0, <1>1 DEF TypeOK
  <2>2. Stamped' /\ Ordered' /\ LiveIsNewest' /\ FilesBetween'
    BY <1>0, <1>1, DataUnchanged DEF FilesBetween, Unwritten
  <2>3. WorkerPlace'
    BY <1>0 DEF WorkerPlace
  <2>4. ShutdownPlace'
    <3>1. selected \in Namespace => \E i \in DOMAIN images :
            IsLatest(i, selected) /\ images[i].bytes = sram
      BY <1>0 DEF ShutdownPlace
    <3>2. selected' \in Namespace => \E i \in DOMAIN images' :
            IsLatest(i, selected)' /\ images'[i].bytes = sram'
      BY <1>0, <1>1, <3>1 DEF IsLatest, Superseded
    <3>3. allSaved => \A i \in 1..cursor : i \in DOMAIN images =>
            Superseded(i) \/ images[i].success
      BY <1>0, <1>1 DEF ShutdownPlace, TypeOK
    <3>4. allSaved' => \A i \in 1..(cursor' - 1) : i \in DOMAIN images' =>
            Superseded(i)' \/ images'[i].success
      BY <1>0, <1>1, <3>3 DEF Superseded, TypeOK
    <3> QED
      BY <1>0, <3>2, <3>4 DEF ShutdownPlace, Closed
  <2>5. \A n \in Namespace : files[n] <= files'[n]
    BY <1>1 DEF TypeOK
  <2> QED
    BY <2>1, <2>2, <2>3, <2>4, <2>5
<1>2. CASE /\ ~Superseded(cursor) /\ ~images[cursor].success
           /\ WriteImage(cursor, ok)
           /\ allSaved' = (allSaved /\ ok)
  <2>1. PICK k \in DOMAIN images : k = cursor
    BY <1>0
  <2>2. /\ Stamped' /\ Ordered' /\ LiveIsNewest' /\ FilesBetween'
        /\ \A n \in Namespace : files[n] <= files'[n]
    <3>1. \A i \in DOMAIN images : Unwritten(i)' => Unwritten(i) /\ k < i
      BY <1>0 DEF Unwritten
    <3> QED
      BY <1>0, <1>2, <2>1, <3>1, WriteInv
  <2>3. /\ images' \in Seq(Image) /\ Len(images') = Len(images)
        /\ DOMAIN images' = DOMAIN images /\ files' \in [Namespace -> Nat]
        /\ \A i \in DOMAIN images : /\ images'[i].path = images[i].path
                                    /\ images'[i].bytes = images[i].bytes
        /\ \A i \in DOMAIN images : i # k => images'[i] = images[i]
        /\ images'[k].success = ok
    BY <1>2, <2>1, WriteFacts
  <2>4. \A i \in DOMAIN images : Superseded(i)' <=> Superseded(i)
    BY <1>2, <2>1, WriteSuperseded
  <2>5. TypeOK'
    <3>1. allSaved' \in BOOLEAN
      BY <1>2 DEF TypeOK
    <3> QED
      BY <1>0, <2>3, <3>1 DEF TypeOK
  <2>6. WorkerPlace'
    BY <1>0 DEF WorkerPlace
  <2>7. ShutdownPlace'
    <3>1. ASSUME selected \in Namespace
          PROVE  \E i \in DOMAIN images' : IsLatest(i, selected)' /\ images'[i].bytes = sram'
      <4>1. PICK i \in DOMAIN images : IsLatest(i, selected) /\ images[i].bytes = sram
        BY <1>0, <3>1 DEF ShutdownPlace
      <4>2. IsLatest(i, selected)'
        BY <1>0, <2>3, <2>4, <4>1 DEF IsLatest
      <4> QED
        BY <1>0, <2>3, <4>1, <4>2
    <3>2. ASSUME allSaved', NEW i \in 1..(cursor' - 1), i \in DOMAIN images'
          PROVE  Superseded(i)' \/ images'[i].success
      <4>1. allSaved /\ ok
        BY <1>2, <3>2
      <4>2. CASE i = k
        BY <2>3, <4>1, <4>2
      <4>3. CASE i # k
        <5>1. i \in 1..(cursor - 1) /\ i \in DOMAIN images
          BY <1>0, <2>1, <2>3, <3>2, <4>3
        <5>2. Superseded(i) \/ images[i].success
          BY <1>0, <4>1, <5>1 DEF ShutdownPlace
        <5> QED
          BY <2>3, <2>4, <4>3, <5>1, <5>2
      <4> QED
        BY <4>2, <4>3
    <3> QED
      BY <1>0, <3>1, <3>2 DEF ShutdownPlace, Closed
  <2> QED
    BY <2>2, <2>5, <2>6, <2>7
<1> QED
  BY <1>1, <1>2 DEF RetryImage

LEMMA RetryDoneInv == StorageInv /\ RetryDone => StorageInv'
<1> SUFFICES ASSUME StorageInv, RetryDone
             PROVE  StorageInv'
  OBVIOUS
<1>1. CASE allSaved /\ ProcessGone("saved")
  BY <1>1, ProcessGoneInv DEF Closed
<1>2. CASE /\ main' = "dialog"
           /\ UNCHANGED <<durable, selected, sram, queue, thread, finish, stamp>>
  <2> USE DEF StorageInv, durable, queue, thread, finish
  <2>1. TypeOK'
    BY <1>2 DEF TypeOK, MainAt
  <2>2. Stamped' /\ Ordered' /\ LiveIsNewest' /\ FilesBetween'
    BY <1>2, DataUnchanged DEF FilesBetween, Unwritten
  <2>3. WorkerPlace'
    BY <1>2 DEF WorkerPlace, Closed, RetryDone
  <2>4. ShutdownPlace'
    BY <1>2 DEF ShutdownPlace, Closed, IsLatest, Superseded, RetryDone
  <2> QED
    BY <2>1, <2>2, <2>3, <2>4
<1> QED
  BY <1>1, <1>2 DEF RetryDone

LEMMA DialogInv == StorageInv /\ Dialog => StorageInv'
<1> SUFFICES ASSUME StorageInv, Dialog
             PROVE  StorageInv'
  OBVIOUS
<1> USE DEF StorageInv, Dialog, durable, queue, thread, finish
<1>1. TypeOK'
  BY DEF TypeOK, MainAt
<1>2. Stamped' /\ Ordered' /\ LiveIsNewest' /\ FilesBetween'
  BY DataUnchanged DEF FilesBetween, Unwritten
<1>3. WorkerPlace'
  BY DEF WorkerPlace, Closed
<1>4. ShutdownPlace'
  BY DEF ShutdownPlace, Closed, IsLatest, Superseded
<1> QED
  BY <1>1, <1>2, <1>3, <1>4

LEMMA NextInv == StorageInv /\ [Next]_vars => StorageInv'
<1> SUFFICES ASSUME StorageInv, [Next]_vars
             PROVE  StorageInv'
  OBVIOUS
<1>1. CASE PrepareStorage
  BY <1>1, PrepareStorageInv
<1>2. CASE GuestWrite
  BY <1>2, GuestWriteInv
<1>3. ASSUME NEW n \in Namespace, Choose(n) PROVE StorageInv'
  BY <1>3, ChooseInv
<1>4. ASSUME NEW n \in Namespace, ChooseRejected(n) PROVE StorageInv'
  BY <1>4, ChooseRejectedInv
<1>5. CASE WorkerTake
  BY <1>5, WorkerTakeInv
<1>6. CASE SpuriousWake
  BY <1>6, SpuriousWakeInv
<1>7. ASSUME NEW ok \in BOOLEAN, WorkerWrite(ok) PROVE StorageInv'
  BY <1>7, WorkerWriteInv
<1>8. CASE Shutdown
  BY <1>8, ShutdownInv
<1>9. CASE ShutdownCapture
  BY <1>9, ShutdownCaptureInv
<1>10. CASE StopWorker
  BY <1>10, StopWorkerInv
<1>11. CASE NoWorker
  BY <1>11, NoWorkerInv
<1>12. CASE Join
  BY <1>12, JoinInv
<1>13. ASSUME NEW ok \in BOOLEAN, RetryImage(ok) PROVE StorageInv'
  BY <1>13, RetryImageInv
<1>14. CASE RetryDone
  BY <1>14, RetryDoneInv
<1>15. CASE Dialog
  BY <1>15, DialogInv
<1>16. CASE Crash
  BY <1>16, ProcessGoneInv DEF Crash, Closed
<1>17. CASE UNCHANGED vars
  BY <1>17 DEF vars, durable, queue, thread, finish, StorageInv, TypeOK, Stamped, Ordered,
               LiveIsNewest, FilesBetween, WorkerPlace, ShutdownPlace, Unwritten, IsLatest,
               Superseded
<1> QED
  BY <1>1, <1>2, <1>3, <1>4, <1>5, <1>6, <1>7, <1>8, <1>9, <1>10, <1>11, <1>12, <1>13,
     <1>14, <1>15, <1>16, <1>17 DEF Next

(* The inductive invariant holds in every reachable state: list order,     *)
(* file positions and thread positions of coop_storage.c stay consistent.  *)
THEOREM StorageInvariant == Spec => []StorageInv
<1>1. Init => StorageInv
  BY InitInv
<1>2. StorageInv /\ [Next]_vars => StorageInv'
  BY NextInv
<1> QED
  BY <1>1, <1>2, PTL DEF Spec

(* The worker never sleeps in SDL_CondWait while an image is pending or a  *)
(* stop has been requested, so no signal that matters is lost.             *)
THEOREM WakeupsAreNotLost == Spec => []NoLostWakeup
<1>1. StorageInv => NoLostWakeup
  BY DEF StorageInv, WorkerPlace, NoLostWakeup
<1> QED
  BY <1>1, StorageInvariant, PTL

(* SmwCoopFinishStorage only touches images after the worker was joined.   *)
THEOREM InspectionIsJoined == Spec => []JoinedBeforeInspection
<1>1. StorageInv => JoinedBeforeInspection
  BY ListTypes DEF StorageInv, TypeOK, WorkerPlace, JoinedBeforeInspection
<1> QED
  BY <1>1, StorageInvariant, PTL

(* No write of the worker and no shutdown retry replaces newer contents of *)
(* a save file by older ones.                                              *)
THEOREM FilesMoveForward == Spec => FilesNeverRegress
<1>1. StorageInv /\ [Next]_vars => [\A n \in Namespace : files'[n] >= files[n]]_files
  <2> SUFFICES ASSUME StorageInv, [Next]_vars, files' # files
               PROVE  \A n \in Namespace : files'[n] >= files[n]
    OBVIOUS
  <2>1. ASSUME NEW ok \in BOOLEAN, WorkerWrite(ok)
        PROVE  \A n \in Namespace : files[n] <= files'[n]
    BY <2>1, WorkerWriteInv
  <2>2. ASSUME NEW ok \in BOOLEAN, RetryImage(ok)
        PROVE  \A n \in Namespace : files[n] <= files'[n]
    BY <2>2, RetryImageInv
  <2>3. \/ \E ok \in BOOLEAN : WorkerWrite(ok)
        \/ \E ok \in BOOLEAN : RetryImage(ok)
    BY DEF Next, vars, durable, PrepareStorage, GuestWrite, Choose, ChooseRejected,
           WorkerTake, SpuriousWake, Shutdown, ShutdownCapture, StopWorker, NoWorker, Join,
           RetryDone, Dialog, Crash, ProcessGone, BeginRetry
  <2>4. \A n \in Namespace : files[n] <= files'[n]
    BY <2>1, <2>2, <2>3
  <2>5. StorageInv'
    BY NextInv
  <2> QED
    BY <2>4, <2>5 DEF StorageInv, TypeOK
<1> QED
  BY <1>1, StorageInvariant, PTL DEF Spec, FilesNeverRegress

-----------------------------------------------------------------------------
(* Durability at a successful shutdown.                                    *)

(* When the retry loop ends with nothing unsaved, every file is current.   *)
LEMMA AllSavedDurable ==
  ASSUME StorageInv, main = "retry", cursor > Len(images), allSaved, NEW n \in Namespace
  PROVE  files[n] = Newest(n)
<1> USE DEF StorageInv
<1>0. /\ Len(images) \in Nat /\ DOMAIN images = 1..Len(images)
      /\ \A i \in DOMAIN images : images[i].path \in Namespace /\ images[i].bytes \in Nat
      /\ files[n] \in Nat /\ cursor \in Nat
  BY ListTypes DEF TypeOK
<1>1. ASSUME NEW i \in DOMAIN images, IsLatest(i, n)
      PROVE  files[n] = images[i].bytes
  <2>1. images[i].success /\ ~Superseded(i) /\ images[i].path = n
    BY <1>0, <1>1 DEF ShutdownPlace, IsLatest
  <2>2. images[i].bytes <= files[n] /\ files[n] <= images[i].bytes
    BY <2>1 DEF FilesBetween
  <2> QED
    BY <1>0, <2>2
<1>2. CASE n = selected
  <2>1. PICK i \in DOMAIN images : IsLatest(i, selected) /\ images[i].bytes = sram
    BY <1>2 DEF ShutdownPlace
  <2> QED
    BY <1>1, <1>2, <2>1 DEF Newest
<1>3. CASE n # selected
  <2>1. CASE \E i \in DOMAIN images : images[i].path = n
    <3>1. PICK i \in DOMAIN images : images[i].path = n
      BY <2>1
    <3>2. PICK k \in DOMAIN images : IsLatest(k, n)
      BY <3>1 DEF Ordered
    <3> QED
      BY <1>1, <1>3, <3>2, ReadBackLatest DEF Newest
  <2>2. CASE ~\E i \in DOMAIN images : images[i].path = n
    BY <1>3, <2>2 DEF Newest, ReadBack
  <2> QED
    BY <2>1, <2>2
<1> QED
  BY <1>2, <1>3

LEMMA SavedStep ==
  ASSUME StorageInv, [Next]_vars, main' = "saved", main' # main
  PROVE  main = "retry" /\ cursor > Len(images) /\ allSaved /\ ProcessGone("saved")
BY DEF Next, vars, PrepareStorage, GuestWrite, Choose, ChooseRejected, WorkerTake,
       SpuriousWake, WorkerWrite, Shutdown, ShutdownCapture, StopWorker, NoWorker, Join,
       RetryImage, RetryDone, Dialog, Crash, ProcessGone, BeginRetry

(* When SmwCoopStorageShutdown returns without the player choosing to lose *)
(* data, the file of every namespace holds the newest contents known.      *)
THEOREM ShutdownIsDurable == Spec => SavedMeansDurable
<1>1. StorageInv /\ [Next]_vars =>
        [main' = "saved" => \A n \in Namespace : files[n] = Newest(n)]_main
  BY SavedStep, AllSavedDurable
<1> QED
  BY <1>1, StorageInvariant, PTL DEF Spec, SavedMeansDurable

-----------------------------------------------------------------------------
(* Refinement of SaveStore.                                                *)

(* Newest contents survive every step that only moves images and threads.  *)
LEMMA NewestSame ==
  ASSUME UNCHANGED <<files, selected, sram, images>>
  PROVE  \A n \in Namespace : Newest(n)' = Newest(n)
BY DEF Newest, ReadBack, IsLatest, Superseded

(* Queueing changes what is read back only for the active namespace, where *)
(* the live bytes are now found.                                           *)
LEMMA NewestQueue ==
  ASSUME StorageInv, QueueStorage, selected \in Namespace, UNCHANGED files,
         NEW n \in Namespace
  PROVE  ReadBack(n)' = IF n = selected THEN sram ELSE ReadBack(n)
<1> USE DEF StorageInv
<1>0. Len(images) \in Nat /\ DOMAIN images = 1..Len(images)
  BY ListTypes
<1>1. /\ images' \in Seq(Image)
      /\ Len(images') = Len(images) + 1
      /\ DOMAIN images' = DOMAIN images \cup {Len(images) + 1}
      /\ \A i \in DOMAIN images : images'[i] = images[i]
      /\ images'[Len(images) + 1].path = selected
      /\ images'[Len(images) + 1].bytes = sram
  BY QueueFacts
<1>2. ASSUME NEW i \in DOMAIN images', IsLatest(i, n)'
      PROVE  ReadBack(n)' = images'[i].bytes
  <2>0. DOMAIN images' = 1..Len(images') /\ Len(images') \in Nat
    BY <1>0, <1>1
  <2>1. \A j \in DOMAIN images' : IsLatest(j, n)' => j = i
    BY <1>2, <2>0 DEF IsLatest, Superseded
  <2>2. (CHOOSE j \in DOMAIN images' : IsLatest(j, n)') = i
    BY <1>2, <2>1
  <2>3. \E j \in DOMAIN images' : images'[j].path = n
    BY <1>2 DEF IsLatest
  <2> QED
    BY <2>2, <2>3 DEF ReadBack
<1>3. CASE n = selected
  <2>1. PICK k \in Nat : k = Len(images) + 1
    BY <1>0
  <2>2. IsLatest(k, n)'
    BY <1>3, <2>1, QueueSuperseded
  <2> QED
    BY <1>1, <1>2, <1>3, <2>1, <2>2
<1>4. CASE n # selected
  <2>1. CASE \E i \in DOMAIN images : images[i].path = n
    <3>1. PICK i \in DOMAIN images : images[i].path = n
      BY <2>1
    <3>2. PICK k \in DOMAIN images : IsLatest(k, n)
      BY <3>1 DEF Ordered
    <3>3. IsLatest(k, n)'
      BY <1>4, <3>2, QueueSuperseded
    <3>4. ReadBack(n)' = images'[k].bytes
      BY <1>1, <1>2, <3>3
    <3> QED
      BY <1>1, <1>4, <3>2, <3>4, ReadBackLatest
  <2>2. CASE ~\E i \in DOMAIN images : images[i].path = n
    BY <1>1, <1>4, <2>2 DEF ReadBack
  <2> QED
    BY <2>1, <2>2
<1> QED
  BY <1>3, <1>4

(* Writing an image changes nothing that is newer than it.                 *)
LEMMA NewestWrite ==
  ASSUME StorageInv, NEW k \in DOMAIN images, NEW ok \in BOOLEAN, WriteImage(k, ok),
         UNCHANGED <<selected, sram>>, NEW n \in Namespace
  PROVE  Newest(n)' = Newest(n)
<1> USE DEF StorageInv
<1>0. Len(images) \in Nat /\ DOMAIN images = 1..Len(images)
  BY ListTypes
<1>1. /\ Len(images') = Len(images) /\ DOMAIN images' = DOMAIN images
      /\ \A i \in DOMAIN images : /\ images'[i].path = images[i].path
                                  /\ images'[i].bytes = images[i].bytes
      /\ \A m \in Namespace : m # images[k].path \/ ~ok => files'[m] = files[m]
  BY WriteFacts
<1>2. CASE \E i \in DOMAIN images : images[i].path = n
  <2>1. PICK i \in DOMAIN images : images[i].path = n
    BY <1>2
  <2>2. PICK j \in DOMAIN images : IsLatest(j, n)
    BY <2>1 DEF Ordered
  <2>3. IsLatest(j, n)'
    BY <2>2, WriteSuperseded
  <2>4. \A m \in DOMAIN images' : IsLatest(m, n)' => m = j
    BY <1>0, <1>1, <2>3 DEF IsLatest, Superseded
  <2>5. (CHOOSE m \in DOMAIN images' : IsLatest(m, n)') = j
    BY <1>1, <2>3, <2>4
  <2>6. \E m \in DOMAIN images' : images'[m].path = n
    BY <1>1, <2>1
  <2>7. ReadBack(n)' = images'[j].bytes
    BY <2>5, <2>6 DEF ReadBack
  <2>8. ReadBack(n)' = ReadBack(n)
    BY <1>1, <2>2, <2>7, ReadBackLatest
  <2> QED
    BY <2>8 DEF Newest
<1>3. CASE ~\E i \in DOMAIN images : images[i].path = n
  BY <1>1, <1>3 DEF Newest, ReadBack
<1> QED
  BY <1>2, <1>3

(* The abstract memory as a function of the two facts that determine it.   *)
LEMMA MemSame ==
  ASSUME \A n \in Namespace : Newest(n)' = Newest(n)
  PROVE  newest' = newest
BY DEF newest

(* A step that keeps the newest contents and the files and stays open is a *)
(* stutter, or a selection if it changes the active namespace.             *)
LEMMA StutterStep ==
  ASSUME newest' = newest, UNCHANGED <<files, selected>>, main \notin Closed, main' \notin Closed
  PROVE  UNCHANGED Store!vars
BY DEF Store!vars, openState

(* A write publishes its image, or leaves the abstract state alone.        *)
LEMMA PublishStep ==
  ASSUME StorageInv, NEW k \in DOMAIN images, NEW ok \in BOOLEAN, WriteImage(k, ok),
         \A n \in Namespace : files[n] <= files'[n],
         UNCHANGED <<selected, sram, main>>, main \notin Closed
  PROVE  [Store!Next]_(Store!vars)
<1> USE DEF StorageInv
<1>0. /\ images[k].path \in Namespace /\ images[k].bytes \in Nat
      /\ files \in [Namespace -> Nat] /\ sram \in Nat
  BY ListTypes DEF TypeOK
<1>1. /\ files' \in [Namespace -> Nat]
      /\ ok => files'[images[k].path] = images[k].bytes
      /\ \A n \in Namespace : n # images[k].path \/ ~ok => files'[n] = files[n]
  BY WriteFacts
<1>2. newest' = newest
  BY NewestWrite, MemSame
<1>3. PICK p \in Namespace : p = images[k].path
  BY <1>0
<1>4. CASE files'[p] = files[p]
  <2>1. files' = files
    BY <1>0, <1>1, <1>3, <1>4
  <2> QED
    BY <1>2, <2>1, StutterStep
<1>5. CASE files'[p] # files[p]
  <2>1. ok /\ files'[p] = images[k].bytes
    BY <1>1, <1>3, <1>5
  <2>2. images[k].bytes <= Newest(p)
    BY <1>3, ReadBackIsNewest DEF Newest, LiveIsNewest
  <2>3. files[p] < files'[p] /\ files'[p] <= newest[p]
    BY <1>0, <1>1, <1>3, <1>5, <2>1, <2>2 DEF newest
  <2>4. files' = [files EXCEPT ![p] = files'[p]]
    BY <1>0, <1>1, <1>3
  <2>5. Store!Publish(p)
    BY <1>2, <2>3, <2>4 DEF Store!Publish, openState
  <2> QED
    BY <2>5 DEF Store!Next
<1> QED
  BY <1>4, <1>5

(* Switching to n keeps the newest contents of every namespace.            *)
LEMMA SelectStep ==
  ASSUME StorageInv, NEW n \in Namespace, Choose(n)
  PROVE  [Store!Next]_(Store!vars)
<1> USE DEF StorageInv
<1>0. UNCHANGED <<files, main>> /\ main = "running"
  BY DEF Choose
<1>1. CASE n = selected
  <2>1. UNCHANGED <<files, selected, sram, images>>
    BY <1>0, <1>1 DEF Choose, queue
  <2> QED
    BY <1>0, <2>1, NewestSame, MemSame, StutterStep DEF Closed
<1>2. CASE n # selected
  <2>0. selected' = n /\ sram' = ReadBack(n)
    BY <1>2 DEF Choose
  <2>1. ASSUME NEW m \in Namespace
        PROVE  Newest(m)' = Newest(m)
    <3>1. CASE selected = NoNamespace
      <4>1. images' = images
        BY <1>2, <3>1 DEF Choose, queue
      <4>2. ReadBack(m)' = ReadBack(m)
        BY <1>0, <4>1 DEF ReadBack, IsLatest, Superseded
      <4> QED
        BY <2>0, <3>1, <4>2 DEF Newest
    <3>2. CASE selected # NoNamespace
      <4>1. QueueStorage /\ selected \in Namespace
        BY <1>2, <3>2 DEF Choose, TypeOK
      <4>2. ReadBack(m)' = IF m = selected THEN sram ELSE ReadBack(m)
        BY <1>0, <4>1, NewestQueue
      <4> QED
        BY <1>2, <2>0, <4>2 DEF Newest
    <3> QED
      BY <3>1, <3>2
  <2>2. newest' = newest
    BY <2>1, MemSame
  <2>3. Store!Select(n)
    BY <1>0, <2>0, <2>2 DEF Store!Select, openState, Closed
  <2> QED
    BY <2>3 DEF Store!Next
<1> QED
  BY <1>1, <1>2

(* The end of a process forgets what is not on disk.                       *)
LEMMA CloseStep ==
  ASSUME StorageInv, main \notin Closed,
         \/ ProcessGone("lost")
         \/ /\ ProcessGone("saved") /\ main = "retry"
            /\ cursor > Len(images) /\ allSaved
  PROVE  Store!CloseLost \/ Store!CloseSaved
<1>1. files' = files /\ selected' = NoNamespace /\ images' = <<>>
  BY DEF ProcessGone, durable
<1>2. files \in [Namespace -> Nat]
  BY DEF StorageInv, TypeOK
<1>3. \A n \in Namespace : Newest(n)' = files[n]
  BY <1>1, EmptyList DEF Newest, ReadBack
<1>4. newest' = files
  BY <1>2, <1>3 DEF newest
<1>5. CASE ProcessGone("lost")
  BY <1>1, <1>4, <1>5 DEF ProcessGone, Store!CloseLost, openState, Closed
<1>6. CASE /\ ProcessGone("saved") /\ main = "retry"
           /\ cursor > Len(images) /\ allSaved
  <2>1. \A n \in Namespace : files[n] = Newest(n)
    BY <1>6, AllSavedDurable
  <2>2. newest = files
    BY <1>2, <2>1 DEF newest
  <2> QED
    BY <1>1, <1>4, <1>6, <2>2 DEF ProcessGone, Store!CloseSaved, openState, Closed
<1> QED
  BY <1>5, <1>6

LEMMA StoreInit == Init => Store!Init
<1> SUFFICES ASSUME Init PROVE Store!Init
  OBVIOUS
<1>1. \A n \in Namespace : Newest(n) = files[n]
  BY EmptyList DEF Init, Newest, ReadBack
<1>2. newest = files
  BY <1>1 DEF newest, Init
<1> QED
  BY <1>2 DEF Init, Store!Init, openState, Closed

LEMMA OpenStep == StorageInv /\ PrepareStorage => Store!Open
<1> SUFFICES ASSUME StorageInv, PrepareStorage PROVE Store!Open
  OBVIOUS
<1> USE DEF StorageInv
<1>1. images = <<>> /\ images' = <<>> /\ selected = NoNamespace /\ files' = files
  BY DEF PrepareStorage, ShutdownPlace, queue, durable
<1>2. \A n \in Namespace : ReadBack(n) = files[n] /\ ReadBack(n)' = files[n]
  BY <1>1, EmptyList DEF ReadBack
<1>3. \A n \in Namespace : Newest(n)' = Newest(n)
  BY <1>1, <1>2 DEF PrepareStorage, Newest
<1>4. newest' = newest
  BY <1>3, MemSame
<1> QED
  BY <1>1, <1>4 DEF PrepareStorage, Store!Open, openState, Closed

LEMMA EditStep ==
  ASSUME StorageInv, GuestWrite
  PROVE  [Store!Next]_(Store!vars)
<1> USE DEF StorageInv
<1>0. /\ UNCHANGED <<files, selected, images, main>> /\ main = "running"
      /\ sram' = stamp + 1 /\ stamp \in Nat /\ sram \in Nat /\ sram <= stamp
  BY DEF GuestWrite, durable, queue, TypeOK, Stamped
<1>1. \A n \in Namespace : ReadBack(n)' = ReadBack(n)
  BY <1>0 DEF ReadBack, IsLatest, Superseded
<1>2. CASE selected \in Namespace
  <2>1. newest'[selected] > newest[selected]
    BY <1>0, <1>2 DEF newest, Newest
  <2>2. newest' = [newest EXCEPT ![selected] = newest'[selected]]
    BY <1>0, <1>1 DEF newest, Newest
  <2>3. Store!Edit
    BY <1>0, <1>2, <2>1, <2>2 DEF Store!Edit, openState, Closed
  <2> QED
    BY <2>3 DEF Store!Next
<1>3. CASE selected \notin Namespace
  <2>1. \A n \in Namespace : Newest(n)' = Newest(n)
    BY <1>0, <1>1, <1>3 DEF Newest
  <2> QED
    BY <1>0, <2>1, MemSame, StutterStep DEF Closed
<1> QED
  BY <1>2, <1>3

(* Every step of the storage is a step of SaveStore or a stutter.          *)
LEMMA StoreNext ==
  ASSUME StorageInv, [Next]_vars
  PROVE  [Store!Next]_(Store!vars)
<1> USE DEF StorageInv
<1> DEFINE Quiet == UNCHANGED <<files, selected, sram, images>>
                    /\ main \notin Closed /\ main' \notin Closed
<1>q. Quiet => [Store!Next]_(Store!vars)
  BY NewestSame, MemSame, StutterStep
<1>1. CASE PrepareStorage
  BY <1>1, OpenStep DEF Store!Next
<1>2. CASE GuestWrite
  BY <1>2, EditStep
<1>3. ASSUME NEW n \in Namespace, Choose(n) PROVE [Store!Next]_(Store!vars)
  BY <1>3, SelectStep
<1>4. ASSUME NEW n \in Namespace, ChooseRejected(n) PROVE [Store!Next]_(Store!vars)
  <2>1. Quiet
    BY <1>4 DEF ChooseRejected, QueueRejected, durable, queue, Closed
  <2> QED
    BY <1>q, <2>1
<1>5. CASE WorkerTake \/ SpuriousWake
  <2>1. Quiet
    BY <1>5 DEF WorkerTake, SpuriousWake, durable, queue, WorkerPlace
  <2> QED
    BY <1>q, <2>1
<1>6. ASSUME NEW ok \in BOOLEAN, WorkerWrite(ok) PROVE [Store!Next]_(Store!vars)
  <2>1. /\ current \in DOMAIN images /\ main \notin Closed /\ WriteImage(current, ok)
        /\ UNCHANGED <<selected, sram, main>>
    BY <1>6, ListTypes DEF WorkerWrite, WorkerPlace, TypeOK
  <2>2. PICK k \in DOMAIN images : k = current
    BY <2>1
  <2>3. \A n \in Namespace : files[n] <= files'[n]
    BY <1>6, WorkerWriteInv
  <2> QED
    BY <2>1, <2>2, <2>3, PublishStep
<1>7. CASE Shutdown \/ StopWorker \/ Dialog
  <2>1. Quiet
    BY <1>7 DEF Shutdown, StopWorker, Dialog, durable, queue, Closed
  <2> QED
    BY <1>q, <2>1
<1>8. CASE ShutdownCapture
  <2>0. /\ UNCHANGED <<files, selected, sram>>
        /\ main = "capture" /\ main' \in {"stop", "dialog"}
    BY <1>8 DEF ShutdownCapture, durable
  <2>1. CASE images' = images
    BY <1>q, <2>0, <2>1 DEF Closed
  <2>2. CASE images' # images
    <3>1. QueueStorage /\ selected \in Namespace
      BY <1>8, <2>2 DEF ShutdownCapture, QueueRejected, queue, ShutdownPlace
    <3>2. \A n \in Namespace : ReadBack(n)' = IF n = selected THEN sram ELSE ReadBack(n)
      BY <2>0, <3>1, NewestQueue
    <3>3. \A n \in Namespace : Newest(n)' = Newest(n)
      BY <2>0, <3>2 DEF Newest
    <3> QED
      BY <2>0, <3>3, MemSame, StutterStep DEF Closed
  <2> QED
    BY <2>1, <2>2
<1>9. CASE NoWorker \/ Join
  <2>1. CASE BeginRetry /\ main \in {"stop", "join"}
    <3>1. Quiet
      BY <2>1 DEF BeginRetry, durable, queue, Closed
    <3> QED
      BY <1>q, <3>1
  <2>2. CASE ProcessGone("lost") /\ main \in {"quit", "quitjoin"}
    BY <2>2, CloseStep DEF Store!Next, Closed
  <2> QED
    BY <1>9, <2>1, <2>2 DEF NoWorker, Join
<1>10. ASSUME NEW ok \in BOOLEAN, RetryImage(ok) PROVE [Store!Next]_(Store!vars)
  <2>0. /\ cursor \in DOMAIN images /\ main \notin Closed /\ main' = main
        /\ UNCHANGED <<selected, sram>>
    BY <1>10, ListTypes DEF RetryImage, TypeOK, Closed
  <2>1. CASE UNCHANGED <<files, images>>
    BY <1>q, <2>0, <2>1
  <2>2. CASE WriteImage(cursor, ok)
    <3>1. PICK k \in DOMAIN images : k = cursor
      BY <2>0
    <3>2. \A n \in Namespace : files[n] <= files'[n]
      BY <1>10, RetryImageInv
    <3> QED
      BY <2>0, <2>2, <3>1, <3>2, PublishStep
  <2> QED
    BY <1>10, <2>1, <2>2 DEF RetryImage
<1>11. CASE RetryDone
  <2>1. CASE allSaved /\ ProcessGone("saved")
    BY <1>11, <2>1, CloseStep DEF RetryDone, Store!Next, Closed
  <2>2. CASE main' = "dialog" /\ UNCHANGED <<durable, selected, sram, queue>>
    <3>1. Quiet
      BY <1>11, <2>2 DEF RetryDone, durable, queue, Closed
    <3> QED
      BY <1>q, <3>1
  <2> QED
    BY <1>11, <2>1, <2>2 DEF RetryDone
<1>12. CASE Crash
  BY <1>12, CloseStep DEF Crash, Store!Next
<1>13. CASE UNCHANGED vars
  <2>1. UNCHANGED <<files, selected, sram, images, main>>
    BY <1>13 DEF vars, durable, queue
  <2>2. newest' = newest /\ openState' = openState
    BY <2>1, NewestSame, MemSame DEF openState
  <2> QED
    BY <2>1, <2>2 DEF Store!vars
<1> QED
  BY <1>1, <1>2, <1>3, <1>4, <1>5, <1>6, <1>7, <1>8, <1>9, <1>10, <1>11, <1>12, <1>13
     DEF Next

(* The worker, the retained list, namespace switching and the shutdown     *)
(* loop together implement SaveStore: no step of any of them loses or      *)
(* resurrects the contents of a save, whatever the interleaving.           *)
THEOREM StorageImplementsSaveStore == Spec => StoreSpec
<1>1. Init => Store!Init
  BY StoreInit
<1>2. StorageInv /\ [Next]_vars => [Store!Next]_(Store!vars)
  BY StoreNext
<1> QED
  BY <1>1, <1>2, StorageInvariant, PTL DEF Spec, StoreSpec, Store!Spec

-----------------------------------------------------------------------------
HIDE StorageAssumption

(* The sound chip.  Each thread's place says how often it holds the mutex: *)
(* the guest as often as it has locked, the callback by where it is.       *)

Lockers == Chip!Threads

AudioHolds == IF pc["audio"] \in {"counted", "rendering"} THEN 1 ELSE 0

SoundTypes ==
  /\ pc \in [Lockers -> {"idle", "frame", "delay", "counted", "render", "rendering", "copy"}]
  /\ mutex \in [by : Lockers \cup {"none"}, times : Nat]
  /\ depth \in [Lockers -> Nat]
  /\ producer \in [Lockers -> BOOLEAN] /\ stalled \in [Lockers -> BOOLEAN]
  /\ counted \in BOOLEAN /\ missed \in Nat

(* Who holds the mutex, and how often.                                     *)
MutexCounts ==
  /\ mutex.by = "guest" => mutex.times = depth["guest"] /\ depth["guest"] > 0
  /\ mutex.by # "guest" => depth["guest"] = 0
  /\ mutex.by = "audio" <=> AudioHolds = 1
  /\ mutex.by = "audio" => mutex.times = 1
  /\ mutex.by = "none" => mutex.times = 0

(* Where each thread may be, and what it has locked there.                 *)
ThreadPlaces ==
  /\ pc["guest"] \in {"idle", "frame", "delay"}
  /\ pc["audio"] \in {"idle", "counted", "render", "rendering", "copy"}
  /\ pc["guest"] # "frame" => depth["guest"] = 0
  /\ depth["audio"] = IF pc["audio"] = "rendering" THEN 1 ELSE 0
  /\ ~producer["audio"]

(* A wait that was given up is remembered until the next callback.         *)
LossRemembered ==
  missed = 0 \/ (missed = 1 /\ stalled["guest"] /\ ~counted /\ pc["guest"] # "delay")

SoundInv == SoundTypes /\ MutexCounts /\ ThreadPlaces /\ LossRemembered

LEMMA SoundStarts == Chip!Init => SoundInv
<1> SUFFICES ASSUME Chip!Init PROVE SoundInv
  OBVIOUS
<1> USE DEF Chip!Init, Chip!Threads, Lockers
<1>1. mutex = [by |-> "none", times |-> 0]
  BY DEF Chip!Free
<1>2. SoundTypes
  <2>1. /\ producer \in [Lockers -> BOOLEAN] /\ stalled \in [Lockers -> BOOLEAN]
        /\ counted \in BOOLEAN
    OBVIOUS
  <2> QED BY <1>1, <2>1 DEF SoundTypes
<1>3. MutexCounts /\ ThreadPlaces /\ LossRemembered
  BY <1>1 DEF MutexCounts, ThreadPlaces, LossRemembered, AudioHolds
<1> QED BY <1>2, <1>3 DEF SoundInv

LEMMA SoundStep == SoundInv /\ [Chip!Next]_(Chip!vars) => SoundInv'
<1> SUFFICES ASSUME SoundInv, [Chip!Next]_(Chip!vars) PROVE SoundInv'
  OBVIOUS
<1> USE DEF SoundInv, SoundTypes, MutexCounts, ThreadPlaces, LossRemembered,
            Lockers, AudioHolds, Chip!Threads
<1>1. CASE Chip!FrameStarts
  BY <1>1 DEF Chip!FrameStarts
<1>2. CASE Chip!FrameEnds
  BY <1>2 DEF Chip!FrameEnds
<1>3. CASE Chip!GuestLocks
  BY <1>3 DEF Chip!GuestLocks, Chip!RtlApuLock, Chip!CanLock, Chip!Held
<1>4. CASE Chip!GuestProduces
  BY <1>4 DEF Chip!GuestProduces
<1>5. CASE Chip!GuestUnlocks
  <2> USE DEF Chip!GuestUnlocks, Chip!RtlApuUnlock
  <2>1. mutex' = IF mutex.times = 1 THEN [by |-> "none", times |-> 0]
                 ELSE [mutex EXCEPT !.times = @ - 1]
    BY <1>5 DEF Chip!Let, Chip!Free
  <2>2. stalled' \in [Lockers -> BOOLEAN]
    BY <1>5 DEF Chip!StallAfter
  <2>3. SoundTypes'
    BY <1>5, <2>1, <2>2
  <2>4. MutexCounts' /\ ThreadPlaces'
    BY <1>5, <2>1 DEF Chip!MayWait
  <2>5. LossRemembered'
    <3>1. CASE missed = 0
      BY <1>5, <3>1
    <3>2. CASE missed = 1 /\ stalled["guest"] /\ ~counted /\ pc["guest"] # "delay"
      <4>1. ~Chip!MayWait("guest") /\ Chip!StallAfter("guest")
        BY <3>2 DEF Chip!MayWait, Chip!StallAfter
      <4>2. stalled'["guest"] = TRUE
        BY <1>5, <4>1
      <4> QED BY <1>5, <3>2, <4>1, <4>2
    <3> QED BY <3>1, <3>2
  <2> QED BY <2>3, <2>4, <2>5
<1>6. CASE Chip!GuestWakes
  <2> USE DEF Chip!GuestWakes, Chip!Wake, Chip!GivesUp, Chip!CanLock
  <2>1. missed = 0 /\ depth["guest"] = 0 /\ UNCHANGED <<mutex, depth>>
    BY <1>6
  <2>2. CASE late
    <3>1. /\ pc' = [pc EXCEPT !["guest"] = "frame"]
          /\ stalled' = [stalled EXCEPT !["guest"] = TRUE]
          /\ producer' = [producer EXCEPT !["guest"] = FALSE]
          /\ counted' = FALSE /\ missed' = 1
      BY <1>6, <2>1, <2>2
    <3>2. stalled'["guest"] /\ stalled' \in [Lockers -> BOOLEAN]
      BY <3>1
    <3> QED BY <2>1, <3>1, <3>2
  <2>3. CASE ~late
    <3>1. /\ UNCHANGED <<stalled, producer, counted, missed>>
          /\ \E to \in {"delay", "frame"} : pc' = [pc EXCEPT !["guest"] = to]
      BY <1>6, <2>3
    <3> QED BY <2>1, <3>1
  <2> QED BY <2>2, <2>3
<1>7. CASE Chip!CallbackStarts
  BY <1>7 DEF Chip!CallbackStarts, Chip!CanLock, Chip!Held
<1>8. CASE Chip!CallbackLetsGo
  BY <1>8 DEF Chip!CallbackLetsGo, Chip!Let, Chip!Free
<1>9. CASE Chip!CallbackRenders
  BY <1>9 DEF Chip!CallbackRenders, Chip!RtlApuLock, Chip!CanLock, Chip!Held
<1>10. CASE Chip!CallbackRendered
  BY <1>10 DEF Chip!CallbackRendered, Chip!RtlApuUnlock, Chip!MayWait, Chip!StallAfter,
               Chip!Let, Chip!Free
<1>11. CASE Chip!CallbackEnds
  BY <1>11 DEF Chip!CallbackEnds
<1>12. CASE Chip!TimePasses
  BY <1>12 DEF Chip!TimePasses
<1>13. CASE Chip!DeviceLost
  BY <1>13 DEF Chip!DeviceLost
<1>14. CASE UNCHANGED Chip!vars
  BY <1>14 DEF Chip!vars
<1> QED BY <1>1, <1>2, <1>3, <1>4, <1>5, <1>6, <1>7, <1>8, <1>9, <1>10, <1>11, <1>12,
           <1>13, <1>14 DEF Chip!Next, Chip!Callback

(* Whoever waits for the callback holds nothing it needs, and a device     *)
(* that is gone costs one wait (RtlApuUnlock, main.c:590-641).             *)
THEOREM ConsumerIsFree == BenchSpec => []ConsumerMayRun
<1>1. BenchInit => SoundInv
  BY SoundStarts DEF BenchInit
<1>2. SoundInv /\ [BenchNext]_<<part, vars, loop, chip>> => SoundInv'
  <2>1. [BenchNext]_<<part, vars, loop, chip>> => [Chip!Next]_(Chip!vars)
    BY DEF BenchNext, chip, Chip!vars
  <2> QED BY <2>1, SoundStep
<1>3. SoundInv => ConsumerMayRun
  BY DEF SoundInv, SoundTypes, MutexCounts, ThreadPlaces, LossRemembered, Lockers, ConsumerMayRun,
         Chip!ConsumerMayRun, Chip!WaitsEmptyHanded, Chip!OneWaitPerLoss, Chip!Threads
<1> QED BY <1>1, <1>2, <1>3, PTL DEF BenchSpec

-----------------------------------------------------------------------------
(* The loop.  A match that was started and is still played is there at    *)
(* every place between the boot and the way out, not only at the frame;   *)
(* and only the place between a frame and its raster has a frame that the  *)
(* raster owes, which a frozen session does not have.                      *)

OutOfTheLoop == {"boot", "closing", "lobby", "done"}

LoopTypes ==
  /\ host \in [running : BOOLEAN, turbo : BOOLEAN, paused : BOOLEAN,
               autosave : BOOLEAN, frames : Nat]
  /\ net \in [link : {"off", "waiting", "running"}, pending : BOOLEAN,
              lobby : BOOLEAN, started : BOOLEAN, toLobby : BOOLEAN]
  /\ coop \in [on : BOOLEAN, count : {0, 1, 2}, choosing : BOOLEAN,
               files : BOOLEAN, frozen : BOOLEAN]
  /\ ghost \in [quit : BOOLEAN, ran : BOOLEAN]

MatchIsThere ==
  at \notin OutOfTheLoop /\ net.started /\ host.running => net.link # "off"

OwesARaster == ghost.ran => at = "raster" /\ ~coop.frozen

LoopInv == LoopTypes /\ MatchIsThere /\ OwesARaster

LEMMA LoopStarts == Loop!Init => LoopInv
<1> SUFFICES ASSUME Loop!Init PROVE LoopInv
  OBVIOUS
<1>1. LoopTypes
  BY DEF Loop!Init, LoopTypes
<1>2. MatchIsThere /\ OwesARaster
  BY DEF Loop!Init, MatchIsThere, OwesARaster, OutOfTheLoop
<1> QED BY <1>1, <1>2 DEF LoopInv

(* A match that was left is off, and it asks for nothing but the lobby.    *)
LEMMA LeftIsOff ==
  LoopTypes => /\ Loop!Left(net) \in [link : {"off", "waiting", "running"}, pending : BOOLEAN,
                                 lobby : BOOLEAN, started : BOOLEAN, toLobby : BOOLEAN]
               /\ Loop!Left(net).link = "off" /\ Loop!Left(net).started = net.started
  BY DEF LoopTypes, Loop!Left

(* What the thread itself does, between two looks at its events.           *)
LEMMA StepKeepsLoop ==
  ASSUME LoopInv, Loop!Step PROVE LoopInv'
<1> USE DEF LoopInv, LoopTypes, MatchIsThere, OwesARaster, OutOfTheLoop
<1>1. CASE Loop!EventsDone
  BY <1>1 DEF Loop!EventsDone
<1>2. CASE Loop!Inputs
  BY <1>2 DEF Loop!Inputs, Loop!Restored, Loop!Active
<1>3. CASE Loop!BarrierTimeout \/ Loop!BarrierPeerLost
  BY <1>3, LeftIsOff DEF Loop!BarrierTimeout, Loop!BarrierPeerLost, Loop!GiveUp
<1>4. CASE Loop!BarrierAdmits \/ Loop!BarrierTurn \/ Loop!BarrierAgain
  BY <1>4 DEF Loop!BarrierAdmits, Loop!BarrierTurn, Loop!BarrierAgain
<1>5. CASE Loop!Frame
  <2>1. CASE Loop!Frozen
    BY <1>5, <2>1 DEF Loop!Frame
  <2>2. CASE ~Loop!Frozen
    <3>1. ghost' = [ghost EXCEPT !.ran = TRUE] /\ at' = "raster" /\ UNCHANGED <<host, net>>
      BY <1>5, <2>2 DEF Loop!Frame, Loop!RunOneFrameOfGame
    <3>2. coop' \in [on : BOOLEAN, count : {0, 1, 2}, choosing : BOOLEAN,
                     files : BOOLEAN, frozen : BOOLEAN] /\ ~coop'.frozen
      <4>1. CASE coop' = [coop EXCEPT !.frozen = FALSE]
        BY <4>1
      <4>2. CASE coop' = [coop EXCEPT !.frozen = FALSE, !.choosing = TRUE]
        BY <4>2
      <4>3. CASE \E count \in {1, 2} :
                   coop' = [coop EXCEPT !.frozen = FALSE, !.choosing = FALSE,
                                        !.count = count, !.files = TRUE]
        BY <4>3
      <4> QED BY <1>5, <2>2, <4>1, <4>2, <4>3 DEF Loop!Frame, Loop!GuestMenu
    <3>3. LoopTypes'
      BY <3>1, <3>2
    <3>4. MatchIsThere'
      BY <3>1, <1>5 DEF Loop!Frame
    <3>5. OwesARaster'
      BY <3>1, <3>2
    <3> QED BY <3>3, <3>4, <3>5
  <2> QED BY <2>1, <2>2
<1>6. CASE Loop!Raster
  <2>1. /\ host' \in [running : BOOLEAN, turbo : BOOLEAN, paused : BOOLEAN,
                      autosave : BOOLEAN, frames : Nat]
        /\ host'.running = host.running
    <3>1. (host.frames + 1) % RenderEvery \in Nat
      BY RenderAssumption
    <3>2. Loop!Turbo \in BOOLEAN
      BY DEF Loop!Turbo
    <3>3. host' = [host EXCEPT !.turbo = Loop!Turbo, !.frames = (host.frames + 1) % RenderEvery]
      BY <1>6 DEF Loop!Raster
    <3> QED BY <3>1, <3>2, <3>3
  <2>2. ghost' \in [quit : BOOLEAN, ran : BOOLEAN] /\ ~ghost'.ran
    BY <1>6 DEF Loop!Raster, Loop!Rastered
  <2>3. at' = (IF host.running THEN "events" ELSE "closing") /\ UNCHANGED <<net, coop>>
        /\ at = "raster"
    BY <1>6 DEF Loop!Raster
  <2>4. MatchIsThere'
    BY <2>1, <2>3
  <2>5. LoopTypes' /\ OwesARaster'
    BY <2>1, <2>2, <2>3
  <2> QED BY <2>4, <2>5
<1>7. CASE Loop!Close
  <2> DEFINE back == net.lobby /\ ~net.toLobby
             due == net.pending /\ ~net.toLobby
             kept == net.started /\ ~(net.toLobby /\ net.lobby)
  <2>1. back \in BOOLEAN /\ due \in BOOLEAN /\ kept \in BOOLEAN
    OBVIOUS
  <2>2. net' = [net EXCEPT !.link = "off", !.toLobby = FALSE, !.lobby = back,
                           !.pending = due, !.started = kept]
    BY <1>7 DEF Loop!Close
  <2>3. at' \in OutOfTheLoop /\ ~ghost.ran /\ UNCHANGED <<host, coop, ghost>>
    BY <1>7 DEF Loop!Close
  <2> HIDE DEF back, due, kept
  <2>4. net' \in [link : {"off", "waiting", "running"}, pending : BOOLEAN,
                  lobby : BOOLEAN, started : BOOLEAN, toLobby : BOOLEAN]
    BY <2>1, <2>2
  <2>5. LoopTypes'
    BY <2>3, <2>4
  <2>6. MatchIsThere' /\ OwesARaster'
    BY <2>3
  <2> QED BY <2>5, <2>6
<1>8. ASSUME NEW starts \in BOOLEAN, Loop!Boot(starts) PROVE LoopInv'
  <2>1. /\ host' \in [running : BOOLEAN, turbo : BOOLEAN, paused : BOOLEAN,
                      autosave : BOOLEAN, frames : Nat]
        /\ UNCHANGED <<coop, ghost>> /\ ~ghost.ran
    <3> DEFINE runs == starts \/ ~net.pending
    <3>1. runs \in BOOLEAN
      OBVIOUS
    <3>2. host' = [host EXCEPT !.turbo = FALSE, !.paused = FALSE, !.frames = 0,
                               !.running = runs]
      BY <1>8 DEF Loop!Boot
    <3>3. UNCHANGED <<coop, ghost>> /\ ~ghost.ran
      BY <1>8 DEF Loop!Boot
    <3> HIDE DEF runs
    <3>4. host' \in [running : BOOLEAN, turbo : BOOLEAN, paused : BOOLEAN,
                     autosave : BOOLEAN, frames : Nat]
      BY <3>1, <3>2
    <3> QED BY <3>3, <3>4
  <2>2. CASE starts \/ ~net.pending
    <3>1. CASE net.pending
      <4>1. net' = [net EXCEPT !.link = "waiting", !.started = TRUE, !.pending = FALSE]
        BY <1>8, <2>2, <3>1 DEF Loop!Boot
      <4> QED BY <2>1, <4>1
    <3>2. CASE ~net.pending
      <4>1. net' = [net EXCEPT !.started = FALSE]
        BY <1>8, <3>2 DEF Loop!Boot
      <4> QED BY <2>1, <4>1
    <3> QED BY <3>1, <3>2
  <2>3. CASE ~starts /\ net.pending
    BY <1>8, <2>1, <2>3, LeftIsOff DEF Loop!Boot
  <2> QED BY <2>2, <2>3
<1> QED BY <1>1, <1>2, <1>3, <1>4, <1>5, <1>6, <1>7, <1>8 DEF Loop!Step

(* What the player asks for.                                               *)
LEMMA EventsKeepLoop ==
  ASSUME LoopInv, Loop!Events PROVE LoopInv'
<1> USE DEF LoopInv, LoopTypes, MatchIsThere, OwesARaster, OutOfTheLoop, Loop!AtEvents
<1>1. CASE Loop!Escape \/ Loop!Quit \/ Loop!BarrierLeave
  BY <1>1, LeftIsOff DEF Loop!Escape, Loop!Quit, Loop!BarrierLeave, Loop!Active
<1>2. CASE Loop!KeyPause \/ \E p \in BOOLEAN : Loop!KeyTurbo(p)
  BY <1>2 DEF Loop!KeyPause, Loop!KeyTurbo
<1>3. CASE Loop!KeyReset \/ Loop!KeyLoad
  BY <1>3 DEF Loop!KeyReset, Loop!KeyLoad, Loop!Restored
<1>4. CASE \E s \in Loop!Seats : Loop!PadEvent(s) \/ Loop!BarrierPad(s)
  BY <1>4 DEF Loop!PadEvent, Loop!BarrierPad, Loop!Plug
<1> QED BY <1>1, <1>2, <1>3, <1>4 DEF Loop!Events

LEMMA LoopStep ==
  ASSUME LoopInv, [Loop!Next]_(Loop!vars) PROVE LoopInv'
<1>1. CASE Loop!Outside
  BY <1>1 DEF LoopInv, LoopTypes, MatchIsThere, OwesARaster, OutOfTheLoop, Loop!Outside, Loop!Connect,
              Loop!PeerStops, Loop!PeerDiverges, Loop!PeerHeard, Loop!Rematch, Loop!LeaveLobby
<1>2. CASE Loop!Finished \/ UNCHANGED Loop!vars
  BY <1>2 DEF LoopInv, LoopTypes, MatchIsThere, OwesARaster, Loop!Finished, Loop!vars
<1> QED BY <1>1, <1>2, StepKeepsLoop, EventsKeepLoop DEF Loop!Next

(* No frame of a match runs on one side's input alone, and no frame goes   *)
(* without its raster (main.c:2092-2124, 2204-2301).                       *)
THEOREM FramesAreTheMatchs == BenchSpec => []FramesOfTheMatch
<1>1. BenchInit => LoopInv
  BY LoopStarts DEF BenchInit
<1>2. LoopInv /\ [BenchNext]_<<part, vars, loop, chip>> => LoopInv'
  <2>1. [BenchNext]_<<part, vars, loop, chip>> => [Loop!Next]_(Loop!vars)
    BY DEF BenchNext, loop, Loop!vars
  <2> QED BY <2>1, LoopStep
<1>3. LoopInv => FramesOfTheMatch
  BY DEF LoopInv, MatchIsThere, OwesARaster, OutOfTheLoop, FramesOfTheMatch,
         Loop!FramesOfTheMatch, Loop!Lockstep, Loop!EveryFrameRastered, Loop!Active
<1> QED BY <1>1, <1>2, <1>3, PTL DEF BenchSpec
=============================================================================
