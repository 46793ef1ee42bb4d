----------------------------- MODULE CoopStorage -----------------------------
(***************************************************************************)
(* Asynchronous save storage of the native co-op mode:                     *)
(*   src/mods/coop/coop_storage.c   the retained images, the worker thread *)
(*                                  and the shutdown loop                  *)
(*   src/mods/coop/coop_runtime.c   choosing a save namespace              *)
(*                                                                         *)
(* Two threads share the retained list under one mutex.  A critical        *)
(* section contains no blocking call, so it is one step; the worker's file *)
(* write happens with the mutex released and is a step of its own.  The    *)
(* main thread is a program counter because shutdown blocks in             *)
(* SDL_WaitThread and in a message box.                                    *)
(*                                                                         *)
(* Save contents are the stamp of the guest write that produced them (see  *)
(* SaveStore).  RtlWriteSramImage replaces a file atomically or leaves it  *)
(* alone (its temporary-file and rename protocol is the framework's).      *)
(***************************************************************************)
EXTENDS Naturals, Sequences

CONSTANTS
  Namespace,    \* one save root per player count
  NoNamespace,  \* selected_count = 0
  Solo,         \* the namespace whose selection allocates no roster
  MaxStamp,     \* bound: guest writes in a behaviour
  MaxImages     \* bound: images retained by one process

ASSUME StorageAssumption ==
  /\ NoNamespace \notin Namespace
  /\ Solo \in Namespace
  /\ MaxStamp \in Nat
  /\ MaxImages \in Nat \ {0}

VARIABLES
  files,        \* the durable SRAM file of each namespace
  lastMode,     \* SELECTION_FILE: the remembered namespace
  selected,     \* selected_count, and with it the active save root
  sram,         \* g_sram, the live guest bytes
  images,       \* first..last: every image queued and not yet released
  pending,      \* index in images of the next one to write, 0 for NULL
  stopping,
  worker,       \* "absent", "ready", "waiting", "writing" or "done"
  current,      \* the worker's local `image`, while it writes
  main,         \* where the main thread is
  capture,      \* StorageShutdown's capture_current
  cursor,       \* FinishStorage's loop position
  allSaved,     \* FinishStorage's `ok`
  stamp         \* guest writes so far

durable == <<files, lastMode>>
queue   == <<images, pending>>
thread  == <<stopping, worker, current>>
finish  == <<capture, cursor, allSaved>>
vars    == <<durable, selected, sram, queue, thread, main, finish, stamp>>

Image == [path : Namespace, bytes : Nat, success : BOOLEAN]
Closed == {"saved", "lost"}   \* no process is running
MainAt == Closed \cup {"running", "capture", "stop", "join", "retry", "dialog",
                       "quit", "quitjoin"}

TypeOK ==
  /\ files \in [Namespace -> Nat]
  /\ lastMode \in Namespace \cup {NoNamespace}
  /\ selected \in Namespace \cup {NoNamespace}
  /\ sram \in Nat
  /\ images \in Seq(Image)
  /\ pending \in 0..Len(images)
  /\ stopping \in BOOLEAN
  /\ worker \in {"absent", "ready", "waiting", "writing", "done"}
  /\ current \in 0..Len(images)
  /\ main \in MainAt
  /\ capture \in BOOLEAN
  /\ cursor \in 1..(Len(images) + 1)
  /\ allSaved \in BOOLEAN
  /\ stamp \in Nat

Init ==
  /\ files = [n \in Namespace |-> 0]
  /\ lastMode = NoNamespace
  /\ selected = NoNamespace
  /\ sram = 0
  /\ images = <<>> /\ pending = 0
  /\ stopping = FALSE /\ worker = "absent" /\ current = 0
  /\ main = "lost"
  /\ capture = FALSE /\ cursor = 1 /\ allSaved = TRUE
  /\ stamp = 0

-----------------------------------------------------------------------------
(* Faulty: the signal is never sent.                                       *)
SignalledNobody(w) == w

(* SDL_CondSignal wakes a waiting thread and is lost on any other.         *)
Signalled(w) == IF w = "waiting" THEN "ready" ELSE w

(* `image` is followed in the list by an image of the same path.           *)
Superseded(i) == \E j \in (i + 1)..Len(images) : images[j].path = images[i].path

(* The newest retained image of a path.                                    *)
IsLatest(i, n) == i \in DOMAIN images /\ images[i].path = n /\ ~Superseded(i)

(* Faulty: the retained images are not consulted.                          *)
ReadBackFile(n) == files[n]

(* SmwCoopReadQueuedStorage, else RtlReadSram: what selecting n puts in    *)
(* the live SRAM.                                                          *)
ReadBack(n) ==
  IF \E i \in DOMAIN images : images[i].path = n
    THEN images[CHOOSE i \in DOMAIN images : IsLatest(i, n)].bytes
    ELSE files[n]

(* SmwCoopQueueStorage, accepted: copy the live bytes and the active path, *)
(* start the worker if there is none, append and signal.                   *)
QueueStorage ==
  /\ Len(images) < MaxImages
  /\ images' = Append(images, [path |-> selected, bytes |-> sram, success |-> FALSE])
  /\ pending' = IF pending = 0 THEN Len(images) + 1 ELSE pending
  /\ worker' = IF worker = "absent" THEN "ready" ELSE Signalled(worker)
  /\ stopping' = IF worker = "absent" THEN FALSE ELSE stopping
  /\ UNCHANGED current

(* SmwCoopQueueStorage, rejected: the copy could not be allocated, or      *)
(* start_worker got no thread after clearing `stopping`.                   *)
QueueRejected ==
  /\ \/ UNCHANGED stopping
     \/ worker = "absent" /\ stopping' = FALSE
  /\ UNCHANGED <<queue, worker, current>>

-----------------------------------------------------------------------------
(* Main thread, while the game runs.                                       *)

(* SmwCoopPrepareStorage at boot: resume the remembered namespace, unless  *)
(* none is readable or its roster cannot be allocated.                     *)
PrepareStorage ==
  /\ main \in Closed
  /\ main' = "running"
  /\ \/ /\ lastMode \in Namespace
        /\ selected' = lastMode /\ sram' = files[lastMode]
     \/ /\ lastMode # Solo
        /\ UNCHANGED <<selected, sram>>
  /\ UNCHANGED <<durable, queue, thread, finish, stamp>>

(* The guest changes its save RAM; loading a save state does too.          *)
GuestWrite ==
  /\ main = "running"
  /\ stamp < MaxStamp
  /\ stamp' = stamp + 1
  /\ sram' = stamp + 1
  /\ UNCHANGED <<durable, selected, queue, thread, main, finish>>

(* choose_storage(n, true).  Writing SELECTION_FILE may fail to open it,   *)
(* or truncate it and then fail; neither is reported.                      *)
Choose(n) ==
  /\ main = "running"
  /\ \/ /\ n = selected
        /\ UNCHANGED <<selected, sram, queue, thread>>
     \/ /\ n # selected
        /\ \/ selected = NoNamespace /\ UNCHANGED <<queue, thread>>
           \/ /\ selected # NoNamespace
              /\ Len(images) + 1 < MaxImages   \* keeps room for shutdown's own
              /\ QueueStorage
        /\ selected' = n
        /\ sram' = ReadBack(n)
  /\ lastMode' \in {lastMode, n, NoNamespace}
  /\ UNCHANGED <<files, main, finish, stamp>>

(* choose_storage(n, true) refused by the queue: everything stays.         *)
ChooseRejected(n) ==
  /\ main = "running"
  /\ selected # NoNamespace /\ n # selected
  /\ QueueRejected
  /\ UNCHANGED <<durable, selected, sram, main, finish, stamp>>

-----------------------------------------------------------------------------
(* The worker thread.                                                      *)

(* One pass through storage_worker's critical section.                     *)
WorkerTake ==
  /\ worker = "ready"
  /\ \/ /\ pending # 0
        /\ current' = pending
        /\ pending' = IF pending < Len(images) THEN pending + 1 ELSE 0
        /\ worker' = "writing"
     \/ /\ pending = 0
        /\ worker' = IF stopping THEN "done" ELSE "waiting"
        /\ UNCHANGED <<pending, current>>
  /\ UNCHANGED <<durable, selected, sram, images, stopping, main, finish, stamp>>

(* SDL_CondWait may return without a signal.                               *)
SpuriousWake ==
  /\ worker = "waiting"
  /\ worker' = "ready"
  /\ UNCHANGED <<durable, selected, sram, queue, stopping, current, main, finish, stamp>>

(* RtlWriteSramImage on image i: published, or failed leaving the file.    *)
WriteImage(i, ok) ==
  /\ files' = IF ok THEN [files EXCEPT ![images[i].path] = images[i].bytes] ELSE files
  /\ images' = [images EXCEPT ![i].success = ok]

(* The worker writes with the mutex released.                              *)
WorkerWrite(ok) ==
  /\ worker = "writing"
  /\ WriteImage(current, ok)
  /\ worker' = "ready"
  /\ current' = 0
  /\ UNCHANGED <<lastMode, selected, sram, pending, stopping, main, finish, stamp>>

-----------------------------------------------------------------------------
(* Main thread, in SmwCoopStorageShutdown.                                 *)

(* The call, after the game loop has ended.                                *)
Shutdown ==
  /\ main = "running"
  /\ main' = "capture"
  /\ capture' = (selected # NoNamespace)
  /\ UNCHANGED <<durable, selected, sram, queue, thread, cursor, allSaved, stamp>>

(* One attempt to queue the active namespace, unless that is done.         *)
ShutdownCapture ==
  /\ main = "capture"
  /\ \/ /\ ~capture
        /\ main' = "stop"
        /\ UNCHANGED <<queue, thread, capture>>
     \/ /\ capture
        /\ QueueStorage
        /\ main' = "stop" /\ capture' = FALSE
     \/ /\ capture
        /\ QueueRejected
        /\ main' = "dialog" /\ UNCHANGED capture
  /\ UNCHANGED <<durable, selected, sram, cursor, allSaved, stamp>>

(* The process is gone: only the files are left.                           *)
ProcessGone(how) ==
  /\ main' = how
  /\ selected' = NoNamespace /\ sram' = 0
  /\ images' = <<>> /\ pending' = 0
  /\ worker' = "absent" /\ stopping' = FALSE /\ current' = 0
  /\ capture' = FALSE /\ cursor' = 1 /\ allSaved' = TRUE
  /\ UNCHANGED <<durable, stamp>>

(* Faulty: `stopping` is set without a signal.                             *)
StopWorkerSilently ==
  /\ main \in {"stop", "quit"}
  /\ worker # "absent"
  /\ stopping' = TRUE
  /\ main' = IF main = "stop" THEN "join" ELSE "quitjoin"
  /\ UNCHANGED <<durable, selected, sram, queue, worker, current, finish, stamp>>

(* wait_worker up to SDL_WaitThread.                                       *)
StopWorker ==
  /\ main \in {"stop", "quit"}
  /\ worker # "absent"
  /\ stopping' = TRUE
  /\ worker' = Signalled(worker)
  /\ main' = IF main = "stop" THEN "join" ELSE "quitjoin"
  /\ UNCHANGED <<durable, selected, sram, queue, current, finish, stamp>>

(* FinishStorage's loop starts once there is no worker.                    *)
BeginRetry ==
  /\ main' = "retry"
  /\ cursor' = 1 /\ allSaved' = TRUE
  /\ UNCHANGED <<durable, selected, sram, queue, stopping, current, capture, stamp>>

NoWorker ==
  /\ worker = "absent"
  /\ \/ main = "stop" /\ BeginRetry /\ UNCHANGED worker
     \/ main = "quit" /\ ProcessGone("lost")

(* SDL_WaitThread returns; a quitting user's images are released.          *)
Join ==
  /\ worker = "done"
  /\ \/ main = "join" /\ BeginRetry /\ worker' = "absent"
     \/ main = "quitjoin" /\ ProcessGone("lost")

(* One image of FinishStorage's loop.                                      *)
RetryImage(ok) ==
  /\ main = "retry"
  /\ cursor <= Len(images)
  /\ cursor' = cursor + 1
  /\ \/ /\ Superseded(cursor) \/ images[cursor].success
        /\ UNCHANGED <<files, images, allSaved>>
     \/ /\ ~Superseded(cursor) /\ ~images[cursor].success
        /\ WriteImage(cursor, ok)
        /\ allSaved' = (allSaved /\ ok)
  /\ UNCHANGED <<lastMode, selected, sram, pending, thread, main, capture, stamp>>

(* The loop is over: release everything, or ask the user.                  *)
RetryDone ==
  /\ main = "retry"
  /\ cursor > Len(images)
  /\ \/ allSaved /\ ProcessGone("saved")
     \/ /\ ~allSaved /\ main' = "dialog"
        /\ UNCHANGED <<durable, selected, sram, queue, thread, finish, stamp>>

(* The message box: Retry, or Quit without saving.                         *)
Dialog ==
  /\ main = "dialog"
  /\ main' \in {"capture", "quit"}
  /\ UNCHANGED <<durable, selected, sram, queue, thread, finish, stamp>>

(* The process dies at any point, by a crash or by Die().                  *)
Crash ==
  /\ main \notin Closed
  /\ ProcessGone("lost")

Next ==
  \/ PrepareStorage
  \/ GuestWrite
  \/ \E n \in Namespace : Choose(n)
  \/ \E n \in Namespace : ChooseRejected(n)
  \/ WorkerTake
  \/ SpuriousWake
  \/ \E ok \in BOOLEAN : WorkerWrite(ok)
  \/ Shutdown
  \/ ShutdownCapture
  \/ StopWorker
  \/ NoWorker
  \/ Join
  \/ \E ok \in BOOLEAN : RetryImage(ok)
  \/ RetryDone
  \/ Dialog
  \/ Crash

Spec == Init /\ [][Next]_vars

(* The operating system schedules both threads and a write returns.  The   *)
(* player decides when to write, switch, quit and answer the dialog.       *)
Fairness ==
  /\ WF_vars(WorkerTake)
  /\ WF_vars(\E ok \in BOOLEAN : WorkerWrite(ok))
  /\ WF_vars(ShutdownCapture)
  /\ WF_vars(StopWorker)
  /\ WF_vars(NoWorker)
  /\ WF_vars(Join)
  /\ WF_vars((\E ok \in BOOLEAN : RetryImage(ok)) \/ RetryDone)

-----------------------------------------------------------------------------
(* What is to be shown.                                                    *)

(* The newest contents of a namespace that this process knows of: the live *)
(* bytes where the game is playing, else what selecting it would read.     *)
Newest(n) == IF n = selected THEN sram ELSE ReadBack(n)

(* What SaveStore's variables stand for.                                   *)
newest    == [n \in Namespace |-> Newest(n)]
openState == IF main \in Closed THEN main ELSE "open"

Store == INSTANCE SaveStore WITH
  active <- selected, mem <- newest, disk <- files, status <- openState

(* The whole component implements SaveStore: switching namespaces, queued, *)
(* running, failed and superseded writes never lose or resurrect contents. *)
StoreSpec == Store!Spec

(* SDL_CondSignal before SDL_CondWait is lost, so the worker must only go  *)
(* to sleep when it has seen that there is nothing to write and no request *)
(* to stop; otherwise an image waits for ever and SDL_WaitThread hangs.    *)
NoLostWakeup == worker = "waiting" => pending = 0 /\ ~stopping

(* "The worker changes success, which is inspected only after joining it": *)
(* while the main thread reads success and rewrites images in              *)
(* SmwCoopFinishStorage there is no worker, and the worker never outlives  *)
(* the list it walks.                                                      *)
JoinedBeforeInspection ==
  /\ main \in {"retry"} \cup Closed => worker = "absent"
  /\ worker = "writing" => current \in DOMAIN images

(* "obsolete failed images cannot overwrite a newer successful write": no  *)
(* worker write and no shutdown retry takes a file back to older contents. *)
FilesNeverRegress == [][\A n \in Namespace : files'[n] >= files[n]]_files

(* A shutdown that ends without asking the player has every namespace's    *)
(* newest contents on disk, including the active one.                      *)
SavedMeansDurable ==
  [][main' = "saved" => \A n \in Namespace : files[n] = Newest(n)]_main

(* Shutdown never hangs: it ends, or it shows the dialog.                  *)
ShutdownReachesUser == main = "capture" ~> main \in {"dialog"} \cup Closed

(* storage_worker skips no queued image and does not need the player to    *)
(* quit: each one is written, unless the process ends first.               *)
QueuedImagesReachTheWriter ==
  \A i \in 1..MaxImages :
    (pending \in 1..i /\ i <= Len(images)) ~> (current = i \/ main \in Closed)

(* Storage never stands still on its own: the two above.                   *)
StorageProgress == ShutdownReachesUser /\ QueuedImagesReachTheWriter

-----------------------------------------------------------------------------
(* The inductive invariant behind the safety properties.                   *)

(* Every stamp in the system is a guest write that has happened.           *)
Stamped ==
  /\ sram <= stamp
  /\ \A n \in Namespace : files[n] <= stamp
  /\ \A i \in DOMAIN images : images[i].bytes <= stamp

(* Images of one path are queued oldest first, and the last one is found.  *)
Ordered ==
  /\ \A i, j \in DOMAIN images :
       i < j /\ images[i].path = images[j].path => images[i].bytes <= images[j].bytes
  /\ \A i \in DOMAIN images :
       \E j \in DOMAIN images : i <= j /\ IsLatest(j, images[i].path)

(* Nothing retained or stored of the active namespace is newer than the    *)
(* live bytes.                                                             *)
LiveIsNewest ==
  selected \in Namespace =>
    /\ files[selected] <= sram
    /\ \A i \in DOMAIN images : images[i].path = selected => images[i].bytes <= sram

(* An image still to be written: taken by the worker or not yet taken.     *)
Unwritten(i) ==
  \/ worker = "writing" /\ i = current
  \/ pending # 0 /\ i >= pending

(* Files lie between the images that reached them and the images still to  *)
(* be written, of which the newest of a path may be one.                   *)
FilesBetween ==
  \A i \in DOMAIN images :
    /\ images[i].success => images[i].bytes <= files[images[i].path]
    /\ ~Superseded(i) \/ Unwritten(i) => files[images[i].path] <= images[i].bytes

(* The worker's position in the list and its life cycle.                   *)
WorkerPlace ==
  /\ worker = "writing" => current # 0 /\ (pending # 0 => current < pending)
  /\ worker = "waiting" => ~stopping
  /\ worker \in {"absent", "waiting", "done"} => pending = 0
  /\ worker = "done" => stopping
  /\ worker # "absent" /\ stopping => main \in {"join", "quitjoin"}
  /\ main \in {"join", "quitjoin"} => worker # "absent"
  /\ main \in {"retry"} \cup Closed => worker = "absent"

(* What shutdown has done so far.                                          *)
ShutdownPlace ==
  /\ main \in Closed => selected = NoNamespace /\ images = <<>> /\ sram = 0
  /\ capture => selected \in Namespace
  /\ main \in {"stop", "join", "retry"} => ~capture
  /\ main \in {"capture", "stop", "join", "retry", "dialog"} /\ ~capture
        /\ selected \in Namespace
      => \E i \in DOMAIN images : IsLatest(i, selected) /\ images[i].bytes = sram
  /\ main = "retry" /\ allSaved =>
       \A i \in 1..(cursor - 1) : i \in DOMAIN images =>
         Superseded(i) \/ images[i].success

StorageInv ==
  /\ TypeOK
  /\ Stamped
  /\ Ordered
  /\ LiveIsNewest
  /\ FilesBetween
  /\ WorkerPlace
  /\ ShutdownPlace
=============================================================================
