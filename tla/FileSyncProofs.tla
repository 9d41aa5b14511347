--------------------------- MODULE FileSyncProofs ---------------------------
(***************************************************************************)
(* Proofs about FileSync, for any contents, any operations on the file and *)
(* any number of them.                                                     *)
(*                                                                         *)
(* Synced speaks of quiet states only.  It follows from an account, at     *)
(* every place runLoop can be, of what will make the strategy read a       *)
(* changed file again: an event under way, an entry in failedPaths, or the *)
(* watch that would produce such an event.                                 *)
(***************************************************************************)
EXTENDS FileSync, TLAPS

(* An event under way will start a resync.                                 *)
Rereads == {"write", "remove"}

EventComing ==
    \/ pending \in Rereads
    \/ \E i \in 1..Len(events) : events[i] \in Rereads

(* The watch on the file at the path ends with that file.                  *)
WatchInv == watch = "path" => file # Absent

(* What resync read is still what the file holds.                          *)
ReadIsCurrent == file # Absent /\ got = readConfigFile(file)

SelectInv ==
    loop = "select" =>
        /\ watcher = "added" => EventComing \/ failed \/ watch = "path"
        /\ watcher = "watching" =>
              \/ EventComing
              \/ failed
              \/ watch = "path" /\ value = readConfigFile(file)

ResyncInv ==
    /\ loop = "add" => ReadIsCurrent
    /\ loop = "set" => EventComing \/ (watch = "path" /\ ReadIsCurrent)

SyncInv == ~lost => SelectInv /\ ResyncInv

(* got holds a text where it is used.                                      *)
GotInv == loop \in {"add", "set"} => got \in Texts

IndInv == TypeOK /\ WatchInv /\ GotInv /\ SyncInv

-----------------------------------------------------------------------------

(* A queue that Watcher.Remove emptied is a queue.                         *)
LEMMA EmptyQueue == << >> \in Seq(EventKinds)
  OBVIOUS

(* Init: Watch has not been called.                                        *)
LEMMA InitInv == Init => IndInv
  <1> SUFFICES ASSUME Init PROVE IndInv
    OBVIOUS
  <1>1. TypeOK
    <2>1. ops \in 0..MaxOps
      BY MaxOpsAssumption DEF Init
    <2>2. events \in Seq(EventKinds)
      BY EmptyQueue DEF Init
    <2> QED
      BY <2>1, <2>2 DEF Init, TypeOK
  <1>2. WatchInv /\ GotInv /\ SyncInv
    BY DEF Init, WatchInv, GotInv, SyncInv, SelectInv, ResyncInv
  <1> QED
    BY <1>1, <1>2 DEF IndInv

(* A notification is in the queue after the ones before it, or is dropped. *)
LEMMA NotifyAppends ==
  ASSUME NEW e \in EventKinds, events \in Seq(EventKinds), Notify(e)
  PROVE  /\ events' \in Seq(EventKinds)
         /\ overflow' \in {overflow, TRUE}
         /\ \A i \in 1..Len(events) :
                i \in 1..Len(events') /\ events'[i] = events[i]
         /\ \/ \E i \in 1..Len(events') : events'[i] = e
            \/ ~Queued(e) /\ events' = events
  <1>1. CASE events' = events
    <2>1. Queued(e) => Len(events) \in 1..Len(events)
      BY DEF Queued
    <2> QED
      BY <1>1, <2>1 DEF Notify, Queued
  <1>2. CASE events' # events
    <2>1. events' = Append(events, e) /\ overflow' = overflow
      BY <1>2 DEF Notify
    <2>2. Len(events') = Len(events) + 1 /\ events'[Len(events) + 1] = e
      BY <2>1
    <2> QED
      BY <2>1, <2>2
  <1> QED
    BY <1>1, <1>2

(* An event that will start a resync stays under way when another one      *)
(* queues up, and when none does.                                          *)
LEMMA NotifyKeeps ==
  ASSUME NEW e \in EventKinds, TypeOK, Notify(e), pending' = pending
  PROVE  /\ events' \in Seq(EventKinds) /\ overflow' \in BOOLEAN
         /\ EventComing => EventComing'
         /\ e \in Rereads /\ watch = "path" => EventComing' \/ Dropped(e)
  <1>1. /\ events' \in Seq(EventKinds)
        /\ overflow' \in {overflow, TRUE}
        /\ \A i \in 1..Len(events) :
               i \in 1..Len(events') /\ events'[i] = events[i]
        /\ \/ \E i \in 1..Len(events') : events'[i] = e
           \/ ~Queued(e) /\ events' = events
    BY NotifyAppends DEF TypeOK
  <1>2. overflow' \in BOOLEAN
    BY <1>1 DEF TypeOK
  <1> QED
    BY <1>1, <1>2 DEF EventComing, Dropped

LEMMA NoNotifyKeeps ==
  ASSUME TypeOK, NoNotify, pending' = pending
  PROVE  /\ events' \in Seq(EventKinds) /\ overflow' \in BOOLEAN
         /\ EventComing => EventComing'
  BY DEF TypeOK, EventComing, NoNotify

-----------------------------------------------------------------------------

(* What every operation on the file has in common: each leaves an event,   *)
(* or is recorded as lost, or happens where a resync has yet to read the   *)
(* file.                                                                   *)
FileStep ==
    /\ file' \in Contents \cup {Absent} /\ ops' \in 0..MaxOps
    /\ watch' \in {"none", "path", "away"} /\ lost' \in BOOLEAN
    /\ UNCHANGED <<known, pending, watcher, value, loopVars>>
    /\ watch' = "path" => file' # Absent
    /\ events' \in Seq(EventKinds) /\ overflow' \in BOOLEAN
    /\ EventComing => EventComing'
    /\ lost => lost'
    /\ file' # file /\ Unnoticed => lost'
    /\ watch = "path" => \/ EventComing' \/ lost'
                         \/ file' = file /\ watch' = "path"

(* Such a step preserves the invariant.                                    *)
LEMMA FileStepInv ==
  ASSUME IndInv, FileStep
  PROVE  IndInv'
  <1> USE DEF IndInv, FileStep, loopVars
  <1>1. TypeOK'
    BY DEF TypeOK
  <1>2. WatchInv' /\ GotInv'
    BY DEF WatchInv, GotInv
  <1>3. SyncInv'
    <2> SUFFICES ASSUME ~lost' PROVE SelectInv' /\ ResyncInv'
      BY DEF SyncInv
    <2>1. SelectInv /\ ResyncInv
      BY DEF SyncInv, TypeOK
    <2>2. SelectInv'
      BY <2>1 DEF SelectInv
    <2>3. ResyncInv'
      BY <2>1 DEF ResyncInv, ReadIsCurrent, Unnoticed
    <2> QED
      BY <2>2, <2>3
  <1> QED
    BY <1>1, <1>2, <1>3

(* Writers of the file.                                                    *)
LEMMA FileNextInv == IndInv /\ FileNext => IndInv'
  <1> SUFFICES ASSUME IndInv, FileNext PROVE FileStep
    BY FileStepInv
  <1>t. TypeOK /\ WatchInv
    BY DEF IndInv
  <1>c. \A c \in Contents : c # Absent
    BY ContentsAssumption
  <1>o. ASSUME NEW name, FileOp(name)
        PROVE  /\ ops' \in 0..MaxOps
               /\ pending' = pending
               /\ UNCHANGED <<known, pending, watcher, value, loopVars>>
    BY <1>t, <1>o, MaxOpsAssumption DEF FileOp, TypeOK
  <1>n. ASSUME NEW e \in EventKinds, Notify(e), pending' = pending
        PROVE  /\ events' \in Seq(EventKinds) /\ overflow' \in BOOLEAN
               /\ EventComing => EventComing'
               /\ e \in Rereads /\ watch = "path"
                    => EventComing' \/ Dropped(e)
    BY <1>t, <1>n, NotifyKeeps
  <1>u. ASSUME NoNotify, pending' = pending
        PROVE  /\ events' \in Seq(EventKinds) /\ overflow' \in BOOLEAN
               /\ EventComing => EventComing'
    BY <1>t, <1>u, NoNotifyKeeps
  <1>k. {"write", "chmod", "remove", "rename"} = EventKinds
    BY DEF EventKinds
  <1>r. {"write", "remove"} = Rereads
    BY DEF Rereads
  <1>d. ASSUME DropFile, pending' = pending
        PROVE  /\ events' \in Seq(EventKinds) /\ overflow' \in BOOLEAN
               /\ EventComing => EventComing'
               /\ watch = "path" => EventComing' \/ Dropped("remove")
               /\ watch' \in {"none", "away"}
    BY <1>d, <1>n, <1>u, <1>k, <1>r, <1>t DEF DropFile, TypeOK
  <1>1. ASSUME NEW c \in Contents, WriteFile(c) PROVE FileStep
    <2>1. /\ events' \in Seq(EventKinds) /\ overflow' \in BOOLEAN
          /\ EventComing => EventComing'
          /\ watch = "path" => EventComing' \/ Dropped("write")
      BY <1>1, <1>o, <1>n, <1>u, <1>k, <1>r DEF WriteFile
    <2>2. Dropped("write") \in BOOLEAN
      BY DEF Dropped
    <2> QED
      BY <1>1, <1>o, <2>1, <2>2, <1>t, <1>c
         DEF WriteFile, FileStep, TypeOK, WatchInv, Unnoticed
  <1>2. ASSUME NEW c \in Contents, Create(c) PROVE FileStep
    BY <1>2, <1>o, <1>u, <1>t, <1>c
       DEF Create, FileStep, TypeOK, WatchInv, Unnoticed
  <1>3. ASSUME NEW c \in Contents, Replace(c) PROVE FileStep
    BY <1>3, <1>o, <1>d, <1>t, <1>c DEF Replace, FileStep, TypeOK, WatchInv
  <1>4. CASE Chmod
    BY <1>4, <1>o, <1>n, <1>k, <1>t, <1>c DEF Chmod, FileStep, TypeOK, WatchInv
  <1>5. CASE Unlink
    BY <1>5, <1>o, <1>d, <1>t, <1>c DEF Unlink, FileStep, TypeOK, WatchInv
  <1>6. CASE MoveAway
    <2>1. /\ events' \in Seq(EventKinds) /\ overflow' \in BOOLEAN
          /\ EventComing => EventComing'
      BY <1>6, <1>o, <1>n, <1>u, <1>k DEF MoveAway
    <2> QED
      BY <1>6, <1>o, <2>1, <1>t, <1>c DEF MoveAway, FileStep, TypeOK, WatchInv
  <1>7. CASE DeleteAway
    BY <1>7, <1>o, <1>n, <1>k, <1>t, <1>c
       DEF DeleteAway, FileStep, TypeOK, WatchInv
  <1> QED
    BY <1>1, <1>2, <1>3, <1>4, <1>5, <1>6, <1>7 DEF FileNext

-----------------------------------------------------------------------------

(* The library reads a notification: it is now the event under way.        *)
LEMMA FetchEventInv ==
  ASSUME IndInv, FetchEvent
  PROVE  IndInv'
  <1> USE DEF IndInv, FetchEvent, fsVars, loopVars
  <1>1. TypeOK'
    BY DEF TypeOK
  <1>2. WatchInv' /\ GotInv'
    BY DEF WatchInv, GotInv
  <1>3. EventComing => EventComing'
    <2> SUFFICES ASSUME EventComing PROVE EventComing'
      OBVIOUS
    <2>1. pending \notin Rereads
      BY NoneAssumption DEF Rereads, EventKinds
    <2>2. PICK i \in 1..Len(events) : events[i] \in Rereads
      BY <2>1 DEF EventComing
    <2>3. CASE i = 1
      BY <2>2, <2>3 DEF EventComing, TypeOK
    <2>4. CASE i # 1
      <3>1. /\ i - 1 \in 1..Len(events')
            /\ events'[i - 1] = events[i]
        BY <2>4 DEF TypeOK
      <3> QED
        BY <2>2, <3>1 DEF EventComing
    <2> QED
      BY <2>3, <2>4
  <1>4. SyncInv'
    BY <1>3 DEF SyncInv, SelectInv, ResyncInv, ReadIsCurrent
  <1> QED
    BY <1>1, <1>2, <1>3, <1>4

(* The library reads the notice of an overflow.                            *)
LEMMA FetchOverflowInv ==
  ASSUME IndInv, FetchOverflow
  PROVE  IndInv'
  <1> USE DEF IndInv, FetchOverflow, fsVars, loopVars
  <1>1. TypeOK'
    BY DEF TypeOK
  <1>2. WatchInv' /\ GotInv'
    BY DEF WatchInv, GotInv
  <1>3. EventComing => EventComing'
    BY NoneAssumption DEF EventComing, Rereads, EventKinds
  <1>4. SyncInv'
    BY <1>3 DEF SyncInv, SelectInv, ResyncInv, ReadIsCurrent
  <1> QED
    BY <1>1, <1>2, <1>4

(* Watch adds the path before it reads the file.                           *)
LEMMA WatchAddInv ==
  ASSUME IndInv, WatchAdd
  PROVE  IndInv'
  <1> USE DEF IndInv, WatchAdd, LibAdd, fsVars, libVars
  <1>1. TypeOK'
    BY DEF TypeOK
  <1>2. WatchInv' /\ GotInv'
    BY DEF WatchInv, GotInv
  <1>3. EventComing' <=> EventComing
    BY DEF EventComing
  <1>4. SyncInv'
    BY <1>3 DEF SyncInv, SelectInv, ResyncInv, ReadIsCurrent
  <1> QED
    BY <1>1, <1>2, <1>4

(* Watch reads the file, or gives up and removes the watch.                *)
LEMMA WatchReadInv ==
  ASSUME IndInv, WatchRead
  PROVE  IndInv'
  <1> USE DEF IndInv, WatchRead, LibRemove, fsVars, libVars, loopVars
  <1>1. TypeOK'
    <2>1. file # Absent => readConfigFile(file) \in Texts \ {None}
      BY NoneAssumption DEF TypeOK, Texts
    <2>2. events' \in Seq(EventKinds)
      BY EmptyQueue DEF TypeOK
    <2> QED
      BY <2>1, <2>2 DEF TypeOK
  <1>2. WatchInv' /\ GotInv'
    BY DEF WatchInv, GotInv
  <1>3. CASE file = Absent
    BY <1>1, <1>2, <1>3
       DEF SyncInv, SelectInv, ResyncInv, ReadIsCurrent, TypeOK
  <1>4. CASE file # Absent
    <2>1. EventComing' <=> EventComing
      BY <1>4 DEF EventComing
    <2>2. SyncInv'
      BY <1>4, <2>1 DEF SyncInv, SelectInv, ResyncInv, ReadIsCurrent
    <2> QED
      BY <1>1, <1>2, <2>2
  <1> QED
    BY <1>3, <1>4

-----------------------------------------------------------------------------

(* runLoop takes an event.                                                 *)
LEMMA GotEventInv ==
  ASSUME IndInv, GotEvent
  PROVE  IndInv'
  <1> USE DEF IndInv, GotEvent, fsVars
  <1>1. TypeOK'
    BY DEF TypeOK
  <1>2. WatchInv' /\ GotInv'
    BY DEF WatchInv, GotInv
  <1>3. pending \notin Rereads => (EventComing => EventComing')
    BY DEF EventComing
  <1>4. SyncInv'
    BY <1>3 DEF SyncInv, SelectInv, ResyncInv, Rereads
  <1> QED
    BY <1>1, <1>2, <1>4

(* runLoop takes an error.                                                 *)
LEMMA GotErrorInv ==
  ASSUME IndInv, GotError
  PROVE  IndInv'
  <1> USE DEF IndInv, GotError, fsVars, loopVars
  <1>1. TypeOK'
    BY DEF TypeOK
  <1>2. WatchInv' /\ GotInv'
    BY DEF WatchInv, GotInv
  <1>3. EventComing => EventComing'
    BY DEF EventComing, Rereads, ErrEventOverflow
  <1>4. SyncInv'
    BY <1>3 DEF SyncInv, SelectInv, ResyncInv, ReadIsCurrent
  <1> QED
    BY <1>1, <1>2, <1>4

(* runLoop's timeout.                                                      *)
LEMMA TimeoutInv ==
  ASSUME IndInv, Timeout
  PROVE  IndInv'
  BY DEF IndInv, Timeout, fsVars, libVars, TypeOK, WatchInv, GotInv, SyncInv,
         SelectInv, ResyncInv

(* resync removes the watch; from here to the read nothing can be missed.  *)
LEMMA ResyncRemoveInv ==
  ASSUME IndInv, ResyncRemove
  PROVE  IndInv'
  <1> USE DEF IndInv, ResyncRemove, ResyncFailed, LibRemove, fsVars
  <1>1. TypeOK'
    <2>1. events' \in Seq(EventKinds)
      BY EmptyQueue DEF TypeOK
    <2> QED
      BY <2>1 DEF TypeOK
  <1>2. WatchInv' /\ GotInv'
    BY DEF WatchInv, GotInv
  <1>3. SyncInv'
    BY DEF SyncInv, SelectInv, ResyncInv
  <1> QED
    BY <1>1, <1>2, <1>3

(* resync reads the file, which clears the account.                        *)
LEMMA ResyncReadInv ==
  ASSUME IndInv, ResyncRead
  PROVE  IndInv'
  <1> USE DEF IndInv, ResyncRead, ResyncFailed, fsVars, libVars
  <1>1. TypeOK'
    BY DEF TypeOK, Texts
  <1>2. WatchInv' /\ GotInv'
    BY DEF WatchInv, GotInv, Texts, TypeOK
  <1>3. SyncInv'
    BY DEF SyncInv, SelectInv, ResyncInv, ReadIsCurrent
  <1> QED
    BY <1>1, <1>2, <1>3

(* resync adds the watch: what it read is current unless the gap was hit.  *)
LEMMA ResyncAddInv ==
  ASSUME IndInv, ResyncAdd
  PROVE  IndInv'
  <1> USE DEF IndInv, ResyncAdd, ResyncFailed, LibAdd, fsVars, libVars
  <1>1. TypeOK'
    BY DEF TypeOK
  <1>2. WatchInv' /\ GotInv'
    BY DEF WatchInv, GotInv
  <1>3. SyncInv'
    BY DEF SyncInv, SelectInv, ResyncInv, ReadIsCurrent
  <1> QED
    BY <1>1, <1>2, <1>3

(* setVal: the value is what resync read.                                  *)
LEMMA setValInv ==
  ASSUME IndInv, setVal
  PROVE  IndInv'
  <1> USE DEF IndInv, setVal, fsVars, libVars
  <1>1. TypeOK'
    BY NoneAssumption DEF TypeOK, GotInv
  <1>2. WatchInv' /\ GotInv'
    BY DEF WatchInv, GotInv
  <1>3. EventComing' <=> EventComing
    BY DEF EventComing
  <1>4. SyncInv'
    BY <1>3 DEF SyncInv, SelectInv, ResyncInv, ReadIsCurrent
  <1> QED
    BY <1>1, <1>2, <1>4

(* Nothing changes.                                                        *)
LEMMA StutterInv ==
  ASSUME IndInv, UNCHANGED vars
  PROVE  IndInv'
  <1> USE DEF IndInv, vars, fsVars, libVars, loopVars
  <1>1. EventComing' <=> EventComing
    BY DEF EventComing
  <1>2. TypeOK' /\ WatchInv' /\ GotInv'
    BY DEF TypeOK, WatchInv, GotInv
  <1>3. SyncInv'
    BY <1>1 DEF SyncInv, SelectInv, ResyncInv, ReadIsCurrent
  <1> QED
    BY <1>2, <1>3

-----------------------------------------------------------------------------

(* Every step preserves the invariant.                                     *)
LEMMA NextInv == IndInv /\ [Next]_vars => IndInv'
  <1> SUFFICES ASSUME IndInv, [Next]_vars PROVE IndInv'
    OBVIOUS
  <1>1. CASE FileNext
    BY <1>1, FileNextInv
  <1>2. CASE LibNext \/ WatchAdd \/ WatchRead
    BY <1>2, FetchEventInv, FetchOverflowInv, WatchAddInv, WatchReadInv
       DEF LibNext
  <1>3. CASE LoopNext
    BY <1>3, GotEventInv, GotErrorInv, TimeoutInv, ResyncRemoveInv,
       ResyncReadInv, ResyncAddInv, setValInv DEF LoopNext
  <1>4. CASE UNCHANGED vars
    BY <1>4, StutterInv
  <1> QED
    BY <1>1, <1>2, <1>3, <1>4 DEF Next

(* The inductive invariant holds in every reachable state.                 *)
LEMMA IndInvHolds == Spec => []IndInv
  BY InitInv, NextInv, PTL DEF Spec

(* The strategy has a value exactly for the path it watches: setVal never  *)
(* touches a path that is not in s.paths (filewatcher.go 139-142).         *)
THEOREM TypeCorrect == Spec => []TypeOK
  <1>1. IndInv => TypeOK
    BY DEF IndInv
  <1> QED
    BY <1>1, IndInvHolds, PTL

(* A quiet strategy that met none of the gaps has the file's content and a *)
(* watch on the file, for any contents and any number of operations        *)
(* (filewatcher.go 73-153).                                                *)
THEOREM StaysSynced == Spec => []Synced
  <1>1. IndInv => Synced
    <2> SUFFICES ASSUME IndInv, Quiet, ~lost
                 PROVE  /\ file # Absent
                        /\ value = readConfigFile(file)
                        /\ watch = "path"
      BY DEF Synced
    <2>1. ~EventComing
      BY NoneAssumption DEF EventComing, Quiet, Rereads, EventKinds
    <2> QED
      BY <2>1 DEF IndInv, SyncInv, SelectInv, WatchInv, Quiet
  <1> QED
    BY <1>1, IndInvHolds, PTL

=============================================================================
