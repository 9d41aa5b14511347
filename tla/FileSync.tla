------------------------------ MODULE FileSync ------------------------------
(***************************************************************************)
(* How the fsnotify strategy keeps pathWatch.value equal to one            *)
(* configuration file (fsnotify/filewatcher.go: Watch, runLoop, resync,    *)
(* readConfigFile, setVal).                                                *)
(*                                                                         *)
(* Three parties run concurrently: whoever writes the file, the fsnotify   *)
(* library that turns kernel notifications into events, and the strategy.  *)
(* The first two are outside the repository; they are modelled from the    *)
(* calls the strategy makes of them and the events it handles.  A kernel   *)
(* watch belongs to a file, not to a name: it stays with a file that is    *)
(* renamed, and ends when its file is deleted.                             *)
(***************************************************************************)
EXTENDS Naturals, Sequences

CONSTANTS
    Contents,   \* what the file may hold, as pairs <<trimmed text, padded>>
    FileOps,    \* which operations on the file happen, see FileOpNames
    Overflows,  \* whether the kernel's queue may be full
    MaxOps,     \* bound on the number of operations on the file
    Absent,     \* there is no file
    None        \* no event, no value

FileOpNames == {"write", "chmod", "unlink", "create", "replace", "moveAway",
                "deleteAway"}

ASSUME ContentsAssumption == Absent \notin Contents
ASSUME FileOpsAssumption == FileOps \subseteq FileOpNames
ASSUME OverflowsAssumption == Overflows \in BOOLEAN
ASSUME MaxOpsAssumption == MaxOps \in Nat

VARIABLES
    \* the file system and the fsnotify library
    file,       \* content of the file at the path, or Absent
    ops,        \* number of operations on the file so far
    watch,      \* the kernel watch is on the file at the path, on a file
                \* moved away from it, or does not exist
    known,      \* the library lists a watch for the path
    events,     \* kernel notifications the library has not read
    overflow,   \* so many notifications came that the kernel dropped one
                \* and queued a notice of that instead
    pending,    \* the event or error the library is blocked sending
    \* Strategy
    watcher,    \* progress of the call of Watch, which holds s.mu
    value,      \* pathWatch.value, None until the path is in s.paths
    loop,       \* where runLoop is
    retry,      \* runLoop resyncs because of its timeout
    failed,     \* the path is in failedPaths
    got,        \* what resync read
    \* history
    lost        \* the file changed since it was last read, and the change
                \* causes no event the strategy acts upon

fsVars    == <<file, ops>>
libVars   == <<watch, known, events, overflow, pending>>
loopVars  == <<loop, retry, failed, got>>
vars      == <<fsVars, libVars, watcher, value, loopVars, lost>>

-----------------------------------------------------------------------------

EventKinds == {"write", "chmod", "remove", "rename"}

(* strings.TrimSpace of what os.ReadFile returns.                          *)
readConfigFile(content) == content[1]

Texts == {readConfigFile(c) : c \in Contents}

ErrEventOverflow == "overflow"

ASSUME NoneAssumption ==
    None \notin Texts \cup EventKinds \cup {ErrEventOverflow}

TypeOK ==
    /\ file \in Contents \cup {Absent}
    /\ ops \in 0..MaxOps
    /\ watch \in {"none", "path", "away"}
    /\ known \in BOOLEAN
    /\ events \in Seq(EventKinds)
    /\ overflow \in BOOLEAN
    /\ pending \in EventKinds \cup {ErrEventOverflow, None}
    /\ watcher \in {"idle", "added", "watching"}
    /\ value \in Texts \cup {None}
    /\ value # None <=> watcher = "watching"
    /\ loop \in {"off", "select", "remove", "read", "add", "set"}
    /\ retry \in BOOLEAN
    /\ failed \in BOOLEAN
    /\ got \in Texts \cup {None}
    /\ lost \in BOOLEAN

Init ==
    /\ file \in Contents \cup {Absent}
    /\ ops = 0
    /\ watch = "none" /\ known = FALSE /\ events = << >> /\ pending = None
    /\ overflow = FALSE
    /\ watcher = "idle" /\ value = None
    /\ loop = "off" /\ retry = FALSE /\ failed = FALSE /\ got = None
    /\ lost = FALSE

-----------------------------------------------------------------------------
(* The file system, external.                                              *)

(* A kernel queue drops a notification equal to the one at its end.  A     *)
(* full one, which watches on other paths fill as well, drops any.         *)
Queued(e) == events # << >> /\ events[Len(events)] = e

Notify(e) ==
    \/ /\ events' = IF Queued(e) THEN events ELSE Append(events, e)
       /\ UNCHANGED overflow
    \/ /\ Overflows
       /\ overflow' = TRUE
       /\ UNCHANGED events

NoNotify == UNCHANGED <<events, overflow>>

(* An operation that changes what the path holds goes unnoticed when it    *)
(* falls between resync's read and its Add, or when the watch is with a    *)
(* file that was moved away; and when its notification e is dropped.       *)
Unnoticed == loop = "add" \/ watch = "away"

Dropped(e) == watch = "path" /\ ~Queued(e) /\ events' = events

FileOp(name) ==
    /\ name \in FileOps
    /\ ops < MaxOps
    /\ ops' = ops + 1
    /\ UNCHANGED <<known, pending, watcher, value, loopVars>>

(* The content is changed in place; truncation writes an empty content.    *)
WriteFile(c) ==
    /\ FileOp("write")
    /\ file # Absent
    /\ file' = c
    /\ IF watch = "path" THEN Notify("write") ELSE NoNotify
    /\ lost' = (lost \/ Unnoticed \/ Dropped("write"))
    /\ UNCHANGED watch

Chmod ==
    /\ FileOp("chmod")
    /\ file # Absent
    /\ watch = "path"
    /\ Notify("chmod")
    /\ UNCHANGED <<file, watch, lost>>

(* The file at the path is deleted, and its watch with it.                 *)
DropFile ==
    IF watch = "path" THEN Notify("remove") /\ watch' = "none"
    ELSE NoNotify /\ UNCHANGED watch

Unlink ==
    /\ FileOp("unlink")
    /\ file # Absent
    /\ file' = Absent
    /\ DropFile
    /\ lost' = (lost \/ Unnoticed \/ Dropped("remove"))

Create(c) ==
    /\ FileOp("create")
    /\ file = Absent
    /\ file' = c
    /\ lost' = (lost \/ Unnoticed)
    /\ NoNotify /\ UNCHANGED watch

(* A new file is renamed over the path, as editors and the kubelet do.     *)
Replace(c) ==
    /\ FileOp("replace")
    /\ file # Absent
    /\ file' = c
    /\ DropFile
    /\ lost' = (lost \/ Unnoticed \/ Dropped("remove"))

(* The file is renamed: its watch, if any, goes with it.                   *)
MoveAway ==
    /\ FileOp("moveAway")
    /\ file # Absent
    /\ file' = Absent
    /\ IF watch = "path" THEN Notify("rename") /\ watch' = "away"
       ELSE NoNotify /\ UNCHANGED watch
    /\ lost' = (lost \/ Unnoticed \/ watch = "path")

(* The renamed file is deleted: the event still carries the path's name.   *)
DeleteAway ==
    /\ FileOp("deleteAway")
    /\ watch = "away"
    /\ Notify("remove")
    /\ watch' = "none"
    /\ UNCHANGED <<file, lost>>

-----------------------------------------------------------------------------
(* The fsnotify library, external.                                         *)

(* Its goroutine reads one notification and blocks sending the event; it   *)
(* forgets the watch of a file that was deleted.                           *)
FetchEvent ==
    /\ pending = None
    /\ events # << >>
    /\ pending' = Head(events)
    /\ events' = Tail(events)
    /\ known' = (known /\ Head(events) # "remove")
    /\ UNCHANGED <<fsVars, watch, overflow, watcher, value, loopVars, lost>>

(* It reads a notice of an overflow and blocks sending the error.          *)
FetchOverflow ==
    /\ pending = None
    /\ overflow
    /\ pending' = ErrEventOverflow
    /\ overflow' = FALSE
    /\ UNCHANGED <<fsVars, watch, known, events, watcher, value, loopVars,
                   lost>>

(* Watcher.Remove.  Notifications not read yet no longer belong to a known *)
(* watch, so the events made of them carry no name and concern no path.    *)
LibRemove ==
    /\ known' = FALSE
    /\ IF known THEN watch' = "none" /\ events' = << >>
       ELSE UNCHANGED <<watch, events>>
    /\ UNCHANGED <<overflow, pending>>

(* Removing a watch the kernel has ended already, before the library read  *)
(* the notification, is an error other than ErrNonExistentWatch.           *)
LibRemoveFails == known /\ watch = "none"

(* Watcher.Add, which fails when there is no file.                         *)
LibAdd ==
    /\ watch' = "path"
    /\ known' = TRUE
    /\ UNCHANGED <<events, overflow, pending>>

-----------------------------------------------------------------------------
(* Strategy.Watch, first call for the path                                 *)

(* Lock s.mu, make the watcher and start runLoop if there is none, and add *)
(* the path; without a file Add fails and Watch returns.                   *)
WatchAdd ==
    /\ watcher = "idle"
    /\ loop' = IF loop = "off" THEN "select" ELSE loop
    /\ IF file = Absent
       THEN UNCHANGED <<libVars, watcher>>
       ELSE LibAdd /\ watcher' = "added"
    /\ UNCHANGED <<fsVars, value, retry, failed, got, lost>>

(* Read the initial value and enter the path in s.paths, or give up and    *)
(* remove the watch, even one that a resync waiting for s.mu relies on.    *)
WatchRead ==
    /\ watcher = "added"
    /\ IF file = Absent
       THEN /\ LibRemove
            /\ watcher' = "idle"
            /\ lost' = (lost \/ loop = "set")
            /\ UNCHANGED value
       ELSE /\ value' = readConfigFile(file)
            /\ watcher' = "watching"
            /\ UNCHANGED <<libVars, lost>>
    /\ UNCHANGED <<fsVars, loopVars>>

-----------------------------------------------------------------------------
(* Strategy.runLoop                                                        *)

(* Mutant: only Write starts a resync.                                     *)
GotEventWriteOnly ==
    /\ loop = "select"
    /\ pending \in EventKinds
    /\ pending' = None
    /\ loop' = IF pending = "write" THEN "remove" ELSE "select"
    /\ retry' = FALSE
    /\ UNCHANGED <<fsVars, watch, known, events, overflow, watcher, value,
                   failed, got, lost>>

(* An event arrives: only Write and Remove start a resync.                 *)
GotEvent ==
    /\ loop = "select"
    /\ pending \in EventKinds
    /\ pending' = None
    /\ loop' = IF pending \in {"write", "remove"} THEN "remove" ELSE "select"
    /\ retry' = FALSE
    /\ UNCHANGED <<fsVars, watch, known, events, overflow, watcher, value,
                   failed, got, lost>>

(* An error arrives and is logged, also the one that says events are lost. *)
GotError ==
    /\ loop = "select"
    /\ pending = ErrEventOverflow
    /\ pending' = None
    /\ UNCHANGED <<fsVars, watch, known, events, overflow, watcher, value,
                   loopVars, lost>>

(* Mutant: the timeout does not resync.                                    *)
TimeoutIdle == loop = "select" /\ failed /\ UNCHANGED vars

(* resyncPeriod passes without an event: resync the failed path.           *)
Timeout ==
    /\ loop = "select"
    /\ failed
    /\ loop' = "remove"
    /\ retry' = TRUE
    /\ UNCHANGED <<fsVars, libVars, watcher, value, failed, got, lost>>

(* A resync failed: the path is, or stays, in failedPaths.                 *)
ResyncFailed ==
    /\ failed' = TRUE
    /\ loop' = "select"
    /\ UNCHANGED <<retry, got>>

(* resync, first step: w.Remove.                                           *)
ResyncRemove ==
    /\ loop = "remove"
    /\ LibRemove
    /\ IF LibRemoveFails
       THEN ResyncFailed
       ELSE loop' = "read" /\ UNCHANGED <<retry, failed, got>>
    /\ UNCHANGED <<fsVars, watcher, value, lost>>

(* resync, second step: read the file.                                     *)
ResyncRead ==
    /\ loop = "read"
    /\ IF file = Absent
       THEN ResyncFailed
       ELSE /\ loop' = "add"
            /\ got' = readConfigFile(file)
            /\ UNCHANGED <<retry, failed>>
    /\ lost' = FALSE
    /\ UNCHANGED <<fsVars, libVars, watcher, value>>

(* resync, third step: w.Add.                                              *)
ResyncAdd ==
    /\ loop = "add"
    /\ IF file = Absent
       THEN ResyncFailed /\ UNCHANGED libVars
       ELSE LibAdd /\ loop' = "set" /\ UNCHANGED <<retry, failed, got>>
    /\ UNCHANGED <<fsVars, watcher, value, lost>>

(* Mutant: the path is not looked up in s.paths.                           *)
setValUnchecked ==
    /\ loop = "set"
    /\ watcher # "added"
    /\ value' = got
    /\ failed' = (failed /\ ~retry)
    /\ loop' = "select"
    /\ UNCHANGED <<fsVars, libVars, watcher, retry, got, lost>>

(* setVal under s.mu, which ignores a path not in s.paths; after a timeout *)
(* the path leaves failedPaths.                                            *)
setVal ==
    /\ loop = "set"
    /\ watcher # "added"
    /\ value' = IF watcher = "watching" THEN got ELSE value
    /\ failed' = (failed /\ ~retry)
    /\ loop' = "select"
    /\ UNCHANGED <<fsVars, libVars, watcher, retry, got, lost>>

-----------------------------------------------------------------------------

FileNext ==
    \/ \E c \in Contents : WriteFile(c) \/ Create(c) \/ Replace(c)
    \/ Chmod \/ Unlink \/ MoveAway \/ DeleteAway

LibNext == FetchEvent \/ FetchOverflow

LoopNext ==
    \/ GotEvent \/ GotError \/ Timeout
    \/ ResyncRemove \/ ResyncRead \/ ResyncAdd \/ setVal

Next == FileNext \/ LibNext \/ WatchAdd \/ WatchRead \/ LoopNext

Spec == Init /\ [][Next]_vars

(***************************************************************************)
(* Fairness.  The library's goroutine, Watch and runLoop keep running, and *)
(* the timer of a select that no event interrupts fires.  Weak fairness is *)
(* all a timer deserves: every event starts a new time.After.  Nothing is  *)
(* assumed of the file's writers.                                          *)
(***************************************************************************)
Fairness == WF_vars(LibNext) /\ WF_vars(WatchRead) /\ WF_vars(LoopNext)

FairSpec == Spec /\ Fairness

-----------------------------------------------------------------------------
(* Properties                                                              *)

(* Nothing is under way that could still change value.                     *)
Quiet == /\ watcher = "watching" /\ loop = "select" /\ ~failed
         /\ pending = None /\ events = << >>

(***************************************************************************)
(* Once everything is quiet the strategy has the file's content and a      *)
(* watch on the file, unless a change fell into one of four gaps: between  *)
(* resync's read and its Add, after a rename of the file, into a full      *)
(* kernel queue, or while a failing Watch removed the watch of a resync    *)
(* that waits to set what it read.  Whatever the order of writes,          *)
(* deletions, events, failures and retries, the model has no other way to  *)
(* go stale (filewatcher.go 73-153).                                       *)
(***************************************************************************)
Synced ==
    Quiet /\ ~lost => /\ file # Absent
                      /\ value = readConfigFile(file)
                      /\ watch = "path"

(***************************************************************************)
(* If the file stops changing, and its last change did not fall into such  *)
(* a gap, the strategy ends with its content: failed resyncs are retried   *)
(* until they succeed (filewatcher.go 104, 117-131).                       *)
(***************************************************************************)
ConvergesIfNoticed ==
    \A c \in Contents :
        <>[](watcher = "watching" /\ file = c /\ ~lost)
            => <>[](value = readConfigFile(c))

(***************************************************************************)
(* What Watch promises (driver.go 66-68): its channel brings the updates   *)
(* of the value.  So if the file stops changing the strategy ends with its *)
(* content.                                                                *)
(***************************************************************************)
Converges ==
    \A c \in Contents :
        <>[](watcher = "watching" /\ file = c)
            => <>[](value = readConfigFile(c))

=============================================================================
