--------------------------- MODULE ModTimeMonitor ---------------------------
(***************************************************************************)
(* The ModTimeMonitor (modtime/modtime_monitor.go, modtime_options.go): a  *)
(* goroutine that looks at the modification times of a set of paths at     *)
(* every tick of a ticker, while paths are added and files change.         *)
(***************************************************************************)
EXTENDS Integers

CONSTANTS
    Paths,      \* pathKeys: cleaned paths with their strategy
    Foreign,    \* those whose files may have a time the clock never showed
    Stamps,     \* the times such files may be given
    HasErrLog,  \* the option WithErrLogger is given
    First,      \* the time when the monitor starts
    MaxTime,    \* bound on the clock
    MaxDuration,  \* time.Duration's largest value
    Absent,     \* there is no file
    None        \* no tick, no sample

(***************************************************************************)
(* The zero time is out of a Duration's reach (292 years) from any time    *)
(* the clock shows, and the monitor does not run for longer than that.     *)
(* Nothing is assumed of Stamps: Stat asks a file system given by          *)
(* WithStatFS, which may hold times of any age and from the future, the    *)
(* zero time among them (modtime_test.go 79, 199).                         *)
(***************************************************************************)
ASSUME HasErrLogAssumption == HasErrLog \in BOOLEAN
ASSUME ForeignAssumption == Foreign \subseteq Paths /\ Stamps \subseteq Int
ASSUME ClockAssumption ==
    /\ First \in Nat /\ MaxTime \in Nat /\ MaxDuration \in Nat
    /\ First <= MaxTime
    /\ MaxDuration < First
    /\ MaxTime - First <= MaxDuration
ASSUME NotTimesAssumption == {Absent, None} \cap Int = {}

Times == First..MaxTime
zeroTime == 0
ModTimes == Times \cup Stamps \cup {zeroTime}
MinDuration == -MaxDuration - 1

VARIABLES
    \* outside: the clock, the files, the ticker
    now,        \* the time
    mtime,      \* modification time of each file, or Absent
    ticks,      \* the ticker's channel, which holds one tick
    ctxDone,    \* the monitor's context is cancelled
    \* ModTimeMonitor
    paths,      \* the paths monitored
    modTime,    \* pathRecord.modTime
    loop,       \* where runLoop is
    nowTime,    \* the tick of this check
    todo,       \* the paths this check has still to look at
    sample,     \* what each path last gave to the latency histogram
    panicked,   \* errlog was called and is nil
    \* history
    seen,       \* the paths of which a Stat has succeeded
    changed     \* when each file was last given a time

fileVars == <<mtime, changed>>
outVars == <<now, fileVars, ctxDone>>
recVars == <<paths, modTime, sample, seen>>
vars == <<outVars, ticks, recVars, loop, nowTime, todo, panicked>>

TypeOK ==
    /\ now \in Times
    /\ mtime \in [Paths -> ModTimes \cup {Absent}]
    /\ changed \in [Paths -> Times]
    /\ ticks \in Times \cup {None}
    /\ ctxDone \in BOOLEAN
    /\ paths \subseteq Paths
    /\ modTime \in [Paths -> ModTimes]
    /\ loop \in {"select", "check", "ended"}
    /\ nowTime \in Times \cup {None}
    /\ todo \subseteq paths
    /\ sample \in [Paths -> MinDuration..MaxDuration \cup {None}]
    /\ seen \subseteq paths
    /\ panicked \in BOOLEAN

Init ==
    /\ now = First
    /\ mtime \in [Paths -> {First, Absent}]
    /\ changed = [p \in Paths |-> First]
    /\ ticks = None /\ ctxDone = FALSE
    /\ paths = {} /\ modTime = [p \in Paths |-> zeroTime]
    /\ loop = "select" /\ nowTime = None /\ todo = {}
    /\ sample = [p \in Paths |-> None] /\ seen = {}
    /\ panicked = FALSE

-----------------------------------------------------------------------------
(* Outside                                                                 *)

Outside == UNCHANGED <<recVars, loop, nowTime, todo, panicked>>

Clock ==
    /\ now < MaxTime
    /\ now' = now + 1
    /\ Outside /\ UNCHANGED <<fileVars, ctxDone, ticks>>

(* A file is written or made, and has the clock's time.                    *)
Touch(p) ==
    /\ mtime' = [mtime EXCEPT ![p] = now]
    /\ changed' = [changed EXCEPT ![p] = now]
    /\ Outside /\ UNCHANGED <<now, ctxDone, ticks>>

(* A file is made or replaced by one that has a time of its own.           *)
Restamp(p) ==
    /\ p \in Foreign
    /\ \E t \in Stamps : mtime' = [mtime EXCEPT ![p] = t]
    /\ changed' = [changed EXCEPT ![p] = now]
    /\ Outside /\ UNCHANGED <<now, ctxDone, ticks>>

Delete(p) ==
    /\ mtime' = [mtime EXCEPT ![p] = Absent]
    /\ changed' = [changed EXCEPT ![p] = First]
    /\ Outside /\ UNCHANGED <<now, ctxDone, ticks>>

(* The ticker sends the time, unless the last tick was not yet received.   *)
Tick ==
    /\ ticks = None
    /\ ticks' = now
    /\ Outside /\ UNCHANGED outVars

Cancel ==
    /\ ctxDone' = TRUE
    /\ Outside /\ UNCHANGED <<now, fileVars, ticks>>

-----------------------------------------------------------------------------
(* ModTimeMonitor                                                          *)

(* Mutant: the record is left without a time.                              *)
AddMonitoredPathUnset(p) ==
    /\ ~panicked
    /\ loop # "check"
    /\ p \notin paths
    /\ paths' = paths \cup {p}
    /\ modTime' = [modTime EXCEPT ![p] = None]
    /\ UNCHANGED <<outVars, ticks, sample, seen, loop, nowTime, todo,
                   panicked>>

(* AddMonitoredPath, which waits while a check holds the lock; it returns  *)
(* an error for a path monitored already.                                  *)
AddMonitoredPath(p) ==
    /\ ~panicked
    /\ loop # "check"
    /\ p \notin paths
    /\ paths' = paths \cup {p}
    /\ modTime' = [modTime EXCEPT ![p] = zeroTime]
    /\ UNCHANGED <<outVars, ticks, sample, seen, loop, nowTime, todo,
                   panicked>>

(* runLoop takes a tick and starts a check.                                *)
StartCheck ==
    /\ ~panicked
    /\ loop = "select"
    /\ ticks # None
    /\ ticks' = None
    /\ nowTime' = ticks
    /\ loop' = "check"
    /\ todo' = paths
    /\ UNCHANGED <<outVars, recVars, panicked>>

(* Mutant: a time is stored once.                                          *)
NewModTimeOnce(p) ==
    IF mtime[p] = Absent \/ modTime[p] # zeroTime THEN modTime[p]
    ELSE mtime[p]

(* Mutant: a failing Stat clears the time.                                 *)
NewModTimeCleared(p) == IF mtime[p] = Absent THEN zeroTime ELSE mtime[p]

(* The new pathRecord.modTime: if Stat fails it stays.                     *)
NewModTime(p) == IF mtime[p] = Absent THEN modTime[p] ELSE mtime[p]

(* nowTime.Sub(t): a difference that does not fit becomes the largest or   *)
(* the smallest Duration.                                                  *)
Sub(t) ==
    LET d == nowTime - t IN
    IF d > MaxDuration THEN MaxDuration
    ELSE IF d < MinDuration THEN MinDuration ELSE d

(* checkPathModTimes looks at one path and reports its latency, with the   *)
(* time it has from earlier if Stat fails.                                 *)
CheckPath(p) ==
    /\ ~panicked
    /\ p \in todo
    /\ IF mtime[p] = Absent /\ ~HasErrLog
       THEN panicked' = TRUE /\ UNCHANGED <<modTime, sample, seen, todo>>
       ELSE /\ modTime' = [modTime EXCEPT ![p] = NewModTime(p)]
            /\ sample' = [sample EXCEPT ![p] = Sub(modTime'[p])]
            /\ seen' = IF mtime[p] = Absent THEN seen ELSE seen \cup {p}
            /\ todo' = todo \ {p}
            /\ UNCHANGED panicked
    /\ UNCHANGED <<outVars, ticks, paths, loop, nowTime>>

EndCheck ==
    /\ ~panicked
    /\ loop = "check"
    /\ todo = {}
    /\ loop' = "select"
    /\ UNCHANGED <<outVars, ticks, recVars, nowTime, todo, panicked>>

(* Mutant: runLoop does not look at the context.                           *)
CtxDoneIgnored == ctxDone /\ loop = "select" /\ UNCHANGED vars

(* runLoop sees that the context is done.                                  *)
CtxDone ==
    /\ ~panicked
    /\ loop = "select"
    /\ ctxDone
    /\ loop' = "ended"
    /\ UNCHANGED <<outVars, ticks, recVars, nowTime, todo, panicked>>

LoopNext == StartCheck \/ (\E p \in Paths : CheckPath(p)) \/ EndCheck

Next ==
    \/ Clock \/ Tick \/ Cancel
    \/ \E p \in Paths : Touch(p) \/ Restamp(p) \/ Delete(p)
    \/ \E p \in Paths : AddMonitoredPath(p)
    \/ LoopNext \/ CtxDone

Spec == Init /\ [][Next]_vars

(***************************************************************************)
(* Fairness.  The ticker ticks and runLoop runs.  A select that finds both *)
(* a tick and a done context ready again and again picks each of them at   *)
(* some time, because it picks at random.                                  *)
(***************************************************************************)
Fairness == WF_vars(Tick) /\ WF_vars(LoopNext) /\ SF_vars(CtxDone)

FairSpec == Spec /\ Fairness

-----------------------------------------------------------------------------
(* Properties                                                              *)

(***************************************************************************)
(* A check misses nothing: once it has looked at a path, the status of the *)
(* path is the last modification made before the tick, unless the file was *)
(* changed later or is gone, although files change and paths are added     *)
(* between the tick and the look (modtime_monitor.go 76-107, 139-162).     *)
(***************************************************************************)
Fresh ==
    \A p \in paths \ todo :
        loop = "check" /\ mtime[p] # Absent /\ changed[p] < nowTime
            => modTime[p] = mtime[p]

(***************************************************************************)
(* What a check reports of a path it has looked at.  The largest duration  *)
(* there is, if no Stat of the path ever succeeded.  For a file that has   *)
(* its times from the clock, the time between the tick and a modification: *)
(* negative at most by as much as the look came after the tick, and never  *)
(* saturated, also when the file is gone meanwhile.  Otherwise the latency *)
(* of some time the file can have had, cut to what a Duration holds, and   *)
(* so saturated for a file as old as the one of modtime_test.go 79         *)
(* (modtime_monitor.go 148-160).                                           *)
(***************************************************************************)
SampleBounds ==
    \A p \in paths \ todo :
        loop = "check" =>
            /\ p \notin seen => sample[p] = MaxDuration
            /\ p \in seen \ Foreign =>
                  sample[p] \in (nowTime - now)..(nowTime - First)
            /\ p \in seen \cap Foreign =>
                  \E t \in Stamps \cup First..now : sample[p] = Sub(t)

(***************************************************************************)
(* The status of a monitored file that stops changing becomes its          *)
(* modification time, while the monitor runs (modtime_monitor.go 164-186). *)
(***************************************************************************)
StatusFollows ==
    \A p \in Paths, t \in Times \cup Stamps :
        <>[](p \in paths /\ mtime[p] = t /\ ~ctxDone) => <>[](modTime[p] = t)

(***************************************************************************)
(* runLoop is "Terminated when context is done" (modtime_monitor.go 166).  *)
(***************************************************************************)
Terminates == ctxDone ~> loop = "ended"

(***************************************************************************)
(* What a comment says of a Stat that fails (modtime_monitor.go 150): "log *)
(* error, but continue".  The check does not end the program.              *)
(***************************************************************************)
Continues == ~panicked

=============================================================================
