----------------------------- MODULE WatchQueue -----------------------------
(***************************************************************************)
(* How the fsnotify strategy hands the values of one path to its watchers  *)
(* (fsnotify/filewatcher.go: Watch, CloseWatch, Close, setVal, opLoop,     *)
(* sendUpdate, processWatchClosure).                                       *)
(*                                                                         *)
(* Each queryWatch has a bounded queue of operations, filled under s.mu by *)
(* setVal ("send") and CloseWatch ("close"), and a goroutine, opLoop, that *)
(* takes them one by one: it sends values on the unbuffered update channel *)
(* and closes watches, for which it needs s.mu itself.  FileSync models    *)
(* where the values come from, ChanGroup what the watchers do with them.   *)
(***************************************************************************)
EXTENDS Naturals, Sequences, FiniteSets

CONSTANTS
    Queries,    \* query strings under which the path is watched
    Watches,    \* identities of queryWatch objects
    Values,     \* contents of the file
    OperCap,    \* capacity of operChan, 30 in the code
    MaxSets,    \* bound on the number of resyncs
    MaxCloses,  \* bound on the number of calls of CloseWatch
    CanClose,   \* the strategy may be closed
    None        \* no queryWatch, no value

ASSUME CapAssumption == OperCap \in Nat \ {0}
ASSUME BoundsAssumption == MaxSets \in Nat /\ MaxCloses \in Nat
ASSUME NoneAssumption == None \notin Watches \cup Values
ASSUME CanCloseAssumption == CanClose \in BOOLEAN

VARIABLES
    \* Strategy and pathWatch
    watcher,    \* s.watcher: not made yet, open, or nil like s.paths after
                \* Close
    value,      \* pathWatch.value, None when the path is not in s.paths
    queries,    \* pathWatch.queries
    mu,         \* what holds s.mu while it is blocked on a full operChan
    todo,       \* queryWatches to which the holder has still to send
    pendOp,     \* the operation it sends
    \* runLoop
    loop, newVal,
    \* fields of each queryWatch and state of its opLoop
    updateChan, \* the channel: not made, open or closed
    operChan,   \* the queue
    opLoop,     \* where the goroutine is
    operation,  \* the operation it took
    \* each watcher's receiving end
    received,   \* the last value given to the one that opened the watch,
                \* by Watch or by the channel
    \* history and bounds
    crash,      \* the panic that ended the program, "no" while it runs
    sets, closes

stratVars == <<watcher, value, queries>>
muVars    == <<mu, todo, pendOp>>
runVars   == <<loop, newVal>>
opVars    == <<operChan, opLoop, operation>>
boundVars == <<sets, closes>>
vars      == <<stratVars, muVars, runVars, updateChan, opVars, received,
               crash, boundVars>>

-----------------------------------------------------------------------------

Send(v)  == [op |-> "send", arg |-> v]
CloseOp(q) == [op |-> "close", arg |-> q]

PendingOps == {Send(v) : v \in Values} \cup {CloseOp(q) : q \in Queries}

NoOp == [op |-> "none", arg |-> None]

Watching == {queries[q] : q \in Queries} \ {None}

(* No goroutine runs after a panic that nothing recovers.                  *)
Running == crash = "no"

TypeOK ==
    /\ watcher \in {"unset", "open", "nil"}
    /\ value \in Values \cup {None}
    /\ queries \in [Queries -> Watches \cup {None}]
    /\ value # None <=> Watching # {}
    /\ mu \in {"free", "setVal", "CloseWatch"}
    /\ todo \subseteq Watches
    /\ pendOp \in PendingOps \cup {NoOp}
    /\ loop \in {"off", "select", "busy", "top", "ended"}
    /\ newVal \in Values \cup {None}
    /\ updateChan \in [Watches -> {"unmade", "open", "closed"}]
    /\ \A w \in Watches : operChan[w] \in Seq(PendingOps)
                          /\ Len(operChan[w]) <= OperCap
    /\ opLoop \in [Watches -> {"idle", "sending", "ready", "closing", "stuck"}]
    /\ operation \in [Watches -> PendingOps \cup {NoOp}]
    /\ received \in [Watches -> Values \cup {None}]
    /\ crash \in {"no", "nil watcher", "nil map", "close of nil channel"}
    /\ sets \in 0..MaxSets
    /\ closes \in 0..MaxCloses

Init ==
    /\ watcher = "unset" /\ value = None
    /\ queries = [q \in Queries |-> None]
    /\ mu = "free" /\ todo = {} /\ pendOp = NoOp
    /\ loop = "off" /\ newVal = None
    /\ updateChan = [w \in Watches |-> "unmade"]
    /\ operChan = [w \in Watches |-> << >>]
    /\ opLoop = [w \in Watches |-> "idle"]
    /\ operation = [w \in Watches |-> NoOp]
    /\ received = [w \in Watches |-> None]
    /\ crash = "no"
    /\ sets = 0 /\ closes = 0

-----------------------------------------------------------------------------
(* Calls of the strategy by hotload.  s.mu is free for each of them.       *)

(* Mutant: the path is entered again by every new query.                   *)
EnterPathAgain(v) ==
    /\ watcher' = "open"
    /\ loop' = IF watcher = "unset" THEN "select" ELSE loop
    /\ value' = v

(* The part of Watch that enters the path, if it is new, with the content  *)
(* v of the file; a new watcher starts runLoop.                            *)
EnterPath(v) ==
    /\ watcher' = "open"
    /\ loop' = IF watcher = "unset" THEN "select" ELSE loop
    /\ value' = IF value = None THEN v ELSE value

(* The next queryWatch object, which is as good as any other.              *)
NewWatch == CHOOSE w \in Watches : updateChan[w] = "unmade"

(* Watch with a query not watched yet: a new queryWatch and its opLoop.    *)
(* With a query that is watched, Watch returns the channel there is and    *)
(* changes nothing.                                                        *)
WatchNew(q, v) ==
    /\ Running
    /\ mu = "free"
    /\ watcher # "nil"
    /\ queries[q] = None
    /\ \E w \in Watches : updateChan[w] = "unmade"
    /\ EnterPath(v)
    /\ queries' = [queries EXCEPT ![q] = NewWatch]
    /\ updateChan' = [updateChan EXCEPT ![NewWatch] = "open"]
    /\ received' = [received EXCEPT ![NewWatch] = value']
    /\ UNCHANGED <<muVars, newVal, opVars, crash, boundVars>>

(* Watch of a new path that cannot be added or read: an error, but the     *)
(* watcher and runLoop stay.                                               *)
WatchFails ==
    /\ Running
    /\ mu = "free"
    /\ watcher # "nil"
    /\ value = None
    /\ watcher' = "open"
    /\ loop' = IF watcher = "unset" THEN "select" ELSE loop
    /\ UNCHANGED <<value, queries, muVars, newVal, updateChan, opVars,
                   received, crash, boundVars>>

(* Watch of a readable path after Close: it makes a new watcher, and then  *)
(* assigns to the nil map s.paths.                                         *)
WatchClosed ==
    /\ Running
    /\ mu = "free"
    /\ watcher = "nil"
    /\ crash' = "nil map"
    /\ UNCHANGED <<stratVars, muVars, runVars, updateChan, opVars, received,
                   boundVars>>

(* CloseWatch: queue a close operation, under s.mu and blocking.           *)
CloseWatch(q) ==
    /\ Running
    /\ mu = "free"
    /\ queries[q] # None
    /\ closes < MaxCloses
    /\ closes' = closes + 1
    /\ mu' = "CloseWatch"
    /\ todo' = {queries[q]}
    /\ pendOp' = CloseOp(q)
    /\ UNCHANGED <<stratVars, runVars, updateChan, opVars, received, crash,
                   sets>>

(* Mutant: the channels are left open.                                     *)
closeUpdateChanSkipped(ws) == UNCHANGED <<updateChan, crash>>

(* closeUpdateChan of some queryWatches, whose channels must not be nil.   *)
closeUpdateChan(ws) ==
    /\ updateChan' = [w \in Watches |->
                        IF w \in ws THEN "closed" ELSE updateChan[w]]
    /\ crash' = IF \A w \in ws : updateChan[w] = "open" THEN crash
                ELSE "close of nil channel"

(* Close: close the watcher and all channels, and forget the paths.        *)
Close ==
    /\ Running
    /\ CanClose
    /\ mu = "free"
    /\ watcher # "nil"
    /\ watcher' = "nil"
    /\ closeUpdateChan(Watching)
    /\ queries' = [q \in Queries |-> None]
    /\ value' = None
    /\ UNCHANGED <<muVars, runVars, opVars, received, boundVars>>

-----------------------------------------------------------------------------
(* runLoop                                                                 *)

(* An event or the timeout makes it resync, which succeeds and reads v.    *)
Resync(v) ==
    /\ Running
    /\ loop = "select"
    /\ watcher = "open"
    /\ sets < MaxSets
    /\ sets' = sets + 1
    /\ newVal' = v
    /\ loop' = "busy"
    /\ UNCHANGED <<stratVars, muVars, updateChan, opVars, received, crash,
                   closes>>

(* An iteration that sets nothing: an event other than Write and Remove,   *)
(* an error, a resync that fails, or a timeout, which may win against the  *)
(* closed channels of a watcher that Close has ended.                      *)
NothingToSet ==
    /\ Running
    /\ loop = "select"
    /\ loop' = "top"
    /\ UNCHANGED <<stratVars, muVars, newVal, updateChan, opVars, received,
                   crash, boundVars>>

(* setVal: set the value and queue it for every query, under s.mu and      *)
(* blocking; a path not in s.paths is ignored.                             *)
setVal ==
    /\ Running
    /\ loop = "busy"
    /\ mu = "free"
    /\ IF value = None
       THEN UNCHANGED <<value, muVars>>
       ELSE /\ value' = newVal
            /\ mu' = "setVal"
            /\ todo' = Watching
            /\ pendOp' = Send(newVal)
    /\ loop' = "top"
    /\ UNCHANGED <<watcher, queries, newVal, updateChan, opVars, received,
                   crash, boundVars>>

(* The next iteration evaluates s.watcher.GetEvents().                     *)
NextSelect ==
    /\ Running
    /\ loop = "top"
    /\ mu # "setVal"
    /\ IF watcher = "nil"
       THEN crash' = "nil watcher" /\ UNCHANGED loop
       ELSE loop' = "select" /\ UNCHANGED crash
    /\ UNCHANGED <<stratVars, muVars, newVal, updateChan, opVars, received,
                   boundVars>>


(* The closed watcher closes its channels, and runLoop returns.            *)
EventsClosed ==
    /\ Running
    /\ loop = "select"
    /\ watcher = "nil"
    /\ loop' = "ended"
    /\ UNCHANGED <<stratVars, muVars, newVal, updateChan, opVars, received,
                   crash, boundVars>>

(* Mutant: what finds no room is dropped.                                  *)
EnqueueDropping(w) ==
    /\ Running
    /\ w \in todo
    /\ operChan' = [operChan EXCEPT ![w] = IF Len(@) < OperCap
                                           THEN Append(@, pendOp) ELSE @]
    /\ todo' = todo \ {w}
    /\ mu' = IF todo = {w} THEN "free" ELSE mu
    /\ pendOp' = IF todo = {w} THEN NoOp ELSE pendOp
    /\ UNCHANGED <<stratVars, runVars, updateChan, opLoop, operation, received,
                   crash, boundVars>>

(* The holder of s.mu sends its operation to one operChan with room, and   *)
(* releases s.mu after the last one.                                       *)
Enqueue(w) ==
    /\ Running
    /\ w \in todo
    /\ Len(operChan[w]) < OperCap
    /\ operChan' = [operChan EXCEPT ![w] = Append(@, pendOp)]
    /\ todo' = todo \ {w}
    /\ mu' = IF todo = {w} THEN "free" ELSE mu
    /\ pendOp' = IF todo = {w} THEN NoOp ELSE pendOp
    /\ UNCHANGED <<stratVars, runVars, updateChan, opLoop, operation, received,
                   crash, boundVars>>

-----------------------------------------------------------------------------
(* opLoop of one queryWatch                                                *)

(* It takes an operation off its queue.                                    *)
TakeOp(w) ==
    /\ Running
    /\ opLoop[w] = "idle"
    /\ operChan[w] # << >>
    /\ operation' = [operation EXCEPT ![w] = Head(operChan[w])]
    /\ operChan' = [operChan EXCEPT ![w] = Tail(@)]
    /\ opLoop' = [opLoop EXCEPT ![w] = IF Head(operChan[w]).op = "send"
                                       THEN "sending" ELSE "closing"]
    /\ UNCHANGED <<stratVars, muVars, runVars, updateChan, received, crash,
                   boundVars>>

(* opLoop is done with an operation, or moves to the next step of it.      *)
OpLoopTo(w, place) ==
    /\ opLoop' = [opLoop EXCEPT ![w] = place]
    /\ operation' = [operation EXCEPT ![w] = IF place = "idle" THEN NoOp
                                             ELSE @]
    /\ UNCHANGED <<stratVars, muVars, runVars, updateChan, operChan, crash,
                   boundVars>>

(* Mutant: the test for nil is inverted.                                   *)
CheckChanInverted(w) ==
    /\ Running
    /\ opLoop[w] = "sending"
    /\ OpLoopTo(w, IF updateChan[w] # "open" THEN "ready" ELSE "idle")
    /\ UNCHANGED received

(* sendUpdate looks at qw.updateChan, without a lock.                      *)
CheckChan(w) ==
    /\ Running
    /\ opLoop[w] = "sending"
    /\ OpLoopTo(w, IF updateChan[w] = "open" THEN "ready" ELSE "idle")
    /\ UNCHANGED received

(* The watcher receives what sendUpdate sends.                             *)
Deliver(w) ==
    /\ Running
    /\ opLoop[w] = "ready"
    /\ updateChan[w] = "open"
    /\ received' = [received EXCEPT ![w] = operation[w].arg]
    /\ OpLoopTo(w, "idle")

(* The channel was closed after the look: sendUpdate recovers from a send  *)
(* on a closed channel, or blocks forever if it finds the field nil.       *)
SendClosed(w) ==
    /\ Running
    /\ opLoop[w] = "ready"
    /\ updateChan[w] = "closed"
    /\ \E place \in {"idle", "stuck"} : OpLoopTo(w, place)
    /\ UNCHANGED received

(* Mutant: the query is not deleted.                                       *)
processWatchClosureKept(w) ==
    /\ Running
    /\ opLoop[w] = "closing"
    /\ mu = "free"
    /\ closeUpdateChan({queries[operation[w].arg]} \ {None})
    /\ opLoop' = [opLoop EXCEPT ![w] = "idle"]
    /\ operation' = [operation EXCEPT ![w] = NoOp]
    /\ UNCHANGED <<stratVars, muVars, runVars, operChan, received, boundVars>>

(* Mutant: the path stays when its last query goes.                        *)
processWatchClosurePathKept(w) ==
    /\ Running
    /\ opLoop[w] = "closing"
    /\ mu = "free"
    /\ LET q == operation[w].arg IN
       /\ queries' = [queries EXCEPT ![q] = None]
       /\ closeUpdateChan({queries[q]} \ {None})
    /\ opLoop' = [opLoop EXCEPT ![w] = "idle"]
    /\ operation' = [operation EXCEPT ![w] = NoOp]
    /\ UNCHANGED <<watcher, value, muVars, runVars, operChan, received,
                   boundVars>>

(* processWatchClosure: under s.mu, close whatever watches the query now,  *)
(* and forget the path when no query is left.                              *)
processWatchClosure(w) ==
    /\ Running
    /\ opLoop[w] = "closing"
    /\ mu = "free"
    /\ LET q == operation[w].arg
           found == {queries[q]} \ {None}
       IN  /\ queries' = [queries EXCEPT ![q] = None]
           /\ closeUpdateChan(found)
           /\ value' = IF \A p \in Queries : queries'[p] = None THEN None
                       ELSE value
    /\ opLoop' = [opLoop EXCEPT ![w] = "idle"]
    /\ operation' = [operation EXCEPT ![w] = NoOp]
    /\ UNCHANGED <<watcher, muVars, runVars, operChan, received, boundVars>>

-----------------------------------------------------------------------------

CallNext ==
    \/ \E q \in Queries, v \in Values : WatchNew(q, v)
    \/ \E q \in Queries : CloseWatch(q)
    \/ WatchFails \/ WatchClosed \/ Close

RunNext ==
    \/ \E v \in Values : Resync(v)
    \/ NothingToSet \/ setVal \/ NextSelect \/ EventsClosed

OpLoopNext(w) ==
    \/ TakeOp(w) \/ CheckChan(w) \/ Deliver(w) \/ SendClosed(w)
    \/ processWatchClosure(w)

Next ==
    \/ CallNext \/ RunNext
    \/ \E w \in Watches : Enqueue(w) \/ OpLoopNext(w)

Spec == Init /\ [][Next]_vars

(***************************************************************************)
(* Fairness.  Goroutines that can run do run, also one that waits for s.mu *)
(* once s.mu stays free, and every watcher goes on receiving, as the       *)
(* runLoop of a chanGroup does (ChangeCompletes of ChanGroup).  Nothing is *)
(* assumed of the callers of the strategy or of the file.                  *)
(***************************************************************************)
Fairness ==
    /\ WF_vars(setVal \/ NextSelect \/ EventsClosed)
    /\ \A w \in Watches : WF_vars(Enqueue(w)) /\ WF_vars(OpLoopNext(w))

FairSpec == Spec /\ Fairness

-----------------------------------------------------------------------------
(* Properties                                                              *)

(* The last value on its way to a watcher, or with it.                     *)
Newest(w) ==
    LET queued == {i \in 1..Len(operChan[w]) : operChan[w][i].op = "send"}
        last == CHOOSE i \in queued : \A j \in queued : j <= i
    IN  IF queued # {} THEN operChan[w][last].arg
        ELSE IF opLoop[w] \in {"sending", "ready"} THEN operation[w].arg
        ELSE received[w]

(***************************************************************************)
(* No watcher is left behind: the last value in its queue, in its opLoop's *)
(* hand or in its own is the value of the path, at every moment at which   *)
(* setVal does not still owe it the new one.  So queues, slow watchers and *)
(* watches opened or closed in between lose no final value                 *)
(* (filewatcher.go 136-153, 198-213, 287-333).                             *)
(***************************************************************************)
NothingDropped ==
    \A w \in Watching : Newest(w) = value \/ (mu = "setVal" /\ w \in todo)

(***************************************************************************)
(* A channel the strategy has forgotten is closed, so that nobody waits on *)
(* it forever, and one it knows is open (filewatcher.go 240-285).          *)
(***************************************************************************)
NoOrphan ==
    \A w \in Watches : updateChan[w] = "open" <=> w \in Watching

(***************************************************************************)
(* While the strategy is open no goroutine of it panics, and Close does    *)
(* not make an update channel be closed twice, although close operations   *)
(* are queued per watch and carried out per query.  The panics that remain *)
(* need a strategy that was closed: a runLoop that was busy meanwhile      *)
(* (filewatcher.go 90, 275), and a Watch that comes after (195, 284).      *)
(***************************************************************************)
NoPanicWhileOpen ==
    crash # "no" => watcher = "nil" /\ crash # "close of nil channel"

(* setVal or CloseWatch holds s.mu and waits for room in a queue whose     *)
(* opLoop waits for s.mu: nothing in the strategy moves any more.          *)
Jammed ==
    /\ mu # "free"
    /\ \E w \in todo : Len(operChan[w]) = OperCap /\ opLoop[w] = "closing"

(***************************************************************************)
(* Each watcher of a path whose value settles receives it, however small   *)
(* the queues are; the only thing that can prevent it is a jam, for which  *)
(* a close operation has to meet a full queue.                             *)
(***************************************************************************)
Delivered ==
    \A w \in Watches, v \in Values :
        <>[](w \in Watching /\ value = v /\ ~Jammed) => <>[](received[w] = v)

(***************************************************************************)
(* What CloseWatch promises (filewatcher.go 216-218): it closes the watch  *)
(* and its update channel.  The operation it queues is carried out, unless *)
(* there is a jam.                                                         *)
(***************************************************************************)
CloseHappens ==
    \A w \in Watches :
        (\E i \in 1..Len(operChan[w]) : operChan[w][i].op = "close")
            ~> updateChan[w] = "closed" \/ Jammed


=============================================================================
