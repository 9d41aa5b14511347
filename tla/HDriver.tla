------------------------------ MODULE HDriver -------------------------------
(***************************************************************************)
(* hotload as a whole (driver.go: the registries, hdriver.Open and the     *)
(* chanGroups it caches; fsnotify/filewatcher.go: the way of a value to    *)
(* the groups).                                                            *)
(*                                                                         *)
(* Callers open names through the one hdriver, which keeps a chanGroup per *)
(* name.  The groups take their values from channels of the registered     *)
(* strategy.  Three mutexes are taken in turn: the global mu, held from    *)
(* the look at the cache until the wrapped driver has opened the           *)
(* connection; s.mu of the strategy; cg.mu of a group.  All names are on   *)
(* one path; a channel belongs to the path's encoded query, and names that *)
(* differ in something else share it.  ChanGroup, WatchQueue and FileSync  *)
(* model the parts in detail.                                              *)
(***************************************************************************)
EXTENDS Naturals, Sequences

CONSTANTS
    Callers,        \* goroutines that call hotload
    Drivers,        \* names of SQL drivers
    Names,          \* locations given to sql.Open
    Queries,        \* encoded queries
    DriverOf,       \* the SQL driver a name asks for, its host
    QueryOf,        \* the encoded query of a name
    Values,         \* contents of the file
    OperCap,        \* capacity of operChan
    MaxSets,        \* bound on the number of values set
    MaxStrategies,  \* bound on the number of strategies registered
    None            \* no name, no value, no channel

ASSUME NamesAssumption ==
    DriverOf \in [Names -> Drivers] /\ QueryOf \in [Names -> Queries]
ASSUME HDriverBounds ==
    MaxSets \in Nat /\ MaxStrategies \in Nat /\ OperCap \in Nat \ {0}

(* The update channels: one for each query of each strategy.               *)
Chans == Queries \X (1..MaxStrategies)

ASSUME HDriverNone == None \notin Names \cup Values \cup Chans

VARIABLES
    \* the registries
    sqlDrivers, \* names of registered SQL drivers
    strategy,   \* number of the registered strategy, 0 for none
    made,       \* how many strategies have been registered
    \* callers
    at,         \* where each is; all but "idle" hold mu
    name,       \* the name it opens
    \* fields of the chanGroups
    newValChan, \* the channel, None when the name is not in h.cgroup
    value,      \* the string
    loop,       \* where runLoop is
    newValue,   \* what it received
    \* the registered strategy
    pathValue,  \* pathWatch.value, None when the path is not watched
    updateChan, \* its open channels
    todo,       \* channels whose queue setVal, holding s.mu, has not served
    operChan,   \* the queue of each channel
    sending,    \* the value opLoop blocks on, or None
    \* history and bounds
    loops,      \* how many runLoops were started for each name
    sets

regVars   == <<sqlDrivers, strategy, made>>
callVars  == <<at, name>>
groupVars == <<newValChan, value, loop, newValue, loops>>
watchVars == <<pathValue, updateChan>>
queueVars == <<todo, operChan, sending, sets>>
vars      == <<regVars, callVars, groupVars, watchVars, queueVars>>

-----------------------------------------------------------------------------

Places == {"idle", "watch", "dial", "close", "forget"}

Cached(n) == newValChan[n] # None

(* Mutant: Open does not keep mu.                                          *)
MuFreeUnlocked == TRUE

(* The global mu is free.                                                  *)
MuFree == \A c \in Callers : at[c] = "idle"

(* Mutant: setVal does not keep s.mu.                                      *)
StrategyMuFreeUnlocked == TRUE

(* s.mu is free.                                                           *)
StrategyMuFree == todo = {}

(* Mutant: processNewValue needs the global mu.                            *)
GroupMuFreeGlobal(n) == MuFree

(* cg.mu is free: no Open waits for the wrapped driver.                    *)
GroupMuFree(n) == \A c \in Callers : ~(at[c] = "dial" /\ name[c] = n)

TypeOK ==
    /\ sqlDrivers \subseteq Drivers
    /\ strategy \in 0..made /\ made \in 0..MaxStrategies
    /\ at \in [Callers -> Places]
    /\ name \in [Callers -> Names \cup {None}]
    /\ newValChan \in [Names -> Chans \cup {None}]
    /\ value \in [Names -> Values \cup {None}]
    /\ \A n \in Names : Cached(n) => value[n] # None /\ loop[n] # "off"
    /\ loop \in [Names -> {"off", "select", "process", "ended"}]
    /\ newValue \in [Names -> Values \cup {None}]
    /\ pathValue \in Values \cup {None}
    /\ updateChan \subseteq Queries \X {strategy}
    /\ todo \subseteq updateChan
    /\ \A ch \in Chans : /\ operChan[ch] \in Seq(Values)
                         /\ Len(operChan[ch]) <= OperCap
    /\ sending \in [Chans -> Values \cup {None}]
    /\ loops \in [Names -> Nat]
    /\ sets \in 0..MaxSets

Init ==
    /\ sqlDrivers = {} /\ strategy = 0 /\ made = 0
    /\ at = [c \in Callers |-> "idle"] /\ name = [c \in Callers |-> None]
    /\ newValChan = [n \in Names |-> None] /\ value = [n \in Names |-> None]
    /\ loop = [n \in Names |-> "off"] /\ newValue = [n \in Names |-> None]
    /\ pathValue = None /\ updateChan = {}
    /\ todo = {} /\ operChan = [ch \in Chans |-> << >>]
    /\ sending = [ch \in Chans |-> None]
    /\ loops = [n \in Names |-> 0] /\ sets = 0

-----------------------------------------------------------------------------
(* The registries.  Registering a name twice panics and is left out.       *)

RegisterSQLDriver(d) ==
    /\ MuFree
    /\ d \notin sqlDrivers
    /\ sqlDrivers' = sqlDrivers \cup {d}
    /\ UNCHANGED <<strategy, made, callVars, groupVars, watchVars, queueVars>>

RegisterStrategy ==
    /\ MuFree
    /\ strategy = 0
    /\ made < MaxStrategies
    /\ made' = made + 1
    /\ strategy' = made'
    /\ UNCHANGED <<sqlDrivers, callVars, groupVars, watchVars, queueVars>>

(* UnregisterStrategy takes mu, waits for s.mu, closes the strategy and    *)
(* then deletes it.  What its goroutines had still to send goes nowhere.   *)
UnregisterStrategy(c) ==
    /\ MuFree
    /\ strategy # 0
    /\ at' = [at EXCEPT ![c] = "close"]
    /\ UNCHANGED <<regVars, name, groupVars, watchVars, queueVars>>

CloseStrategy(c) ==
    /\ at[c] = "close"
    /\ StrategyMuFree
    /\ at' = [at EXCEPT ![c] = "forget"]
    /\ pathValue' = None
    /\ updateChan' = {}
    /\ operChan' = [ch \in Chans |-> << >>]
    /\ sending' = [ch \in Chans |-> None]
    /\ UNCHANGED <<regVars, name, groupVars, todo, sets>>

(* Mutant: the closed strategy stays registered.                           *)
ForgetStrategyNot(c) ==
    /\ at[c] = "forget"
    /\ at' = [at EXCEPT ![c] = "idle"]
    /\ UNCHANGED <<regVars, name, groupVars, watchVars, queueVars>>

ForgetStrategy(c) ==
    /\ at[c] = "forget"
    /\ at' = [at EXCEPT ![c] = "idle"]
    /\ strategy' = 0
    /\ UNCHANGED <<sqlDrivers, made, name, groupVars, watchVars, queueVars>>

-----------------------------------------------------------------------------
(* hdriver.Open                                                            *)

Enter(c, n, place) ==
    /\ MuFree
    /\ at' = [at EXCEPT ![c] = place]
    /\ name' = [name EXCEPT ![c] = n]
    /\ UNCHANGED <<regVars, groupVars, watchVars, queueVars>>

(* A cached group opens the connection.                                    *)
OpenCached(c, n) == Cached(n) /\ Enter(c, n, "dial")

(* ErrUnsupportedStrategy or ErrUnknownDriver.                             *)
OpenRefused(c, n) ==
    /\ MuFree
    /\ ~Cached(n)
    /\ strategy = 0 \/ DriverOf[n] \notin sqlDrivers
    /\ UNCHANGED vars

OpenNew(c, n) ==
    /\ ~Cached(n)
    /\ strategy # 0
    /\ DriverOf[n] \in sqlDrivers
    /\ Enter(c, n, "watch")

(* strategy.Watch under s.mu, for a path that is watched already or for    *)
(* one whose file holds v, and the group made of its results.              *)
OpenWatched(c, v) ==
    LET n == name[c]
        ch == <<QueryOf[n], strategy>>
    IN  /\ at[c] = "watch"
        /\ StrategyMuFree
        /\ pathValue' = IF pathValue = None THEN v ELSE pathValue
        /\ updateChan' = updateChan \cup {ch}
        /\ newValChan' = [newValChan EXCEPT ![n] = ch]
        /\ value' = [value EXCEPT ![n] = pathValue']
        /\ loop' = [loop EXCEPT ![n] = "select"]
        /\ loops' = [loops EXCEPT ![n] = @ + 1]
        /\ at' = [at EXCEPT ![c] = "dial"]
        /\ UNCHANGED <<regVars, name, newValue, queueVars>>

Return(c) ==
    /\ at' = [at EXCEPT ![c] = "idle"]
    /\ name' = [name EXCEPT ![c] = None]
    /\ UNCHANGED <<regVars, groupVars, watchVars, queueVars>>

(* Watch cannot read a new path: Open returns the error, nothing is kept.  *)
OpenWatchFails(c) ==
    /\ at[c] = "watch"
    /\ StrategyMuFree
    /\ pathValue = None
    /\ Return(c)

(* The wrapped driver returns a connection or an error.                    *)
OpenReturn(c) == at[c] = "dial" /\ Return(c)

-----------------------------------------------------------------------------
(* The strategy                                                            *)

(* setVal: s.mu is held until all queues have the value.                   *)
setVal(v) ==
    /\ StrategyMuFree
    /\ pathValue # None
    /\ sets < MaxSets
    /\ sets' = sets + 1
    /\ pathValue' = v
    /\ todo' = updateChan
    /\ UNCHANGED <<regVars, callVars, groupVars, updateChan, operChan,
                   sending>>

(* Mutant: only the queue served first gets the value.                     *)
StillOwedNot(ch) == {}

StillOwed(ch) == todo \ {ch}

Enqueue(ch) ==
    /\ ch \in todo
    /\ Len(operChan[ch]) < OperCap
    /\ operChan' = [operChan EXCEPT ![ch] = Append(@, pathValue)]
    /\ todo' = StillOwed(ch)
    /\ UNCHANGED <<regVars, callVars, groupVars, watchVars, sending, sets>>

(* opLoop takes an operation and blocks on the update channel.             *)
TakeOp(ch) ==
    /\ sending[ch] = None
    /\ operChan[ch] # << >>
    /\ sending' = [sending EXCEPT ![ch] = Head(operChan[ch])]
    /\ operChan' = [operChan EXCEPT ![ch] = Tail(@)]
    /\ UNCHANGED <<regVars, callVars, groupVars, watchVars, todo, sets>>

-----------------------------------------------------------------------------
(* runLoop of a chanGroup                                                  *)

Receive(n) ==
    /\ loop[n] = "select"
    /\ newValChan[n] \in updateChan
    /\ sending[newValChan[n]] # None
    /\ newValue' = [newValue EXCEPT ![n] = sending[newValChan[n]]]
    /\ sending' = [sending EXCEPT ![newValChan[n]] = None]
    /\ loop' = [loop EXCEPT ![n] = "process"]
    /\ UNCHANGED <<regVars, callVars, newValChan, value, loops, watchVars,
                   todo, operChan, sets>>

(* processNewValue up to the end of its critical section; ChanGroup has    *)
(* the rest.                                                               *)
processNewValue(n) ==
    /\ loop[n] = "process"
    /\ GroupMuFree(n)
    /\ value' = [value EXCEPT ![n] = newValue[n]]
    /\ newValue' = [newValue EXCEPT ![n] = None]
    /\ loop' = [loop EXCEPT ![n] = "select"]
    /\ UNCHANGED <<regVars, callVars, newValChan, loops, watchVars, queueVars>>

(* The channel is closed.  The group stays in h.cgroup.                    *)
ChanClosed(n) ==
    /\ loop[n] = "select"
    /\ newValChan[n] \notin updateChan
    /\ loop' = [loop EXCEPT ![n] = "ended"]
    /\ UNCHANGED <<regVars, callVars, newValChan, value, newValue, loops,
                   watchVars, queueVars>>

-----------------------------------------------------------------------------

CallNext(c) ==
    \/ UnregisterStrategy(c) \/ CloseStrategy(c) \/ ForgetStrategy(c)
    \/ \E n \in Names : OpenCached(c, n) \/ OpenRefused(c, n) \/ OpenNew(c, n)
    \/ \E v \in Values : OpenWatched(c, v)
    \/ OpenWatchFails(c) \/ OpenReturn(c)

LoopNext(n) == Receive(n) \/ processNewValue(n) \/ ChanClosed(n)

Next ==
    \/ \E d \in Drivers : RegisterSQLDriver(d)
    \/ RegisterStrategy
    \/ \E c \in Callers : CallNext(c)
    \/ \E v \in Values : setVal(v)
    \/ \E ch \in Chans : Enqueue(ch) \/ TakeOp(ch)
    \/ \E n \in Names : LoopNext(n)

Spec == Init /\ [][Next]_vars

(***************************************************************************)
(* Fairness.  Goroutines that can run do run, the wrapped driver's Open    *)
(* returns, and a goroutine that waits for s.mu or cg.mu gets it if it is  *)
(* free again and again (a Go mutex hands over to a waiter that starves).  *)
(* Nothing is assumed of callers that are not in a call, or of the file.   *)
(***************************************************************************)
Fairness ==
    /\ WF_vars(\E c \in Callers : OpenReturn(c) \/ ForgetStrategy(c))
    /\ SF_vars(\E c \in Callers :
                  \/ OpenWatchFails(c) \/ CloseStrategy(c)
                  \/ \E v \in Values : OpenWatched(c, v))
    /\ WF_vars(\E ch \in Chans : Enqueue(ch))
    /\ \A ch \in Chans : WF_vars(TakeOp(ch))
    /\ \A n \in Names : SF_vars(LoopNext(n))

FairSpec == Spec /\ Fairness

-----------------------------------------------------------------------------
(* Properties                                                              *)

(***************************************************************************)
(* A name has one chanGroup for good, however many goroutines open it at   *)
(* the same time: a second one would leave connections that no change      *)
(* retires (driver.go 439-475).                                            *)
(***************************************************************************)
OneGroup == \A n \in Names : loops[n] <= 1

(* The groups that listen on a channel, and what they have or will have    *)
(* once the processing of a value ends.                                    *)
Listeners(ch) == {n \in Names : newValChan[n] = ch}

Holds(n) == IF loop[n] = "process" THEN newValue[n] ELSE value[n]

(***************************************************************************)
(* The last value of the path is on its way to every channel of the        *)
(* strategy, or a group that listens there has it, although groups join    *)
(* while values are under way (driver.go 454-473, filewatcher.go 136-214). *)
(***************************************************************************)
ChannelFed ==
    \A ch \in updateChan \ todo :
        LET queue == operChan[ch]
        IN  IF queue # << >> THEN queue[Len(queue)] = pathValue
            ELSE IF sending[ch] # None THEN sending[ch] = pathValue
            ELSE \E n \in Listeners(ch) : Holds(n) = pathValue

(* The strategy is closed and still registered.                            *)
StrategyClosed == \E c \in Callers : at[c] = "forget"

(***************************************************************************)
(* A group in the cache whose runLoop has ended, which goes on opening     *)
(* connections with the last string it had, belongs to a strategy that was *)
(* unregistered, or is being unregistered by one who holds mu: nothing     *)
(* else cuts a group off, and no group is made of a strategy that is       *)
(* closed already (driver.go 170-180, 237-240, 443).                       *)
(***************************************************************************)
EndedOnlyByUnregister ==
    \A n \in Names :
        loop[n] = "ended" => newValChan[n][2] # strategy \/ StrategyClosed

(***************************************************************************)
(* sql.Open's connections never wait forever: Open returns although it     *)
(* holds mu while it waits for s.mu, s.mu is held while the queues are     *)
(* full, and the groups that empty them wait for cg.mu (driver.go 392-410, *)
(* 434-476, filewatcher.go 136-153).                                       *)
(***************************************************************************)
OpenReturns == \A c \in Callers : at[c] # "idle" ~> at[c] = "idle"

(***************************************************************************)
(* Each group in the cache ends with the value at which the path settles,  *)
(* "a channel for subsequent updates" being what Watch returns (driver.go  *)
(* 66-68), unless its strategy was unregistered.                           *)
(***************************************************************************)
GroupsFollow ==
    \A n \in Names, v \in Values :
        <>[](Cached(n) /\ newValChan[n] \in updateChan /\ pathValue = v)
            => <>[](value[n] = v)

=============================================================================
