------------------------------ MODULE ChanGroup ------------------------------
(***************************************************************************)
(* One chanGroup of hotload (driver.go) and the managedConns it hands to   *)
(* database/sql (conn.go).                                                 *)
(*                                                                         *)
(* A chanGroup stands for one hotload location.  Its runLoop goroutine     *)
(* receives connection strings from the strategy and, when the string      *)
(* changed, retires the connections opened with the earlier one: at once   *)
(* when forceKill is set, otherwise with a grace that lasts until the next *)
(* change.  At the same time the goroutines of the application open        *)
(* connections through the group, and database/sql validates, resets and   *)
(* closes them.  Two kinds of mutexes order these steps: cg.mu of the      *)
(* group and c.mu of each connection.                                      *)
(*                                                                         *)
(* A context made by context.WithCancel(parentCtx) is the number of        *)
(* changes that preceded it; its cancel function is named by the same      *)
(* number, and NilCancel is the nil prevCancel of a new group.             *)
(***************************************************************************)
EXTENDS Integers, FiniteSets, ConnString

CONSTANTS
    Conns,      \* identities of managedConn objects
    Values,     \* connection strings the strategy may deliver
    Options,    \* driverInstance.options of the group's SQL driver
    MaxChanges, \* bound on the number of changes of the connection string
    CloseErrors,\* what underlying Close may return: TRUE stands for an error
    None        \* no connection

ASSUME NoneAssumption == None \notin Conns
ASSUME ChangesAssumption == MaxChanges \in Nat
ASSUME ErrorsAssumption == CloseErrors \subseteq BOOLEAN

VARIABLES
    \* fields of chanGroup
    forceKill,  \* retire connections at once
    value,      \* current connection string
    ctx,        \* current cancelable context
    prevCancel, \* cancel function of the previous context
    conns,      \* connections opened with value, minus the closed ones
    prevConns,  \* connections that were in conns at the last change
    \* contexts and metrics
    done,       \* contexts whose cancel function has been called
    parentDone, \* the driver's context is done
    changeTotal,\* hotload_change_total of this group
    \* cg.Open, which keeps cg.mu while the SQL driver opens a connection
    opening,    \* the connection being opened, None when cg.mu is not held
    \* runLoop and the local variables of processNewValue
    loop,       \* where the goroutine is
    newValue,   \* the string received
    toCancel,   \* the cancel function to call
    toClose,    \* connections still to be closed by this change
    toReset,    \* connections still to be marked by this change
    target,     \* the connection whose mutex the loop needs or holds
    \* fields of each managedConn
    cctx,       \* its supervising context
    dsn,        \* the string it was opened with
    reset,      \* it must not be reused
    killed,     \* Close succeeded
    closed,     \* Close of the underlying connection has been called
    pool        \* where it is in database/sql

groupVars == <<forceKill, value, ctx, prevCancel>>
setVars   == <<conns, prevConns>>
ctxVars   == <<done, parentDone, changeTotal>>
loopVars  == <<loop, newValue, toCancel, toClose, toReset, target>>
fieldVars == <<cctx, dsn, reset, killed>>
vars      == <<groupVars, setVars, ctxVars, opening, loopVars, fieldVars,
               closed, pool>>

-----------------------------------------------------------------------------

NilCancel == -1

Merged(v) == mergeConnStringOptions(v, Options)

(* database/sql about one connection:                                      *)
(*   fresh         opened in the background, not used yet                  *)
(*   idle          in the free list, ResetSession due before the next use  *)
(*   inuse         held by a query, a statement or a transaction           *)
(*   invalidating  IsValid is inside managedConn.close                     *)
(*   aborting      Begin, BeginTx or Prepare is inside managedConn.close   *)
(*   bad           given up, Close not yet called                          *)
(*   closing       inside managedConn.Close, holding c.mu                  *)
(*   gone          closed and forgotten                                    *)
PoolStates == {"none", "fresh", "idle", "inuse", "invalidating", "aborting",
               "bad", "closing", "gone"}

LoopStates == {"select", "lock", "cancel", "sweep", "close", "closing",
               "stopped"}

Live(c) == pool[c] \notin {"none", "gone"}

(* Contexts derived from a context that is done are done too.              *)
CtxDone(x) == parentDone \/ x \in done

(* Mutants: Open does not keep cg.mu across the call of the SQL driver, and *)
(* processNewValue keeps cg.mu until it returns.                           *)
MuFreeUnlocked == TRUE
MuFreeHeld == opening = None /\ loop \in {"select", "lock", "stopped"}

(* cg.mu is held for more than one step only by Open, across the call of   *)
(* the SQL driver; the other critical sections are single actions.         *)
MuFree == opening = None

(* Mutant: Reset does not unlock c.mu.                                     *)
ConnMuFreeLeaked(c) ==
    /\ pool[c] # "closing"
    /\ ~(loop = "closing" /\ target = c)
    /\ ~reset[c]

(* c.mu is held across underlying Close and afterClose by whoever is in    *)
(* managedConn.Close.                                                      *)
ConnMuFree(c) ==
    /\ pool[c] # "closing"
    /\ ~(loop = "closing" /\ target = c)

(* An identity can stand for a new managedConn when no reference to the    *)
(* object it stood for is left in the group or in its loop.                *)
Unreferenced(c) ==
    /\ ~Live(c)
    /\ c \notin conns \cup prevConns \cup toClose \cup toReset
    /\ c # target

-----------------------------------------------------------------------------

TypeOK ==
    /\ forceKill \in BOOLEAN
    /\ value \in Values
    /\ newValue \in Values
    /\ ctx \in 0..MaxChanges
    /\ prevCancel \in NilCancel..MaxChanges
    /\ toCancel \in NilCancel..MaxChanges
    /\ conns \subseteq Conns
    /\ prevConns \subseteq Conns
    /\ toClose \subseteq Conns
    /\ toReset \subseteq Conns
    /\ done \subseteq 0..MaxChanges
    /\ parentDone \in BOOLEAN
    /\ changeTotal \in 0..MaxChanges
    /\ opening \in Conns \cup {None}
    /\ target \in Conns \cup {None}
    /\ loop \in LoopStates
    /\ cctx \in [Conns -> 0..MaxChanges]
    /\ dsn \in [Conns -> {EmptyDsn} \cup {Merged(v).dsn : v \in Values}]
    /\ reset \in [Conns -> BOOLEAN]
    /\ killed \in [Conns -> BOOLEAN]
    /\ closed \in [Conns -> BOOLEAN]
    /\ pool \in [Conns -> PoolStates]

(* hdriver.Open makes the group with the value Watch returned, parses      *)
(* forceKill from the location's query and starts runLoop.                 *)
Init ==
    /\ forceKill \in BOOLEAN
    /\ value \in Values
    /\ newValue = value
    /\ ctx = 0
    /\ prevCancel = NilCancel
    /\ toCancel = NilCancel
    /\ conns = {} /\ prevConns = {} /\ toClose = {} /\ toReset = {}
    /\ done = {} /\ parentDone = FALSE /\ changeTotal = 0
    /\ opening = None /\ target = None
    /\ loop = "select"
    /\ cctx = [c \in Conns |-> 0]
    /\ dsn = [c \in Conns |-> EmptyDsn]
    /\ reset = [c \in Conns |-> FALSE]
    /\ killed = [c \in Conns |-> FALSE]
    /\ closed = [c \in Conns |-> FALSE]
    /\ pool = [c \in Conns |-> "none"]

-----------------------------------------------------------------------------
(* chanGroup.Open                                                          *)

(* Lock cg.mu, merge the options and call the SQL driver.                  *)
OpenBegin(c) ==
    /\ MuFree
    /\ Unreferenced(c)
    /\ ~Merged(value).err
    /\ opening' = c
    /\ dsn' = [dsn EXCEPT ![c] = Merged(value).dsn]
    /\ UNCHANGED <<groupVars, setVars, ctxVars, loopVars, cctx, reset, killed,
                   closed, pool>>

(* The merge fails: Open returns an error and changes nothing.             *)
OpenMergeError ==
    /\ MuFree
    /\ Merged(value).err
    /\ UNCHANGED vars

(* newManagedConn: every field of the new object is set.                   *)
newManagedConn(c) ==
    /\ cctx' = [cctx EXCEPT ![c] = ctx]
    /\ reset' = [reset EXCEPT ![c] = FALSE]
    /\ killed' = [killed EXCEPT ![c] = FALSE]
    /\ closed' = [closed EXCEPT ![c] = FALSE]

(* The driver returns a connection: it is wrapped, tracked and given to    *)
(* the caller that waits for it, or to the free list when database/sql     *)
(* opened it in the background.                                            *)
OpenOk ==
    /\ opening # None
    /\ newManagedConn(opening)
    /\ conns' = conns \cup {opening}
    /\ \E s \in {"inuse", "fresh"} : pool' = [pool EXCEPT ![opening] = s]
    /\ opening' = None
    /\ UNCHANGED <<groupVars, prevConns, ctxVars, loopVars, dsn>>

(* The driver returns an error, which Open passes on.                      *)
OpenError ==
    /\ opening # None
    /\ opening' = None
    /\ UNCHANGED <<groupVars, setVars, ctxVars, loopVars, fieldVars, closed,
                   pool>>

-----------------------------------------------------------------------------
(* runLoop and processNewValue                                             *)

(* A string arrives on newValChan.                                         *)
Receive(v) ==
    /\ loop = "select"
    /\ v # value => ctx < MaxChanges
    /\ newValue' = v
    /\ loop' = "lock"
    /\ UNCHANGED <<groupVars, setVars, ctxVars, opening, toCancel, toClose,
                   toReset, target, fieldVars, closed, pool>>

(* The strategy closed newValChan.                                         *)
ChanClosed ==
    /\ loop = "select"
    /\ loop' = "stopped"
    /\ UNCHANGED <<groupVars, setVars, ctxVars, opening, newValue, toCancel,
                   toClose, toReset, target, fieldVars, closed, pool>>

(* The driver's context is done: cancel the group's context and return.    *)
ParentCtxDone ==
    /\ loop = "select"
    /\ parentDone
    /\ done' = done \cup {ctx}
    /\ loop' = "stopped"
    /\ UNCHANGED <<groupVars, setVars, parentDone, changeTotal, opening,
                   newValue, toCancel, toClose, toReset, target, fieldVars,
                   closed, pool>>

(* Mutant: the change is counted before the strings are compared.          *)
SameValueCounted ==
    /\ loop = "lock"
    /\ MuFree
    /\ newValue = value
    /\ changeTotal' = changeTotal + 1
    /\ loop' = "select"
    /\ UNCHANGED <<groupVars, setVars, done, parentDone, opening,
                   newValue, toCancel, toClose, toReset, target, fieldVars,
                   closed, pool>>

(* criticalSection when the string is the one in use.                      *)
SameValue ==
    /\ loop = "lock"
    /\ MuFree
    /\ newValue = value
    /\ loop' = "select"
    /\ UNCHANGED <<groupVars, setVars, ctxVars, opening, newValue, toCancel,
                   toClose, toReset, target, fieldVars, closed, pool>>

(* Mutants: the previous context is cancelled in either mode, and no       *)
(* context is cancelled without forceKill.                                 *)
RetiredEager(kill) ==
    /\ toCancel' = ctx
    /\ toClose' = IF kill THEN conns ELSE prevConns

RetiredUncancelled(kill) ==
    /\ toCancel' = IF kill THEN ctx ELSE NilCancel
    /\ toClose' = IF kill THEN conns ELSE prevConns

(* What one change retires: the previous context and connections when      *)
(* forceKill is set, the ones before them otherwise.                       *)
Retired(kill) ==
    /\ toCancel' = IF kill THEN ctx ELSE prevCancel
    /\ toClose' = IF kill THEN conns ELSE prevConns

(* criticalSection when the string is new: swap in the new value, context  *)
(* and empty connection list, and keep the old ones in local variables.    *)
criticalSection ==
    /\ loop = "lock"
    /\ MuFree
    /\ newValue # value
    /\ Retired(forceKill)
    /\ toReset' = conns
    /\ prevConns' = conns
    /\ conns' = {}
    /\ prevCancel' = ctx
    /\ ctx' = ctx + 1
    /\ value' = newValue
    /\ loop' = "cancel"
    /\ UNCHANGED <<forceKill, ctxVars, opening, newValue, target, fieldVars,
                   closed, pool>>

(* Mutant: the cancel function is called although it may be nil.           *)
CancelRetiredUnchecked ==
    /\ loop = "cancel"
    /\ changeTotal' = changeTotal + 1
    /\ done' = done \cup {toCancel}
    /\ loop' = "sweep"
    /\ UNCHANGED <<groupVars, setVars, parentDone, opening, newValue, toCancel,
                   toClose, toReset, target, fieldVars, closed, pool>>

(* Count the change and, unless it is nil, call the cancel function; then  *)
(* the loop sleeps for a millisecond, which orders nothing.                *)
CancelRetired ==
    /\ loop = "cancel"
    /\ changeTotal' = changeTotal + 1
    /\ done' = done \cup ({toCancel} \ {NilCancel})
    /\ loop' = "sweep"
    /\ UNCHANGED <<groupVars, setVars, parentDone, opening, newValue, toCancel,
                   toClose, toReset, target, fieldVars, closed, pool>>

(* Mutant: managedConn.Reset(false).                                       *)
ResetCleared(c) ==
    /\ ConnMuFree(c)
    /\ c \in toReset
    /\ reset' = [reset EXCEPT ![c] = FALSE]
    /\ toReset' = toReset \ {c}

(* managedConn.Reset(true).                                                *)
Reset(c) ==
    /\ ConnMuFree(c)
    /\ c \in toReset
    /\ reset' = [reset EXCEPT ![c] = TRUE]
    /\ toReset' = toReset \ {c}

(* Mutant: with forceKill connections are closed and not marked.           *)
ForceResetMissing(c) ==
    /\ loop = "sweep"
    /\ forceKill
    /\ ConnMuFree(c)
    /\ c \in toReset
    /\ toReset' = toReset \ {c}
    /\ target' = c
    /\ loop' = "close"
    /\ UNCHANGED <<groupVars, setVars, ctxVars, opening, newValue, toCancel,
                   toClose, fieldVars, closed, pool>>

(* With forceKill each connection is marked and then closed, in turn.      *)
ForceReset(c) ==
    /\ loop = "sweep"
    /\ forceKill
    /\ Reset(c)
    /\ target' = c
    /\ loop' = "close"
    /\ UNCHANGED <<groupVars, setVars, ctxVars, opening, newValue, toCancel,
                   toClose, cctx, dsn, killed, closed, pool>>

(* Without forceKill the connections of the last change but one are closed *)
(* first, and then those of the last change are marked.                    *)
GracefulReset(c) ==
    /\ loop = "sweep"
    /\ ~forceKill
    /\ toClose = {}
    /\ Reset(c)
    /\ UNCHANGED <<groupVars, setVars, ctxVars, opening, loop, newValue,
                   toCancel, toClose, target, cctx, dsn, killed, closed, pool>>

(* managedConn.Close by the loop: lock c.mu and close the underlying       *)
(* connection.                                                             *)
SweepClose(c) ==
    /\ \/ forceKill /\ loop = "close" /\ c = target
       \/ ~forceKill /\ loop = "sweep"
    /\ c \in toClose
    /\ ConnMuFree(c)
    /\ closed' = [closed EXCEPT ![c] = TRUE]
    /\ toClose' = toClose \ {c}
    /\ target' = c
    /\ loop' = "closing"
    /\ UNCHANGED <<groupVars, setVars, ctxVars, opening, newValue, toCancel,
                   toReset, fieldVars, pool>>

(* The rest of managedConn.Close: afterClose takes the connection off      *)
(* conns under cg.mu, killed records that underlying Close returned no     *)
(* error, and c.mu is released.                                            *)
removeMgdConn(c) ==
    /\ MuFree
    /\ conns' = conns \ {c}

Kill(c) ==
    \E err \in CloseErrors : killed' = [killed EXCEPT ![c] = @ \/ ~err]

SweepClosed ==
    /\ loop = "closing"
    /\ removeMgdConn(target)
    /\ Kill(target)
    /\ target' = None
    /\ loop' = "sweep"
    /\ UNCHANGED <<groupVars, prevConns, ctxVars, opening, newValue, toCancel,
                   toClose, toReset, cctx, dsn, reset, closed, pool>>

(* processNewValue returns.                                                *)
SweepDone ==
    /\ loop = "sweep"
    /\ toClose = {}
    /\ toReset = {}
    /\ loop' = "select"
    /\ UNCHANGED <<groupVars, setVars, ctxVars, opening, newValue, toCancel,
                   toClose, toReset, target, fieldVars, closed, pool>>

-----------------------------------------------------------------------------
(* managedConn, called by database/sql                                     *)

(* What database/sql does on its own account moves the connection between  *)
(* its states and nothing else.                                            *)
PoolMove(c, from, to) ==
    /\ pool[c] \in from
    /\ pool' = [pool EXCEPT ![c] = to]
    /\ UNCHANGED <<groupVars, setVars, ctxVars, opening, loopVars, fieldVars,
                   closed>>

(* The first use of a connection opened in the background.                 *)
FirstUse(c) == PoolMove(c, {"fresh"}, "inuse")

(* ResetSession before an idle connection is used again: refused when the  *)
(* connection is marked, otherwise up to the underlying driver.            *)
ResetSession(c) ==
    /\ ConnMuFree(c)
    /\ \/ PoolMove(c, {"idle"}, "bad")
       \/ ~reset[c] /\ PoolMove(c, {"idle"}, "inuse")

(* managedConn.close with the context done, called without c.mu: the       *)
(* underlying connection is closed, then afterClose is due.                *)
closeDone(c, to) ==
    /\ pool[c] = "inuse"
    /\ CtxDone(cctx[c])
    /\ closed' = [closed EXCEPT ![c] = TRUE]
    /\ pool' = [pool EXCEPT ![c] = to]
    /\ UNCHANGED <<groupVars, setVars, ctxVars, opening, loopVars, fieldVars>>

(* IsValid when the user is done with the connection.                      *)
IsValid(c) ==
    \/ closeDone(c, "invalidating")
    \/ /\ ~CtxDone(cctx[c])
       /\ \E to \in {"idle", "bad"} : PoolMove(c, {"inuse"}, to)

(* Begin, BeginTx and Prepare refuse a connection whose context is done;   *)
(* otherwise they only call the underlying connection.                     *)
Begin(c) == closeDone(c, "aborting")

(* The rest of that close, and its caller's return: database/sql gives the *)
(* connection up, except that a Prepare inside a transaction leaves it     *)
(* with the transaction.                                                   *)
AfterClose(c) ==
    /\ removeMgdConn(c)
    /\ \/ /\ pool[c] \in {"invalidating", "aborting"}
          /\ pool' = [pool EXCEPT ![c] = "bad"]
       \/ /\ pool[c] = "aborting"
          /\ pool' = [pool EXCEPT ![c] = "inuse"]
    /\ UNCHANGED <<groupVars, prevConns, ctxVars, opening, loopVars, fieldVars,
                   closed>>

(* The underlying driver reported ErrBadConn, or the pool drops a          *)
(* connection that is too many, too old, or of a closed sql.DB.            *)
Discard(c) == PoolMove(c, {"fresh", "idle", "inuse"}, "bad")

(* managedConn.Close by database/sql, in the same two steps as the loop's. *)
CloseBegin(c) ==
    /\ pool[c] = "bad"
    /\ ConnMuFree(c)
    /\ closed' = [closed EXCEPT ![c] = TRUE]
    /\ pool' = [pool EXCEPT ![c] = "closing"]
    /\ UNCHANGED <<groupVars, setVars, ctxVars, opening, loopVars, fieldVars>>

CloseEnd(c) ==
    /\ pool[c] = "closing"
    /\ removeMgdConn(c)
    /\ Kill(c)
    /\ pool' = [pool EXCEPT ![c] = "gone"]
    /\ UNCHANGED <<groupVars, prevConns, ctxVars, opening, loopVars, cctx, dsn,
                   reset, closed>>

-----------------------------------------------------------------------------

(* The context the driver was made with is cancelled.  init() gives it     *)
(* context.Background(), which never is; the groups do not rely on that.   *)
CancelParent ==
    /\ ~parentDone
    /\ parentDone' = TRUE
    /\ UNCHANGED <<groupVars, setVars, done, changeTotal, opening, loopVars,
                   fieldVars, closed, pool>>

OpenNext == \/ OpenMergeError \/ OpenOk \/ OpenError
            \/ \E c \in Conns : OpenBegin(c)

(* A call of processNewValue, one step of it.                               *)
processNewValue ==
    \/ SameValue \/ criticalSection \/ CancelRetired
    \/ \E c \in Conns : ForceReset(c) \/ GracefulReset(c) \/ SweepClose(c)
    \/ SweepClosed \/ SweepDone

LoopNext ==
    \/ \E v \in Values : Receive(v)
    \/ ChanClosed \/ ParentCtxDone
    \/ processNewValue

PoolNext ==
    \E c \in Conns :
        \/ FirstUse(c) \/ ResetSession(c) \/ IsValid(c) \/ Begin(c)
        \/ AfterClose(c) \/ Discard(c) \/ CloseBegin(c) \/ CloseEnd(c)

Next == OpenNext \/ LoopNext \/ PoolNext \/ CancelParent

Spec == Init /\ [][Next]_vars

(***************************************************************************)
(* Fairness.  Goroutines that can run do run, the SQL driver's Open        *)
(* returns, and a goroutine waiting for a mutex gets it if the mutex is    *)
(* free again and again (a Go mutex hands over to a waiter that starves),  *)
(* hence strong fairness for goroutines that lock.  Nothing is assumed of  *)
(* the application, of the strategy or of the pool's choice to use,        *)
(* release or discard a connection.                                        *)
(***************************************************************************)
OpenFairness == WF_vars(OpenOk \/ OpenError)

LoopFairness == SF_vars(processNewValue)

PoolFairness ==
    \A c \in Conns : SF_vars(AfterClose(c) \/ CloseBegin(c) \/ CloseEnd(c))

FairSpec == Spec /\ OpenFairness /\ LoopFairness /\ PoolFairness

-----------------------------------------------------------------------------
(* Properties                                                              *)

(* The loop is between two changes.                                        *)
Settled == loop \in {"select", "lock", "stopped"}

(* The contexts whose connections the group must leave alone: the current  *)
(* one and, without forceKill, the one before it.                          *)
InGrace(x) == x = ctx \/ (~forceKill /\ x = ctx - 1)

(***************************************************************************)
(* conns, which the next change will retire, holds connections of the      *)
(* current string and context only, none that database/sql has finished    *)
(* closing, and misses none that is open (Open under cg.mu, driver.go      *)
(* 392-410; removeMgdConn, 412-422).                                       *)
(***************************************************************************)
ConnsCurrent ==
    /\ \A c \in conns : /\ cctx[c] = ctx
                         /\ dsn[c] = Merged(value).dsn
                         /\ Live(c)
    /\ \A c \in Conns : Live(c) /\ cctx[c] = ctx /\ ~closed[c] => c \in conns

(***************************************************************************)
(* Once processNewValue has returned, a connection of an older string that *)
(* waits for its next use, or may come to wait for it, is marked, so that  *)
(* ResetSession refuses it (driver.go 347-370, conn.go 220-223).           *)
(***************************************************************************)
StaleMarked ==
    Settled =>
        \A c \in Conns : /\ pool[c] \in {"fresh", "idle", "inuse"}
                         /\ cctx[c] # ctx
                         /\ ~CtxDone(cctx[c]) \/ pool[c] # "inuse"
                         => reset[c]

(***************************************************************************)
(* At no moment, in the middle of a sweep included, does the pool keep an  *)
(* unmarked idle connection whose underlying connection has been closed:   *)
(* each connection is marked before it is closed.                          *)
(***************************************************************************)
ClosedIdleMarked ==
    \A c \in Conns : pool[c] \in {"fresh", "idle"} /\ closed[c] => reset[c]

(***************************************************************************)
(* Once processNewValue has returned, every connection out of grace has    *)
(* been closed and its context cancelled, whatever the pool was doing with *)
(* it: none keeps talking to a retired database (driver.go 320-370).       *)
(***************************************************************************)
ExpiredEnded ==
    Settled =>
        /\ \A c \in Conns : Live(c) /\ ~InGrace(cctx[c]) => closed[c]
        /\ \A x \in 0..(ctx - 1) : InGrace(x) \/ x \in done

(***************************************************************************)
(* While the driver's context lives, no connection in grace that the       *)
(* application or the pool holds is closed or cancelled under it.          *)
(***************************************************************************)
GraceKept ==
    ~parentDone =>
        \A c \in Conns : /\ pool[c] \in {"fresh", "idle", "inuse"}
                         /\ InGrace(cctx[c])
                         => ~closed[c] /\ ~CtxDone(cctx[c])

(***************************************************************************)
(* hotload_change_total counts the changes of the string and not the       *)
(* deliveries of the same string (driver.go 268-272, 314).                 *)
(***************************************************************************)
ChangeCounted == changeTotal = IF loop = "cancel" THEN ctx - 1 ELSE ctx

(***************************************************************************)
(* Every reload ends: after a string is received the loop is back at its   *)
(* select, although it needs cg.mu and the mutex of every connection it    *)
(* retires, and Open and Close need them too.                              *)
(***************************************************************************)
ChangeCompletes == loop = "lock" ~> loop = "select"

(***************************************************************************)
(* database/sql never waits forever inside managedConn.Close.              *)
(***************************************************************************)
CloseReturns == \A c \in Conns : pool[c] = "bad" ~> pool[c] = "gone"

=============================================================================
