----------------------------- MODULE HotReload ------------------------------
(***************************************************************************)
(* What one hotload location promises to the users of its connections,     *)
(* without loops, mutexes, contexts or lists.                              *)
(*                                                                         *)
(* The location has a connection string that changes from time to time.  A *)
(* connection is opened with the string of the moment.  After a change the *)
(* connections made before it are told to drain.  What the pool does with  *)
(* a draining connection is up to the pool, which uses a fresh one once    *)
(* before it asks.  A connection is ended against the will of its holder   *)
(* only when grace changes have passed, or when the whole driver is over.  *)
(***************************************************************************)
EXTENDS Naturals

CONSTANTS
    Conns,      \* identities of connections, used again after an end
    Values,     \* connection strings
    Target(_),  \* what the wrapped driver is asked to open for a string
    NoTarget    \* no connection, nothing asked

VARIABLES
    grace,      \* how many changes a connection outlives, besides its own
    over,       \* the driver's context is done
    value,      \* the connection string
    changes,    \* how often it has changed
    phase,      \* what is left of each connection
    born,       \* the number of changes before it was opened
    uses        \* what it was opened with

vars == <<grace, over, value, changes, phase, born, uses>>

(*   none      not opened yet                                              *)
(*   open      held by the application or its pool                         *)
(*   draining  the same, and marked: the pool is refused when it asks      *)
(*   unwanted  given up by the pool                                        *)
(*   ended     the underlying connection is closed                         *)
Phases == {"none", "open", "draining", "unwanted", "ended"}

Held(c) == phase[c] \in {"open", "draining"}

Stale(c) == born[c] < changes

OutOfGrace(c) == born[c] + grace < changes

Init ==
    /\ grace \in {0, 1}
    /\ over = FALSE
    /\ value \in Values
    /\ changes = 0
    /\ phase = [c \in Conns |-> "none"]
    /\ born = [c \in Conns |-> 0]
    /\ uses = [c \in Conns |-> NoTarget]

-----------------------------------------------------------------------------

(* A connection moves to another phase.                                    *)
Move(c, p) ==
    /\ phase' = [phase EXCEPT ![c] = p]
    /\ UNCHANGED <<grace, over, value, changes, born>>

(* A connection is opened with the string of the moment.                   *)
Connect(c) ==
    /\ phase[c] \in {"none", "ended"}
    /\ phase' = [phase EXCEPT ![c] = "open"]
    /\ born' = [born EXCEPT ![c] = changes]
    /\ uses' = [uses EXCEPT ![c] = Target(value)]
    /\ UNCHANGED <<grace, over, value, changes>>

Change ==
    /\ value' \in Values \ {value}
    /\ changes' = changes + 1
    /\ UNCHANGED <<grace, over, phase, born, uses>>

(* Only a connection of an earlier string is told to drain.                *)
Drain(c) ==
    /\ phase[c] = "open"
    /\ Stale(c)
    /\ Move(c, "draining")
    /\ UNCHANGED uses

(* The pool gives a connection up, which it may do at any time.            *)
GiveUp(c) ==
    /\ Held(c)
    /\ Move(c, "unwanted")
    /\ UNCHANGED uses

(* The underlying connection is closed: nobody wants it any more, its      *)
(* grace has passed, or the driver is over.                                *)
End(c) ==
    /\ \/ phase[c] = "unwanted"
       \/ Held(c) /\ (OutOfGrace(c) \/ over)
    /\ Move(c, "ended")
    /\ uses' = [uses EXCEPT ![c] = NoTarget]

Stop ==
    /\ over' = TRUE
    /\ UNCHANGED <<grace, value, changes, phase, born, uses>>

Next ==
    \/ Change \/ Stop
    \/ \E c \in Conns :
          Connect(c) \/ Drain(c) \/ GiveUp(c) \/ End(c)

Spec == Init /\ [][Next]_vars

(***************************************************************************)
(* What must happen in the end: stale connections drain, and those out of  *)
(* grace or given up are closed, whatever their holder does or does not.   *)
(***************************************************************************)
Progress ==
    \A c \in Conns :
        /\ phase[c] = "open" /\ Stale(c) ~> ~(phase[c] = "open" /\ Stale(c))
        /\ Held(c) /\ OutOfGrace(c) ~> ~(Held(c) /\ OutOfGrace(c))
        /\ phase[c] = "unwanted" ~> phase[c] # "unwanted"

LiveSpec == Spec /\ Progress

=============================================================================
