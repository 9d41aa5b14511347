---------------------------- MODULE ValueStream -----------------------------
(***************************************************************************)
(* What a strategy promises to those who watch a path through it, without  *)
(* mutexes, bounded queues or goroutines: Watch returns the value of the   *)
(* moment and a channel, and every later value comes out of the channel,   *)
(* each once and in order, until the channel is closed.  A request to      *)
(* close waits its turn behind the values that were set before it.         *)
(***************************************************************************)
EXTENDS Sequences

CONSTANTS
    Watches,    \* identities of watches
    Queries,    \* what a request to close names
    Values,     \* values of the path
    None        \* no value

VARIABLES
    value,      \* the value of the path, None while nobody watches it
    open,       \* the watches whose channel is open
    pending,    \* the news each of them has still to take
    received    \* the last value each of them was given

vars == <<value, open, pending, received>>

(* News: a value, or a request to close.                                   *)
Update(v) == [op |-> "send", arg |-> v]
Request(q) == [op |-> "close", arg |-> q]

Init ==
    /\ value = None
    /\ open = {}
    /\ pending = [w \in Watches |-> << >>]
    /\ received = [w \in Watches |-> None]

(* The first watch of a path reads its value, a later one is given it.     *)
Watch(w) ==
    /\ w \notin open
    /\ open' = open \cup {w}
    /\ IF value = None THEN value' \in Values ELSE value' = value
    /\ received' = [received EXCEPT ![w] = value']
    /\ UNCHANGED pending

(* A new value, or the same one again, for everyone at once.               *)
Set(v) ==
    /\ value # None
    /\ value' = v
    /\ pending' = [w \in Watches |-> IF w \in open
                                     THEN Append(pending[w], Update(v))
                                     ELSE pending[w]]
    /\ UNCHANGED <<open, received>>

Ask(w, q) ==
    /\ w \in open
    /\ pending' = [pending EXCEPT ![w] = Append(@, Request(q))]
    /\ UNCHANGED <<value, open, received>>

Deliver(w) ==
    /\ pending[w] # << >>
    /\ Head(pending[w]).op = "send"
    /\ received' = [received EXCEPT ![w] = Head(pending[w]).arg]
    /\ pending' = [pending EXCEPT ![w] = Tail(@)]
    /\ UNCHANGED <<value, open>>

(* Channels are closed, and what they had still to deliver is dropped.     *)
Close(ws) ==
    /\ open' = open \ ws
    /\ pending' = [w \in Watches |-> IF w \in ws THEN << >> ELSE pending[w]]
    /\ value' = IF open' = {} THEN None ELSE value
    /\ UNCHANGED received

Next ==
    \/ \E w \in Watches : Watch(w) \/ Deliver(w)
    \/ \E w \in Watches, q \in Queries : Ask(w, q)
    \/ \E v \in Values : Set(v)
    \/ \E ws \in SUBSET open : Close(ws)

Spec == Init /\ [][Next]_vars

=============================================================================
