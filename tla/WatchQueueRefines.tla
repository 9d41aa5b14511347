------------------------- MODULE WatchQueueRefines --------------------------
(***************************************************************************)
(* WatchQueue implements ValueStream.  What a watch has still to take is   *)
(* in three places: with its opLoop, in its operChan, and with setVal or   *)
(* CloseWatch, blocked on the operChan of some watch.                      *)
(***************************************************************************)
EXTENDS WatchQueue

InHand(w) ==
    IF opLoop[w] \in {"sending", "ready", "closing"} THEN <<operation[w]>>
    ELSE << >>

Owed(w) == IF w \in todo THEN <<pendOp>> ELSE << >>

Pending(w) == InHand(w) \o operChan[w] \o Owed(w)

Stream == INSTANCE ValueStream WITH
    open    <- Watching,
    pending <- [w \in Watches |-> IF w \in Watching THEN Pending(w)
                                 ELSE << >>]

(***************************************************************************)
(* Bounded queues, one goroutine per watch, setVal blocked half way and    *)
(* watches closed and opened in between do not show: every watch sees the  *)
(* values of the path from its Watch on, each once and in order, with its  *)
(* close in its place among them (filewatcher.go 136-333).                 *)
(***************************************************************************)
DeliversInOrder == Stream!Spec

=============================================================================
