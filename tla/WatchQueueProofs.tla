-------------------------- MODULE WatchQueueProofs --------------------------
(***************************************************************************)
(* Proofs about WatchQueue, for any sets of queries, watches and values,   *)
(* any capacity of the queues and any number of calls.                     *)
(*                                                                         *)
(* The invariant says what an operation means wherever it is: with the     *)
(* holder of s.mu, in a queue, or in the hands of an opLoop.               *)
(***************************************************************************)
EXTENDS WatchQueueRefines, SequenceTheorems, TLAPS

(* Whether a queue contains values, and which one is the last.             *)
NoSend(s) == \A i \in 1..Len(s) : s[i].op # "send"

LastSend(s, v) ==
    \E i \in 1..Len(s) : /\ s[i].op = "send" /\ s[i].arg = v
                         /\ \A j \in 1..Len(s) : j > i => s[j].op # "send"

(* Newest(w) = v, without the choice of an index.                          *)
NewestIs(w, v) ==
    \/ LastSend(operChan[w], v)
    \/ /\ NoSend(operChan[w])
       /\ IF opLoop[w] \in {"sending", "ready"} THEN operation[w].arg = v
          ELSE received[w] = v

(* s.mu is held for as long as something has to be sent, to watches that   *)
(* stay known meanwhile.                                                   *)
LockInv ==
    /\ mu = "free" <=> todo = {}
    /\ todo \subseteq Watching
    /\ mu = "setVal" => pendOp = Send(value)
    /\ mu = "CloseWatch" => pendOp \in PendingOps /\ pendOp.op = "close"
    /\ loop = "busy" => newVal \in Values

(* What an opLoop has in hand, by the place it is at.                      *)
OpInv ==
    \A w \in Watches :
        /\ opLoop[w] \in {"sending", "ready"}
              => operation[w] \in PendingOps /\ operation[w].op = "send"
        /\ opLoop[w] = "closing"
              => operation[w] \in PendingOps /\ operation[w].op = "close"

(* Queues are functions, and those of unmade queryWatches are empty.       *)
QueueInv ==
    /\ operChan \in [Watches -> Seq(PendingOps)]
    /\ \A w \in Watches : updateChan[w] = "unmade"
                              => operChan[w] = << >> /\ opLoop[w] = "idle"

(* A queryWatch watches one query.                                         *)
OwnInv ==
    \A p, q \in Queries : queries[p] = queries[q] /\ queries[p] # None => p = q

(* A request to close that is under way to a watch known to the strategy   *)
(* names the query of that watch.                                          *)
Named(op, w) == op.op = "close" => queries[op.arg] = w

CloseInv ==
    \A w \in Watching :
        /\ opLoop[w] = "closing" => Named(operation[w], w)
        /\ \A i \in 1..Len(operChan[w]) : Named(operChan[w][i], w)
        /\ w \in todo => Named(pendOp, w)

NewestInv ==
    \A w \in Watching : NewestIs(w, value) \/ (mu = "setVal" /\ w \in todo)

IndInv ==
    /\ TypeOK /\ LockInv /\ OpInv /\ QueueInv /\ OwnInv /\ CloseInv
    /\ NewestInv /\ NoOrphan /\ NoPanicWhileOpen

-----------------------------------------------------------------------------
(* Operations and queues                                                   *)

(* An operation carries what its kind says.                                *)
LEMMA PendingOpFields ==
  ASSUME NEW op \in PendingOps
  PROVE  \/ op.op = "send" /\ op.arg \in Values /\ op = Send(op.arg)
         \/ op.op = "close" /\ op.arg \in Queries /\ op = CloseOp(op.arg)
  BY DEF PendingOps, Send, CloseOp

(* The operations setVal and CloseWatch make.                              *)
LEMMA MadeOps ==
  /\ \A v \in Values : /\ Send(v) \in PendingOps
                       /\ Send(v).op = "send" /\ Send(v).arg = v
  /\ \A q \in Queries : /\ CloseOp(q) \in PendingOps
                        /\ CloseOp(q).op = "close" /\ CloseOp(q).arg = q
  BY DEF PendingOps, Send, CloseOp

(* A value that is appended is the last one; a request changes nothing.    *)
LEMMA AppendedOp ==
  ASSUME NEW s \in Seq(PendingOps), NEW op \in PendingOps
  PROVE  /\ op.op = "send" => LastSend(Append(s, op), op.arg)
         /\ op.op = "close" => /\ NoSend(s) => NoSend(Append(s, op))
                               /\ \A v : LastSend(s, v)
                                            => LastSend(Append(s, op), v)
  <1> DEFINE t == Append(s, op)
  <1>1. /\ Len(s) \in Nat /\ Len(t) = Len(s) + 1
        /\ \A i \in 1..Len(s) : t[i] = s[i]
        /\ t[Len(s) + 1] = op
    BY AppendProperties
  <1> HIDE DEF t
  <1>2. op.op = "send" => LastSend(t, op.arg)
    BY <1>1 DEF LastSend
  <1>3. op.op = "close" /\ NoSend(s) => NoSend(t)
    BY <1>1 DEF NoSend
  <1>4. ASSUME op.op = "close", NEW v, LastSend(s, v)
        PROVE  LastSend(t, v)
    <2>1. PICK i \in 1..Len(s) :
             /\ s[i].op = "send" /\ s[i].arg = v
             /\ \A j \in 1..Len(s) : j > i => s[j].op # "send"
      BY <1>4 DEF LastSend
    <2>2. /\ i \in 1..Len(t) /\ t[i].op = "send" /\ t[i].arg = v
          /\ \A j \in 1..Len(t) : j > i => t[j].op # "send"
      BY <1>1, <1>4, <2>1
    <2> QED
      BY <2>2 DEF LastSend
  <1> QED
    BY <1>2, <1>3, <1>4 DEF t

(* The last value stays the last one, or is the one that is taken.         *)
LEMMA TakenOp ==
  ASSUME NEW s \in Seq(PendingOps), s # << >>, NEW v
  PROVE  /\ LastSend(s, v) =>
               \/ LastSend(Tail(s), v)
               \/ /\ NoSend(Tail(s))
                  /\ Head(s).op = "send" /\ Head(s).arg = v
         /\ NoSend(s) => NoSend(Tail(s)) /\ Head(s).op # "send"
  <1> DEFINE t == Tail(s)
  <1>1. /\ Len(s) \in Nat \ {0} /\ Len(t) = Len(s) - 1
        /\ \A i \in 1..Len(t) : t[i] = s[i + 1]
        /\ Head(s) = s[1]
    BY HeadTailProperties, LenProperties, EmptySeq
  <1> HIDE DEF t
  <1>2. NoSend(s) => NoSend(t) /\ Head(s).op # "send"
    BY <1>1 DEF NoSend
  <1>3. ASSUME LastSend(s, v)
        PROVE  LastSend(t, v) \/ (NoSend(t) /\ Head(s).op = "send"
                                            /\ Head(s).arg = v)
    <2>1. PICK i \in 1..Len(s) :
             /\ s[i].op = "send" /\ s[i].arg = v
             /\ \A j \in 1..Len(s) : j > i => s[j].op # "send"
      BY <1>3 DEF LastSend
    <2>2. CASE i = 1
      BY <1>1, <2>1, <2>2 DEF NoSend
    <2>3. CASE i # 1
      <3>1. /\ i - 1 \in 1..Len(t) /\ t[i - 1].op = "send"
            /\ t[i - 1].arg = v
            /\ \A j \in 1..Len(t) : j > i - 1 => t[j].op # "send"
        BY <1>1, <2>1, <2>3
      <3> QED
        BY <3>1 DEF LastSend
    <2> QED
      BY <2>2, <2>3
  <1> QED
    BY <1>2, <1>3 DEF t

(* NewestIs describes Newest.                                              *)
LEMMA NewestIsNewest ==
  ASSUME NEW w \in Watches, NEW v, operChan[w] \in Seq(PendingOps),
         NewestIs(w, v)
  PROVE  Newest(w) = v
  <1> DEFINE s == operChan[w]
             queued == {i \in 1..Len(s) : s[i].op = "send"}
             last == CHOOSE i \in queued : \A j \in queued : j <= i
  <1>0. Len(s) \in Nat
    BY LenProperties
  <1>1. CASE LastSend(s, v)
    <2>1. PICK i \in 1..Len(s) :
             /\ s[i].op = "send" /\ s[i].arg = v
             /\ \A j \in 1..Len(s) : j > i => s[j].op # "send"
      BY <1>1 DEF LastSend
    <2>2. i \in queued /\ \A j \in queued : j <= i
      BY <1>0, <2>1
    <2>3. last \in queued /\ \A j \in queued : j <= last
      BY <2>2
    <2>4. last = i
      BY <1>0, <2>2, <2>3
    <2> QED
      BY <2>1, <2>2, <2>4 DEF Newest
  <1>2. CASE ~LastSend(s, v)
    <2>1. queued = {}
      BY <1>2 DEF NewestIs, NoSend
    <2> QED
      BY <1>2, <2>1 DEF Newest, NewestIs
  <1> QED
    BY <1>1, <1>2

-----------------------------------------------------------------------------
(* The invariant                                                           *)

(* The strategy knows queryWatches.                                        *)
LEMMA WatchingWatches ==
  ASSUME TypeOK
  PROVE  Watching \subseteq Watches
  <1>1. queries \in [Queries -> Watches \cup {None}]
    BY DEF TypeOK
  <1> QED
    BY <1>1 DEF Watching

(* The conjuncts that speak of the queryWatches are unchanged by a step    *)
(* that leaves queries, queues and channels alone.                         *)
LEMMA Untouched ==
  ASSUME IndInv,
         UNCHANGED <<value, queries, muVars, updateChan, opVars, received>>
  PROVE  /\ OpInv' /\ QueueInv' /\ OwnInv' /\ CloseInv' /\ NewestInv'
         /\ NoOrphan' /\ (todo \subseteq Watching)'
         /\ (value # None <=> Watching # {})'
  <1> USE DEF muVars, opVars, IndInv
  <1>1. Watching' = Watching
    BY DEF Watching
  <1>2. OpInv' /\ QueueInv' /\ OwnInv' /\ CloseInv' /\ NoOrphan'
    BY <1>1 DEF OpInv, QueueInv, OwnInv, CloseInv, NoOrphan, Named
  <1>3. NewestInv'
    BY <1>1 DEF NewestInv, NewestIs
  <1>4. (todo \subseteq Watching)' /\ (value # None <=> Watching # {})'
    BY <1>1 DEF LockInv, TypeOK
  <1> QED
    BY <1>2, <1>3, <1>4

(* The strategy starts without paths (filewatcher.go 31-40).               *)
LEMMA InitInv == Init => IndInv
  <1> SUFFICES ASSUME Init PROVE IndInv
    OBVIOUS
  <1> USE NoneAssumption, CapAssumption, BoundsAssumption DEF Init, Watching
  <1>1. TypeOK
    <2>1. Len(<< >>) = 0 /\ << >> \in Seq(PendingOps)
      OBVIOUS
    <2> QED
      BY <2>1 DEF TypeOK
  <1>2. LockInv /\ OpInv /\ QueueInv /\ OwnInv /\ CloseInv /\ NewestInv
    BY DEF LockInv, OpInv, QueueInv, OwnInv, CloseInv, NewestInv
  <1>3. NoOrphan /\ NoPanicWhileOpen
    BY DEF NoOrphan, NoPanicWhileOpen
  <1> QED
    BY <1>1, <1>2, <1>3 DEF IndInv

(* Calls and steps of runLoop that touch no queryWatch.                    *)
LEMMA OutsideInv ==
  ASSUME IndInv,
         \/ WatchFails \/ WatchClosed
         \/ NothingToSet \/ NextSelect \/ EventsClosed
         \/ \E v \in Values : Resync(v)
  PROVE  IndInv'
  <1> USE NoneAssumption, BoundsAssumption
      DEF stratVars, muVars, runVars, opVars, boundVars
  <1>1. /\ UNCHANGED <<value, queries, mu, todo, pendOp, updateChan, operChan,
                       opLoop, operation, received, closes>>
        /\ watcher' \in {watcher, "open"}
        /\ \/ loop' = "busy" /\ newVal' \in Values
           \/ loop' \in {loop, "select", "top", "ended"} /\ newVal' = newVal
        /\ crash' \in {crash, "nil map", "nil watcher"}
    BY DEF WatchFails, WatchClosed, NothingToSet, NextSelect, EventsClosed,
           Resync
  <1>2. /\ OpInv' /\ QueueInv' /\ OwnInv' /\ CloseInv' /\ NewestInv'
        /\ NoOrphan' /\ (todo \subseteq Watching)'
        /\ (value # None <=> Watching # {})'
    BY <1>1, Untouched
  <1>3. TypeOK'
    <2>1. sets' \in 0..MaxSets
      <3>1. CASE sets' = sets
        BY <3>1 DEF IndInv, TypeOK
      <3>2. CASE sets' # sets
        <4>1. sets < MaxSets /\ sets' = sets + 1 /\ sets \in 0..MaxSets
          BY <3>2 DEF IndInv, TypeOK, WatchFails, WatchClosed,
                      NothingToSet, NextSelect, EventsClosed, Resync
        <4> QED
          BY <4>1
      <3> QED
        BY <3>1, <3>2
    <2>2. (loop \in {"off", "select", "busy", "top", "ended"})'
      BY <1>1 DEF IndInv, TypeOK
    <2>3. (crash \in {"no", "nil watcher", "nil map",
                      "close of nil channel"})'
      BY <1>1 DEF IndInv, TypeOK
    <2> QED
      BY <1>1, <1>2, <2>1, <2>2, <2>3 DEF IndInv, TypeOK
  <1>4. LockInv'
    BY <1>1, <1>2 DEF IndInv, LockInv
  <1>5. NoPanicWhileOpen'
    BY DEF IndInv, NoPanicWhileOpen, Running, WatchFails, WatchClosed,
           NothingToSet, NextSelect, EventsClosed, Resync
  <1> QED
    BY <1>2, <1>3, <1>4, <1>5 DEF IndInv

(* Watch: the new queryWatch is one nobody knew, and is given the value    *)
(* the others have or will have (filewatcher.go 170-213).                  *)
LEMMA WatchNewInv ==
  ASSUME NEW q \in Queries, NEW v \in Values, IndInv, WatchNew(q, v)
  PROVE  IndInv'
  <1> DEFINE n == NewWatch
  <1>1. n \in Watches /\ updateChan[n] = "unmade"
    BY DEF WatchNew, NewWatch
  <1>2. /\ n \notin Watching /\ n # None
        /\ operChan[n] = << >> /\ opLoop[n] = "idle"
    BY <1>1, NoneAssumption DEF IndInv, NoOrphan, QueueInv
  <1>3. /\ queries \in [Queries -> Watches \cup {None}]
        /\ queries[q] = None
        /\ queries' = [queries EXCEPT ![q] = n]
        /\ updateChan \in [Watches -> {"unmade", "open", "closed"}]
        /\ updateChan' = [updateChan EXCEPT ![n] = "open"]
        /\ received \in [Watches -> Values \cup {None}]
        /\ received' = [received EXCEPT ![n] = value']
        /\ value' = (IF value = None THEN v ELSE value)
        /\ watcher' = "open"
        /\ loop' = (IF watcher = "unset" THEN "select" ELSE loop)
        /\ crash' = crash /\ crash = "no"
        /\ UNCHANGED <<operChan, opLoop, operation, mu, todo, pendOp, newVal,
                       sets, closes>>
        /\ mu = "free" /\ todo = {}
        /\ value # None <=> Watching # {}
    BY DEF WatchNew, EnterPath, IndInv, TypeOK, LockInv, muVars, opVars,
           boundVars, Running
  <1> HIDE DEF n
  <1>4. Watching' = Watching \cup {n}
    BY <1>2, <1>3 DEF Watching
  <1>5. value' # None /\ value' \in Values
    BY <1>3, NoneAssumption DEF IndInv, TypeOK
  <1>6. TypeOK'
    BY <1>1, <1>3, <1>4, <1>5 DEF IndInv, TypeOK
  <1>7. LockInv' /\ OpInv' /\ QueueInv'
    BY <1>3, <1>4 DEF IndInv, LockInv, OpInv, QueueInv
  <1>8. OwnInv'
    BY <1>2, <1>3 DEF IndInv, OwnInv, Watching
  <1>9. CloseInv'
    <2>1. \A w \in Watches, op \in PendingOps : Named(op, w) => Named(op, w)'
      BY <1>3, NoneAssumption, PendingOpFields DEF Named
    <2>2. \A w \in Watching : w \in Watches
                              /\ operChan[w] \in Seq(PendingOps)
      BY WatchingWatches DEF IndInv, TypeOK
    <2>3. ASSUME NEW w \in Watching, NEW i \in 1..Len(operChan[w])
          PROVE  Named(operChan[w][i], w)'
      BY <1>3, <2>1, <2>2, <2>3 DEF IndInv, CloseInv
    <2>4. ASSUME NEW w \in Watching, opLoop[w] = "closing"
          PROVE  Named(operation[w], w)'
      BY <1>3, <2>1, <2>2, <2>4 DEF IndInv, CloseInv, OpInv
    <2> QED
      BY <1>2, <1>3, <1>4, <2>3, <2>4 DEF CloseInv
  <1>10. NewestInv'
    <2> SUFFICES ASSUME NEW w \in Watching' PROVE NewestIs(w, value)'
      BY DEF NewestInv
    <2>1. CASE w = n
      BY <1>1, <1>2, <1>3, <2>1 DEF NewestIs, NoSend
    <2>2. CASE w # n
      <3>1. w \in Watching /\ value' = value /\ received'[w] = received[w]
        BY <1>3, <1>4, <2>2
      <3> QED
        BY <1>3, <3>1 DEF NewestIs, IndInv, NewestInv
    <2> QED
      BY <2>1, <2>2
  <1>11. NoOrphan' /\ NoPanicWhileOpen'
    BY <1>1, <1>3, <1>4 DEF IndInv, NoOrphan, NoPanicWhileOpen
  <1> QED
    BY <1>6, <1>7, <1>8, <1>9, <1>10, <1>11 DEF IndInv

(* CloseWatch: the operation names the query of the watch it goes to.      *)
LEMMA CloseWatchInv ==
  ASSUME NEW q \in Queries, IndInv, CloseWatch(q)
  PROVE  IndInv'
  <1>1. /\ queries[q] \in Watching /\ queries[q] \in Watches
        /\ mu' = "CloseWatch" /\ todo' = {queries[q]} /\ pendOp' = CloseOp(q)
        /\ UNCHANGED <<watcher, value, queries, loop, newVal, updateChan,
                       operChan, opLoop, operation, received, crash, sets>>
        /\ mu = "free" /\ todo = {}
    BY DEF CloseWatch, IndInv, TypeOK, LockInv, Watching, stratVars, runVars,
           opVars
  <1>2. Watching' = Watching
    BY <1>1 DEF Watching
  <1>3. /\ pendOp' \in PendingOps /\ pendOp'.op = "close"
        /\ pendOp'.arg = q
    BY <1>1, MadeOps
  <1>4. closes' \in 0..MaxCloses
    <2>1. closes \in 0..MaxCloses /\ closes < MaxCloses
          /\ closes' = closes + 1
      BY DEF CloseWatch, IndInv, TypeOK
    <2> QED
      BY <2>1, BoundsAssumption
  <1>5. TypeOK'
    BY <1>1, <1>2, <1>3, <1>4 DEF IndInv, TypeOK
  <1>6. LockInv' /\ OpInv' /\ QueueInv' /\ OwnInv'
    BY <1>1, <1>2, <1>3 DEF IndInv, LockInv, OpInv, QueueInv, OwnInv
  <1>7. CloseInv'
    BY <1>1, <1>2, <1>3 DEF IndInv, CloseInv, Named
  <1>8. NewestInv'
    BY <1>1, <1>2 DEF IndInv, NewestInv, NewestIs
  <1>9. NoOrphan' /\ NoPanicWhileOpen'
    BY <1>1, <1>2 DEF IndInv, NoOrphan, NoPanicWhileOpen
  <1> QED
    BY <1>5, <1>6, <1>7, <1>8, <1>9 DEF IndInv

(* Close: every channel it closes is open (filewatcher.go 266-285).        *)
LEMMA CloseAllInv ==
  ASSUME IndInv, Close
  PROVE  IndInv'
  <1>1. \A w \in Watching : w \in Watches /\ updateChan[w] = "open"
    BY WatchingWatches DEF IndInv, NoOrphan
  <1>2. /\ queries' = [q \in Queries |-> None]
        /\ updateChan' = [w \in Watches |->
                            IF w \in Watching THEN "closed"
                            ELSE updateChan[w]]
        /\ value' = None /\ watcher' = "nil" /\ crash' = "no"
        /\ mu = "free" /\ todo = {}
        /\ UNCHANGED <<mu, todo, pendOp, loop, newVal, operChan, opLoop,
                       operation, received, sets, closes>>
    BY <1>1 DEF Close, closeUpdateChan, Running, muVars, runVars, opVars,
                boundVars, IndInv, LockInv
  <1>3. Watching' = {}
    BY <1>2 DEF Watching
  <1>4. TypeOK'
    BY <1>2, <1>3 DEF IndInv, TypeOK
  <1>5. LockInv' /\ OpInv' /\ QueueInv' /\ OwnInv' /\ CloseInv' /\ NewestInv'
    BY <1>1, <1>2, <1>3 DEF IndInv, LockInv, OpInv, QueueInv, OwnInv,
                            CloseInv, NewestInv
  <1>6. NoOrphan' /\ NoPanicWhileOpen'
    BY <1>2, <1>3 DEF IndInv, NoOrphan, NoPanicWhileOpen
  <1> QED
    BY <1>4, <1>5, <1>6 DEF IndInv

(* setVal owes the new value to every watch (filewatcher.go 136-153).      *)
LEMMA SetValInv ==
  ASSUME IndInv, setVal
  PROVE  IndInv'
  <1>1. /\ UNCHANGED <<watcher, queries, newVal, updateChan, operChan, opLoop,
                       operation, received, crash, sets, closes>>
        /\ loop = "busy" /\ loop' = "top" /\ newVal \in Values
        /\ mu = "free" /\ todo = {}
    BY DEF setVal, opVars, boundVars, IndInv, LockInv
  <1>2. Watching' = Watching
    BY <1>1 DEF Watching
  <1>3. CASE value = None
    <2>1. UNCHANGED <<value, mu, todo, pendOp>>
      BY <1>3 DEF setVal, muVars
    <2>2. /\ OpInv' /\ QueueInv' /\ OwnInv' /\ CloseInv' /\ NewestInv'
          /\ NoOrphan' /\ (todo \subseteq Watching)'
          /\ (value # None <=> Watching # {})'
      BY <1>1, <2>1, Untouched DEF muVars, opVars
    <2>3. TypeOK' /\ LockInv' /\ NoPanicWhileOpen'
      BY <1>1, <2>1, <2>2 DEF IndInv, TypeOK, LockInv, NoPanicWhileOpen
    <2> QED
      BY <2>2, <2>3 DEF IndInv
  <1>4. CASE value # None
    <2>1. /\ value' = newVal /\ mu' = "setVal" /\ todo' = Watching
          /\ pendOp' = Send(newVal) /\ pendOp' \in PendingOps
          /\ pendOp'.op = "send" /\ newVal # None
      BY <1>1, <1>4, MadeOps, NoneAssumption DEF setVal
    <2>2. TypeOK'
      <3>1. Watching \subseteq Watches /\ Watching # {}
        BY <1>4, WatchingWatches DEF IndInv, TypeOK
      <3> QED
        BY <1>1, <1>2, <2>1, <3>1 DEF IndInv, TypeOK
    <2>3. LockInv' /\ OpInv' /\ QueueInv' /\ OwnInv'
      BY <1>1, <1>2, <1>4, <2>1 DEF IndInv, TypeOK, LockInv, OpInv, QueueInv,
                                    OwnInv
    <2>4. CloseInv' /\ NewestInv'
      BY <1>1, <1>2, <2>1 DEF IndInv, CloseInv, NewestInv, Named
    <2>5. NoOrphan' /\ NoPanicWhileOpen'
      BY <1>1, <1>2 DEF IndInv, NoOrphan, NoPanicWhileOpen
    <2> QED
      BY <2>2, <2>3, <2>4, <2>5 DEF IndInv
  <1> QED
    BY <1>3, <1>4

(* Enqueue: what was owed to a watch is the last thing in its queue        *)
(* (filewatcher.go 147-152, 232).                                          *)
LEMMA EnqueueInv ==
  ASSUME NEW w \in Watches, IndInv, Enqueue(w)
  PROVE  IndInv'
  <1>1. /\ w \in todo /\ w \in Watching /\ mu # "free"
        /\ pendOp \in PendingOps /\ operChan[w] \in Seq(PendingOps)
        /\ operChan \in [Watches -> Seq(PendingOps)]
        /\ operChan' = [operChan EXCEPT ![w] = Append(operChan[w], pendOp)]
        /\ todo' = todo \ {w}
        /\ mu' = IF todo = {w} THEN "free" ELSE mu
        /\ pendOp' = IF todo = {w} THEN NoOp ELSE pendOp
        /\ UNCHANGED <<watcher, value, queries, loop, newVal, updateChan,
                       opLoop, operation, received, crash, sets, closes>>
    <2>1. mu = "setVal" => pendOp \in PendingOps
      <3>1. w \in Watching
        BY DEF IndInv, LockInv, Enqueue
      <3>2. value \in Values
        BY <3>1 DEF IndInv, TypeOK
      <3> QED
        BY <3>2, MadeOps DEF IndInv, LockInv
    <2> QED
      BY <2>1 DEF Enqueue, IndInv, TypeOK, LockInv, QueueInv, stratVars,
                  runVars, boundVars
  <1> DEFINE s == operChan[w]
             t == Append(s, pendOp)
  <1>2. /\ t \in Seq(PendingOps) /\ Len(t) = Len(s) + 1 /\ Len(s) \in Nat
        /\ \A i \in 1..Len(s) : t[i] = s[i]
        /\ t[Len(s) + 1] = pendOp
    BY <1>1, AppendProperties, LenProperties
  <1>3. /\ pendOp.op = "send" => LastSend(t, pendOp.arg)
        /\ pendOp.op = "close" => /\ NoSend(s) => NoSend(t)
                                  /\ \A v : LastSend(s, v) => LastSend(t, v)
    BY <1>1, AppendedOp
  <1>4. /\ mu = "setVal" => pendOp.op = "send" /\ pendOp.arg = value
        /\ mu = "CloseWatch" => pendOp.op = "close"
    BY <1>1, PendingOpFields DEF IndInv, LockInv, Send
  <1>5. Watching' = Watching
    BY <1>1 DEF Watching
  <1>6. Len(t) <= OperCap
    BY <1>1, <1>2, CapAssumption DEF Enqueue
  <1> HIDE DEF t
  <1>7. /\ operChan'[w] = t
        /\ \A u \in Watches : u # w => operChan'[u] = operChan[u]
        /\ operChan' \in [Watches -> Seq(PendingOps)]
    BY <1>1, <1>2 DEF t
  <1>8. TypeOK'
    BY <1>1, <1>2, <1>5, <1>6, <1>7 DEF IndInv, TypeOK
  <1>9. LockInv' /\ OpInv' /\ OwnInv'
    BY <1>1, <1>5 DEF IndInv, LockInv, OpInv, OwnInv
  <1>10. QueueInv'
    BY <1>1, <1>7 DEF IndInv, QueueInv, NoOrphan
  <1>11. CloseInv'
    <2> SUFFICES ASSUME NEW u \in Watching
                 PROVE  /\ opLoop[u] = "closing" => Named(operation[u], u)
                        /\ \A i \in 1..Len(operChan'[u]) :
                              Named(operChan'[u][i], u)
                        /\ u \in todo' => Named(pendOp', u)
      BY <1>1, <1>5 DEF CloseInv, Named
    <2>1. /\ opLoop[u] = "closing" => Named(operation[u], u)
          /\ \A i \in 1..Len(operChan[u]) : Named(operChan[u][i], u)
          /\ u \in todo => Named(pendOp, u)
      BY DEF IndInv, CloseInv
    <2>2. CASE u = w
      <3>1. \A i \in 1..Len(t) : Named(t[i], u)
        BY <1>1, <1>2, <2>1, <2>2
      <3> QED
        BY <1>1, <1>7, <2>1, <2>2, <3>1
    <2>3. CASE u # w
      BY <1>1, <1>7, <2>1, <2>3, WatchingWatches DEF IndInv
    <2> QED
      BY <2>2, <2>3
  <1>12. NewestInv'
    <2> SUFFICES ASSUME NEW u \in Watching
                 PROVE  NewestIs(u, value)' \/ (mu' = "setVal" /\ u \in todo')
      BY <1>5 DEF NewestInv
    <2>1. NewestIs(u, value) \/ (mu = "setVal" /\ u \in todo)
      BY DEF IndInv, NewestInv
    <2>2. CASE u = w
      BY <1>1, <1>3, <1>4, <1>7, <2>1, <2>2 DEF NewestIs, IndInv, TypeOK
    <2>3. CASE u # w
      BY <1>1, <1>7, <2>1, <2>3, WatchingWatches DEF NewestIs, IndInv
    <2> QED
      BY <2>2, <2>3
  <1>13. NoOrphan' /\ NoPanicWhileOpen'
    BY <1>1, <1>5 DEF IndInv, NoOrphan, NoPanicWhileOpen
  <1> QED
    BY <1>8, <1>9, <1>10, <1>11, <1>12, <1>13 DEF IndInv

(* opLoop takes the oldest operation (filewatcher.go 308-320).             *)
LEMMA TakeOpInv ==
  ASSUME NEW w \in Watches, IndInv, TakeOp(w)
  PROVE  IndInv'
  <1> DEFINE s == operChan[w]
             t == Tail(s)
             h == Head(s)
  <1>1. /\ s \in Seq(PendingOps) /\ s # << >>
        /\ operChan \in [Watches -> Seq(PendingOps)]
        /\ operation \in [Watches -> PendingOps \cup {NoOp}]
        /\ opLoop \in [Watches -> {"idle", "sending", "ready", "closing",
                                   "stuck"}]
        /\ opLoop[w] = "idle"
        /\ operation' = [operation EXCEPT ![w] = h]
        /\ operChan' = [operChan EXCEPT ![w] = t]
        /\ opLoop' = [opLoop EXCEPT ![w] = IF h.op = "send" THEN "sending"
                                           ELSE "closing"]
        /\ UNCHANGED <<watcher, value, queries, mu, todo, pendOp, loop,
                       newVal, updateChan, received, crash, sets, closes>>
    BY DEF TakeOp, IndInv, TypeOK, QueueInv, stratVars, muVars, runVars,
           boundVars
  <1>2. /\ t \in Seq(PendingOps) /\ Len(t) = Len(s) - 1 /\ Len(s) \in Nat
        /\ \A i \in 1..Len(t) : t[i] = s[i + 1]
        /\ h = s[1] /\ h \in PendingOps /\ 1 \in 1..Len(s)
    BY <1>1, HeadTailProperties, LenProperties, EmptySeq
  <1>3. h.op \in {"send", "close"}
    BY <1>2, PendingOpFields
  <1>4. /\ LastSend(s, value) =>
              \/ LastSend(t, value)
              \/ NoSend(t) /\ h.op = "send" /\ h.arg = value
        /\ NoSend(s) => NoSend(t) /\ h.op # "send"
    BY <1>1, TakenOp
  <1>5. Watching' = Watching
    BY <1>1 DEF Watching
  <1> HIDE DEF t, h
  <1>6. /\ operChan'[w] = t /\ operation'[w] = h
        /\ opLoop'[w] = (IF h.op = "send" THEN "sending" ELSE "closing")
        /\ \A u \in Watches : u # w => /\ operChan'[u] = operChan[u]
                                       /\ operation'[u] = operation[u]
                                       /\ opLoop'[u] = opLoop[u]
        /\ operChan' \in [Watches -> Seq(PendingOps)]
        /\ operation' \in [Watches -> PendingOps \cup {NoOp}]
        /\ opLoop' \in [Watches -> {"idle", "sending", "ready", "closing",
                                    "stuck"}]
    BY <1>1, <1>2
  <1>7. Len(t) <= OperCap
    <2>1. Len(s) <= OperCap
      BY DEF IndInv, TypeOK
    <2> QED
      BY <1>2, <2>1, CapAssumption
  <1>8. TypeOK'
    BY <1>1, <1>5, <1>6, <1>7 DEF IndInv, TypeOK
  <1>9. LockInv' /\ OwnInv' /\ NoOrphan' /\ NoPanicWhileOpen'
    BY <1>1, <1>5 DEF IndInv, LockInv, OwnInv, NoOrphan, NoPanicWhileOpen
  <1>10. OpInv'
    BY <1>2, <1>3, <1>6 DEF IndInv, OpInv
  <1>11. QueueInv'
    BY <1>1, <1>6 DEF IndInv, QueueInv
  <1>12. CloseInv'
    <2> SUFFICES ASSUME NEW u \in Watching
                 PROVE  /\ opLoop'[u] = "closing" => Named(operation'[u], u)
                        /\ \A i \in 1..Len(operChan'[u]) :
                              Named(operChan'[u][i], u)
                        /\ u \in todo => Named(pendOp, u)
      BY <1>1, <1>5 DEF CloseInv, Named
    <2>1. /\ opLoop[u] = "closing" => Named(operation[u], u)
          /\ \A i \in 1..Len(operChan[u]) : Named(operChan[u][i], u)
          /\ u \in todo => Named(pendOp, u)
      BY DEF IndInv, CloseInv
    <2>2. CASE u = w
      <3>1. Named(h, u) /\ \A i \in 1..Len(t) : Named(t[i], u)
        BY <1>1, <1>2, <2>1, <2>2
      <3> QED
        BY <1>6, <2>1, <2>2, <3>1
    <2>3. CASE u # w
      BY <1>6, <2>1, <2>3, WatchingWatches DEF IndInv
    <2> QED
      BY <2>2, <2>3
  <1>13. NewestInv'
    <2> SUFFICES ASSUME NEW u \in Watching
                 PROVE  NewestIs(u, value)' \/ (mu' = "setVal" /\ u \in todo')
      BY <1>5 DEF NewestInv
    <2>1. NewestIs(u, value) \/ (mu = "setVal" /\ u \in todo)
      BY DEF IndInv, NewestInv
    <2>2. CASE u = w
      BY <1>1, <1>4, <1>6, <2>1, <2>2 DEF NewestIs
    <2>3. CASE u # w
      BY <1>1, <1>6, <2>1, <2>3, WatchingWatches DEF NewestIs, IndInv
    <2> QED
      BY <2>2, <2>3
  <1> QED
    BY <1>8, <1>9, <1>10, <1>11, <1>12, <1>13 DEF IndInv

(* sendUpdate: the value in hand becomes the one received, or is given up  *)
(* when the channel is closed (filewatcher.go 322-333).                    *)
LEMMA SendUpdateInv ==
  ASSUME NEW w \in Watches, IndInv,
         CheckChan(w) \/ Deliver(w) \/ SendClosed(w)
  PROVE  IndInv'
  <1>1. PICK place \in {"idle", "ready", "stuck"} :
           /\ opLoop' = [opLoop EXCEPT ![w] = place]
           /\ operation' = [operation EXCEPT ![w] =
                              IF place = "idle" THEN NoOp ELSE operation[w]]
           /\ opLoop[w] \in {"sending", "ready"}
           /\ \/ received' = received /\ place = "ready"
              \/ received' = received /\ updateChan[w] # "open"
              \/ /\ received' = [received EXCEPT ![w] = operation[w].arg]
                 /\ place = "idle"
           /\ UNCHANGED <<watcher, value, queries, mu, todo, pendOp, loop,
                       newVal, updateChan, operChan, crash, sets, closes>>
    <2> USE DEF OpLoopTo, stratVars, muVars, runVars, boundVars
    <2>1. CASE CheckChan(w)
      BY <2>1 DEF CheckChan
    <2>2. CASE Deliver(w)
      BY <2>2 DEF Deliver
    <2>3. CASE SendClosed(w)
      BY <2>3 DEF SendClosed
    <2> QED
      BY <2>1, <2>2, <2>3
  <1>2. /\ operation \in [Watches -> PendingOps \cup {NoOp}]
        /\ opLoop \in [Watches -> {"idle", "sending", "ready", "closing",
                                   "stuck"}]
        /\ received \in [Watches -> Values \cup {None}]
        /\ operation[w] \in PendingOps /\ operation[w].op = "send"
        /\ operation[w].arg \in Values
    BY <1>1, PendingOpFields DEF IndInv, TypeOK, OpInv
  <1>3. Watching' = Watching
    BY <1>1 DEF Watching
  <1>4. /\ opLoop'[w] = place
        /\ operation'[w] = (IF place = "idle" THEN NoOp ELSE operation[w])
        /\ \A u \in Watches : u # w => /\ operation'[u] = operation[u]
                                       /\ opLoop'[u] = opLoop[u]
                                       /\ received'[u] = received[u]
        /\ operation' \in [Watches -> PendingOps \cup {NoOp}]
        /\ opLoop' \in [Watches -> {"idle", "sending", "ready", "closing",
                                    "stuck"}]
        /\ received' \in [Watches -> Values \cup {None}]
    BY <1>1, <1>2
  <1>5. TypeOK'
    BY <1>1, <1>3, <1>4 DEF IndInv, TypeOK
  <1>6. LockInv' /\ OwnInv' /\ NoOrphan' /\ NoPanicWhileOpen'
    BY <1>1, <1>3 DEF IndInv, LockInv, OwnInv, NoOrphan, NoPanicWhileOpen
  <1>7. OpInv'
    BY <1>2, <1>4 DEF IndInv, OpInv
  <1>8. QueueInv'
    BY <1>1, <1>4 DEF IndInv, QueueInv
  <1>9. CloseInv'
    BY <1>1, <1>3, <1>4, WatchingWatches DEF IndInv, CloseInv, Named
  <1>10. NewestInv'
    <2> SUFFICES ASSUME NEW u \in Watching
                 PROVE  NewestIs(u, value)' \/ (mu' = "setVal" /\ u \in todo')
      BY <1>3 DEF NewestInv
    <2>1. /\ NewestIs(u, value) \/ (mu = "setVal" /\ u \in todo)
          /\ u \in Watches /\ updateChan[u] = "open"
      BY WatchingWatches DEF IndInv, NewestInv, NoOrphan
    <2>2. CASE u = w
      <3>1. CASE place = "ready"
        BY <1>1, <1>2, <1>4, <2>1, <2>2, <3>1 DEF NewestIs
      <3>2. CASE place # "ready"
        <4>1. received'[u] = operation[u].arg /\ place = "idle"
          BY <1>1, <1>2, <2>1, <2>2, <3>2
        <4> QED
          BY <1>1, <1>4, <2>1, <2>2, <4>1 DEF NewestIs
      <3> QED
        BY <3>1, <3>2
    <2>3. CASE u # w
      BY <1>1, <1>4, <2>1, <2>3 DEF NewestIs
    <2> QED
      BY <2>2, <2>3
  <1> QED
    BY <1>5, <1>6, <1>7, <1>8, <1>9, <1>10 DEF IndInv

(* processWatchClosure closes whatever watches the query now, which is     *)
(* open, and no watch of another query (filewatcher.go 240-264).           *)
LEMMA ProcessWatchClosureInv ==
  ASSUME NEW w \in Watches, IndInv, processWatchClosure(w)
  PROVE  IndInv'
  <1> DEFINE q == operation[w].arg
             found == {queries[q]} \ {None}
  <1>1. /\ q \in Queries
        /\ queries \in [Queries -> Watches \cup {None}]
        /\ updateChan \in [Watches -> {"unmade", "open", "closed"}]
        /\ operation \in [Watches -> PendingOps \cup {NoOp}]
        /\ opLoop \in [Watches -> {"idle", "sending", "ready", "closing",
                                   "stuck"}]
        /\ queries' = [queries EXCEPT ![q] = None]
        /\ closeUpdateChan(found)
        /\ value' = (IF \A p \in Queries : queries'[p] = None THEN None
                     ELSE value)
        /\ opLoop[w] = "closing"
        /\ opLoop' = [opLoop EXCEPT ![w] = "idle"]
        /\ operation' = [operation EXCEPT ![w] = NoOp]
        /\ UNCHANGED <<watcher, mu, todo, pendOp, loop, newVal, operChan,
                       received, sets, closes>>
        /\ mu = "free" /\ todo = {} /\ crash = "no"
    BY PendingOpFields DEF processWatchClosure, IndInv, TypeOK, OpInv,
         LockInv, Running, muVars, runVars, boundVars
  <1> HIDE DEF q
  <1>2. found \subseteq Watching /\ Watching \subseteq Watches
    BY <1>1, WatchingWatches DEF IndInv, Watching
  <1>3. Watching' = Watching \ found
    <2>1. \A p \in Queries : p # q /\ queries[p] # None
                                => queries[p] \notin found
      BY <1>1 DEF IndInv, OwnInv
    <2> QED
      BY <1>1, <2>1 DEF Watching
  <1>4. /\ updateChan' = [u \in Watches |-> IF u \in found THEN "closed"
                                            ELSE updateChan[u]]
        /\ crash' = "no"
    BY <1>1, <1>2 DEF closeUpdateChan, IndInv, NoOrphan
  <1> HIDE DEF found
  <1>5. value' = (IF Watching' = {} THEN None ELSE value)
    <2>1. (\A p \in Queries : queries'[p] = None) <=> Watching' = {}
      BY DEF Watching
    <2> QED
      BY <1>1, <2>1
  <1>6. /\ opLoop'[w] = "idle" /\ operation'[w] = NoOp
        /\ \A u \in Watches : u # w => /\ operation'[u] = operation[u]
                                       /\ opLoop'[u] = opLoop[u]
        /\ operation' \in [Watches -> PendingOps \cup {NoOp}]
        /\ opLoop' \in [Watches -> {"idle", "sending", "ready", "closing",
                                    "stuck"}]
        /\ queries' \in [Queries -> Watches \cup {None}]
        /\ updateChan' \in [Watches -> {"unmade", "open", "closed"}]
    BY <1>1, <1>4
  <1>7. /\ (value # None <=> Watching # {})'
        /\ value' \in Values \cup {None}
    BY <1>3, <1>5 DEF IndInv, TypeOK
  <1>8. TypeOK'
    BY <1>1, <1>4, <1>6, <1>7 DEF IndInv, TypeOK
  <1>9. LockInv' /\ OpInv' /\ NoPanicWhileOpen'
    BY <1>1, <1>4, <1>6 DEF IndInv, LockInv, OpInv, NoPanicWhileOpen
  <1>10. QueueInv'
    BY <1>1, <1>4, <1>6 DEF IndInv, QueueInv
  <1>11. OwnInv'
    BY <1>1 DEF IndInv, OwnInv
  <1>12. CloseInv'
    <2>1. ASSUME NEW u \in Watching', NEW op \in PendingOps, Named(op, u)
          PROVE  Named(op, u)'
      <3>1. u \in Watching /\ u \notin found /\ u # None
        BY <1>2, <1>3, NoneAssumption
      <3>2. op.op = "close" => op.arg \in Queries /\ op.arg # q
        BY <2>1, <3>1, PendingOpFields DEF Named, found
      <3> QED
        BY <1>1, <2>1, <3>2 DEF Named
    <2>2. ASSUME NEW u \in Watching', NEW i \in 1..Len(operChan[u])
          PROVE  Named(operChan[u][i], u)'
      <3>1. /\ u \in Watching /\ Named(operChan[u][i], u)
            /\ operChan[u][i] \in PendingOps
        BY <1>2, <1>3 DEF IndInv, CloseInv, QueueInv
      <3> QED
        BY <1>1, <2>1, <3>1
    <2>3. ASSUME NEW u \in Watching', opLoop'[u] = "closing"
          PROVE  Named(operation[u], u)' /\ u # w
      BY <1>2, <1>3, <1>6, <2>1, <2>3 DEF IndInv, CloseInv, OpInv
    <2> QED
      BY <1>1, <1>2, <1>3, <1>6, <2>2, <2>3 DEF CloseInv, Named
  <1>13. NewestInv'
    <2> SUFFICES ASSUME NEW u \in Watching' PROVE NewestIs(u, value)'
      BY DEF NewestInv
    <2>1. u \in Watching /\ u \in Watches /\ value' = value
      BY <1>2, <1>3, <1>5
    <2>2. NewestIs(u, value)
      BY <1>1, <2>1 DEF IndInv, NewestInv
    <2>3. CASE u = w
      BY <1>1, <1>6, <2>1, <2>2, <2>3 DEF NewestIs
    <2>4. CASE u # w
      BY <1>1, <1>6, <2>1, <2>2, <2>4 DEF NewestIs
    <2> QED
      BY <2>3, <2>4
  <1>14. NoOrphan'
    BY <1>2, <1>3, <1>4 DEF IndInv, NoOrphan
  <1> QED
    BY <1>8, <1>9, <1>10, <1>11, <1>12, <1>13, <1>14 DEF IndInv

(* Every step keeps the invariant.                                         *)
LEMMA NextInv ==
  ASSUME IndInv, [Next]_vars
  PROVE  IndInv'
  <1>1. CASE CallNext
    BY <1>1, WatchNewInv, CloseWatchInv, OutsideInv, CloseAllInv DEF CallNext
  <1>2. CASE RunNext
    BY <1>2, OutsideInv, SetValInv DEF RunNext
  <1>3. CASE \E w \in Watches : Enqueue(w) \/ OpLoopNext(w)
    BY <1>3, EnqueueInv, TakeOpInv, SendUpdateInv, ProcessWatchClosureInv
       DEF OpLoopNext
  <1>4. CASE UNCHANGED vars
    <2>1. UNCHANGED <<watcher, value, queries, mu, todo, pendOp, loop, newVal,
                      updateChan, operChan, opLoop, operation, received,
                      crash, sets, closes>>
      BY <1>4 DEF vars, stratVars, muVars, runVars, opVars, boundVars
    <2>2. /\ OpInv' /\ QueueInv' /\ OwnInv' /\ CloseInv' /\ NewestInv'
          /\ NoOrphan' /\ (todo \subseteq Watching)'
          /\ (value # None <=> Watching # {})'
      BY <2>1, Untouched DEF muVars, opVars
    <2>3. TypeOK' /\ LockInv' /\ NoPanicWhileOpen'
      BY <2>1, <2>2 DEF IndInv, TypeOK, LockInv, NoPanicWhileOpen
    <2> QED
      BY <2>2, <2>3 DEF IndInv
  <1> QED
    BY <1>1, <1>2, <1>3, <1>4 DEF Next

(* The inductive invariant of the fan-out.                                 *)
LEMMA Invariance == Spec => []IndInv
  BY InitInv, NextInv, PTL DEF Spec

-----------------------------------------------------------------------------
(* Safety                                                                  *)

(***************************************************************************)
(* The state of strategy, queryWatches and goroutines is well formed; in   *)
(* particular no queue exceeds its capacity, and the path is in s.paths    *)
(* exactly while it has queries.                                           *)
(***************************************************************************)
THEOREM TypeCorrect == Spec => []TypeOK
  <1>1. IndInv => TypeOK
    BY DEF IndInv
  <1> QED
    BY <1>1, Invariance, PTL

(***************************************************************************)
(* No watcher misses the last value (filewatcher.go 136-153, 198-213,      *)
(* 287-333), with any number of watchers and queues of any capacity.       *)
(***************************************************************************)
THEOREM NoValueIsLost == Spec => []NothingDropped
  <1>1. ASSUME IndInv
        PROVE  NothingDropped
    <2> SUFFICES ASSUME NEW w \in Watching,
                        ~(mu = "setVal" /\ w \in todo)
                 PROVE  Newest(w) = value
      BY DEF NothingDropped
    <2>1. w \in Watches /\ operChan[w] \in Seq(PendingOps)
      BY <1>1, WatchingWatches DEF IndInv, TypeOK
    <2>2. NewestIs(w, value)
      BY <1>1 DEF IndInv, NewestInv
    <2> QED
      BY <2>1, <2>2, NewestIsNewest
  <1> QED
    BY <1>1, Invariance, PTL

(***************************************************************************)
(* A channel is open exactly while the strategy knows its watch            *)
(* (filewatcher.go 240-285).                                               *)
(***************************************************************************)
THEOREM OpenIsKnown == Spec => []NoOrphan
  <1>1. IndInv => NoOrphan
    BY DEF IndInv
  <1> QED
    BY <1>1, Invariance, PTL

(***************************************************************************)
(* Nothing panics while the strategy is open, and no update channel is     *)
(* ever closed twice (filewatcher.go 240-285).                             *)
(***************************************************************************)
THEOREM NoPanic == Spec => []NoPanicWhileOpen
  <1>1. IndInv => NoPanicWhileOpen
    BY DEF IndInv
  <1> QED
    BY <1>1, Invariance, PTL

-----------------------------------------------------------------------------
(* Refinement                                                              *)

(* What has been taken, what is queued and what is owed, put together.     *)
LEMMA Concats ==
  ASSUME NEW S, NEW a \in Seq(S), NEW b \in Seq(S), NEW c \in Seq(S),
         NEW x \in S
  PROVE  /\ (a \o b) \o << >> = a \o b
         /\ (<< >> \o b) \o c = b \o c
         /\ a \o b \in Seq(S) /\ (a \o b) \o c \in Seq(S)
         /\ (a \o Append(b, x)) \o << >> = (a \o b) \o <<x>>
         /\ Append(a \o b, x) = (a \o b) \o <<x>>
         /\ (<<x>> \o b) \o c # << >>
         /\ Head((<<x>> \o b) \o c) = x
         /\ Tail((<<x>> \o b) \o c) = b \o c
         /\ b # << >> => (<<Head(b)>> \o Tail(b)) \o c = b \o c
  <1>1. /\ a \o b \in Seq(S) /\ b \o c \in Seq(S) /\ <<x>> \in Seq(S)
        /\ (a \o b) \o c \in Seq(S)
    BY ConcatProperties
  <1>2. (a \o b) \o << >> = a \o b
    BY <1>1, ConcatEmptySeq
  <1>3. (<< >> \o b) \o c = b \o c
    BY ConcatEmptySeq
  <1>4. Append(a \o b, x) = (a \o b) \o <<x>>
    BY <1>1, AppendIsConcat
  <1>5. (a \o Append(b, x)) \o << >> = (a \o b) \o <<x>>
    <2>1. Append(b, x) = b \o <<x>> /\ b \o <<x>> \in Seq(S)
      BY <1>1, AppendIsConcat, ConcatProperties
    <2>2. a \o (b \o <<x>>) = (a \o b) \o <<x>>
      BY <1>1, ConcatAssociative
    <2>3. a \o (b \o <<x>>) \in Seq(S)
      BY <2>1, ConcatProperties
    <2> QED
      BY <2>1, <2>2, <2>3, ConcatEmptySeq
  <1>6. (<<x>> \o b) \o c = <<x>> \o (b \o c)
    BY <1>1, ConcatAssociative
  <1>7. /\ <<x>> \o (b \o c) # << >>
        /\ Head(<<x>> \o (b \o c)) = x
        /\ Tail(<<x>> \o (b \o c)) = b \o c
    <2> DEFINE d == b \o c
               e == <<x>> \o d
    <2> HIDE DEF d
    <2>1. d \in Seq(S)
      BY <1>1 DEF d
    <2>2. /\ e \in Seq(S) /\ Len(e) = 1 + Len(d) /\ e[1] = x
          /\ Len(d) \in Nat
          /\ \A i \in 1..Len(d) : e[i + 1] = d[i]
      BY <2>1, <1>1, ConcatProperties, LenProperties
    <2> HIDE DEF e
    <2>3. e # << >>
      BY <2>2
    <2>4. /\ Tail(e) \in Seq(S) /\ Len(Tail(e)) = Len(d) /\ Head(e) = x
          /\ \A i \in 1..Len(d) : Tail(e)[i] = d[i]
      BY <2>2, <2>3, HeadTailProperties
    <2>5. Tail(e) = d
      BY <2>1, <2>4, SeqEqual
    <2> QED
      BY <2>3, <2>4, <2>5 DEF d, e
  <1>8. ASSUME b # << >>
        PROVE  (<<Head(b)>> \o Tail(b)) \o c = b \o c
    <2> DEFINE d == Tail(b)
               e == <<Head(b)>> \o d
    <2>1. /\ d \in Seq(S) /\ Head(b) \in S /\ Len(b) \in Nat \ {0}
          /\ Len(d) = Len(b) - 1 /\ Head(b) = b[1]
          /\ \A i \in 1..Len(d) : d[i] = b[i + 1]
      BY <1>8, HeadTailProperties, LenProperties, EmptySeq
    <2> HIDE DEF d
    <2>2. /\ e \in Seq(S) /\ Len(e) = 1 + Len(d)
          /\ e[1] = b[1]
          /\ \A i \in 1..Len(d) : e[i + 1] = d[i]
      BY <2>1, ConcatProperties
    <2> HIDE DEF e
    <2>3. \A i \in 1..Len(b) : e[i] = b[i]
      <3> SUFFICES ASSUME NEW i \in 1..Len(b) PROVE e[i] = b[i]
        OBVIOUS
      <3>1. CASE i = 1
        BY <2>2, <3>1
      <3>2. CASE i # 1
        <4>1. i - 1 \in 1..Len(d)
          BY <2>1, <3>2
        <4> QED
          BY <2>1, <2>2, <4>1
      <3> QED
        BY <3>1, <3>2
    <2>4. e = b
      BY <2>1, <2>2, <2>3, SeqEqual
    <2> QED
      BY <2>4 DEF d, e
  <1> QED
    BY <1>1, <1>2, <1>3, <1>4, <1>5, <1>6, <1>7, <1>8

(* The three places a watch's operations are in hold operations.           *)
LEMMA Places ==
  ASSUME IndInv, NEW w \in Watching
  PROVE  /\ InHand(w) \in Seq(PendingOps) /\ operChan[w] \in Seq(PendingOps)
         /\ Owed(w) \in Seq(PendingOps)
         /\ w \in Watches /\ updateChan[w] = "open"
         /\ opLoop[w] \in {"sending", "ready", "closing"}
               => operation[w] \in PendingOps /\ InHand(w) = <<operation[w]>>
         /\ w \in todo => pendOp \in PendingOps /\ Owed(w) = <<pendOp>>
  <1>1. w \in Watches /\ operChan[w] \in Seq(PendingOps)
        /\ updateChan[w] = "open"
    BY WatchingWatches DEF IndInv, TypeOK, NoOrphan
  <1>2. opLoop[w] \in {"sending", "ready", "closing"}
           => operation[w] \in PendingOps
    BY <1>1 DEF IndInv, OpInv
  <1>3. value \in Values
    BY DEF IndInv, TypeOK
  <1>4. w \in todo => pendOp \in PendingOps
    BY <1>3, MadeOps DEF IndInv, TypeOK, LockInv
  <1> QED
    BY <1>1, <1>2, <1>4 DEF InHand, Owed

(* The news of a watch, whatever its opLoop is doing.                      *)
Bar == [w \in Watches |-> IF w \in Watching THEN Pending(w) ELSE << >>]

(* A step that changes no watch's news, value or last value is invisible.  *)
LEMMA Invisible ==
  ASSUME Watching' = Watching, value' = value, received' = received,
         \A w \in Watching : Pending(w)' = Pending(w)
  PROVE  UNCHANGED Stream!vars
  <1>1. Bar' = Bar
    BY DEF Bar
  <1> QED
    BY <1>1 DEF Stream!vars, Bar

(* Initially nobody watches.                                               *)
LEMMA InitImplements == Init => Stream!Init
  <1> SUFFICES ASSUME Init PROVE Stream!Init
    OBVIOUS
  <1>1. Watching = {}
    BY DEF Init, Watching
  <1> QED
    BY <1>1 DEF Init, Stream!Init

(* Watch of a new query opens a watch without news.                        *)
LEMMA WatchImplements ==
  ASSUME IndInv, NEW q \in Queries, NEW v \in Values, WatchNew(q, v)
  PROVE  \E w \in Watches : Stream!Watch(w)
  <1>1. PICK n \in Watches : n = NewWatch /\ updateChan[n] = "unmade"
    BY DEF WatchNew, NewWatch
  <1>2. /\ n \notin Watching /\ n # None
        /\ operChan[n] = << >> /\ opLoop[n] = "idle"
    BY <1>1, NoneAssumption DEF IndInv, NoOrphan, QueueInv
  <1>3. /\ queries \in [Queries -> Watches \cup {None}]
        /\ queries[q] = None
        /\ queries' = [queries EXCEPT ![q] = n]
        /\ received' = [received EXCEPT ![n] = value']
        /\ value' = (IF value = None THEN v ELSE value)
        /\ UNCHANGED <<operChan, opLoop, operation, todo, pendOp>>
        /\ todo = {}
    BY <1>1 DEF WatchNew, EnterPath, IndInv, TypeOK, LockInv, muVars, opVars
  <1>4. Watching' = Watching \cup {n}
    BY <1>2, <1>3 DEF Watching
  <1>5. Pending(n)' = << >>
    BY <1>2, <1>3, EmptySeq, ConcatEmptySeq DEF Pending, InHand, Owed
  <1>6. \A u \in Watching : Pending(u)' = Pending(u)
    BY <1>3 DEF Pending, InHand, Owed
  <1>7. Bar' = Bar
    BY <1>2, <1>4, <1>5, <1>6 DEF Bar
  <1>8. Stream!Watch(n)
    BY <1>2, <1>3, <1>4, <1>7 DEF Stream!Watch, Bar
  <1> QED
    BY <1>1, <1>8

(* CloseWatch puts a request behind the news of the watch.                 *)
LEMMA AskImplements ==
  ASSUME IndInv, NEW q \in Queries, CloseWatch(q)
  PROVE  \E w \in Watches : Stream!Ask(w, q)
  <1>1. PICK w : w = queries[q]
    OBVIOUS
  <1>2. /\ w \in Watching
        /\ todo' = {w} /\ pendOp' = CloseOp(q) /\ todo = {}
        /\ UNCHANGED <<value, queries, operChan, opLoop, operation, received>>
    BY <1>1 DEF CloseWatch, IndInv, LockInv, Watching, stratVars, opVars
  <1>3. Watching' = Watching
    BY <1>2 DEF Watching
  <1>4. CloseOp(q) \in PendingOps
    BY MadeOps
  <1>5. Pending(w)' = Append(Pending(w), CloseOp(q))
    <2>1. Pending(w) = InHand(w) \o operChan[w] \o << >>
          /\ Pending(w)' = InHand(w) \o operChan[w] \o <<CloseOp(q)>>
      BY <1>2 DEF Pending, InHand, Owed
    <2> QED
      BY <1>2, <1>4, <2>1, Places, Concats
  <1>6. \A u \in Watching : u # w => Pending(u)' = Pending(u)
    BY <1>2 DEF Pending, InHand, Owed
  <1>7. w \in Watches
    BY <1>2, Places
  <1>8. Bar' = [Bar EXCEPT ![w] = Append(Bar[w], CloseOp(q))]
    BY <1>2, <1>3, <1>5, <1>6, <1>7 DEF Bar
  <1>9. Stream!Ask(w, q)
    BY <1>2, <1>3, <1>8 DEF Stream!Ask, Stream!Request, CloseOp, Bar
  <1> QED
    BY <1>7, <1>9

(* Close closes every watch.                                               *)
LEMMA CloseImplements ==
  ASSUME IndInv, Close
  PROVE  \E ws \in SUBSET Watching : Stream!Close(ws)
  <1>1. /\ queries' = [q \in Queries |-> None]
        /\ value' = None /\ received' = received
    BY DEF Close
  <1>2. Watching' = {}
    BY <1>1 DEF Watching
  <1>3. PICK ws : ws = Watching
    OBVIOUS
  <1>4. Bar' = [w \in Watches |-> IF w \in ws THEN << >> ELSE Bar[w]]
    BY <1>2, <1>3 DEF Bar
  <1>5. Stream!Close(ws)
    BY <1>1, <1>2, <1>3, <1>4 DEF Stream!Close, Bar
  <1> QED
    BY <1>3, <1>5

(* setVal gives every watch the new value, at once.                        *)
LEMMA SetImplements ==
  ASSUME IndInv, setVal
  PROVE  (\E v \in Values : Stream!Set(v)) \/ UNCHANGED Stream!vars
  <1>1. /\ UNCHANGED <<queries, operChan, opLoop, operation, received>>
        /\ newVal \in Values /\ todo = {}
    BY DEF setVal, opVars, IndInv, LockInv
  <1>2. Watching' = Watching
    BY <1>1 DEF Watching
  <1>3. CASE value = None
    <2>1. UNCHANGED <<value, todo, pendOp>>
      BY <1>3 DEF setVal, muVars
    <2>2. \A w \in Watching : Pending(w)' = Pending(w)
      BY <1>1, <2>1 DEF Pending, InHand, Owed
    <2> QED
      BY <1>1, <1>2, <2>1, <2>2, Invisible
  <1>4. CASE value # None
    <2>1. PICK v \in Values : v = newVal
      BY <1>1
    <2>2. value' = v /\ todo' = Watching /\ pendOp' = Send(v)
      BY <1>4, <2>1 DEF setVal
    <2>3. ASSUME NEW w \in Watching
          PROVE  Pending(w)' = Append(Pending(w), Send(v))
      <3>1. Pending(w) = InHand(w) \o operChan[w] \o << >>
            /\ Pending(w)' = InHand(w) \o operChan[w] \o <<Send(v)>>
        BY <1>1, <2>2 DEF Pending, InHand, Owed
      <3> QED
        BY <2>1, <3>1, Places, Concats, MadeOps
    <2>4. Bar' = [w \in Watches |-> IF w \in Watching
                                    THEN Append(Bar[w], Send(v)) ELSE Bar[w]]
      BY <1>2, <2>3 DEF Bar
    <2>5. Stream!Set(v)
      BY <1>1, <1>2, <1>4, <2>2, <2>4 DEF Stream!Set, Stream!Update, Send, Bar
    <2> QED
      BY <2>1, <2>5
  <1> QED
    BY <1>3, <1>4

(* Steps that nobody sees: an operation moves on to the queue or to the    *)
(* hand of opLoop, or touches no queryWatch at all.                        *)
LEMMA EnqueueInvisible ==
  ASSUME IndInv, NEW w \in Watches, Enqueue(w)
  PROVE  UNCHANGED Stream!vars
  <1>1. /\ w \in todo /\ w \in Watching
        /\ operChan \in [Watches -> Seq(PendingOps)]
        /\ operChan' = [operChan EXCEPT ![w] = Append(operChan[w], pendOp)]
        /\ todo' = todo \ {w}
        /\ pendOp' = IF todo = {w} THEN NoOp ELSE pendOp
        /\ UNCHANGED <<value, queries, opLoop, operation, received>>
    BY DEF Enqueue, IndInv, LockInv, QueueInv, stratVars
  <1>2. Watching' = Watching
    BY <1>1 DEF Watching
  <1>3. Pending(w)' = Pending(w)
    <2>1. /\ Pending(w) = InHand(w) \o operChan[w] \o <<pendOp>>
          /\ Pending(w)' = InHand(w) \o Append(operChan[w], pendOp) \o << >>
      BY <1>1 DEF Pending, InHand, Owed
    <2> QED
      BY <1>1, <2>1, Places, Concats
  <1>4. ASSUME NEW u \in Watching, u # w
        PROVE  Pending(u)' = Pending(u)
    <2>1. u \in Watches
      BY Places
    <2>2. operChan'[u] = operChan[u] /\ Owed(u)' = Owed(u)
      BY <1>1, <1>4, <2>1 DEF Owed
    <2> QED
      BY <1>1, <2>2 DEF Pending, InHand
  <1> QED
    BY <1>1, <1>2, <1>3, <1>4, Invisible

LEMMA TakeOpInvisible ==
  ASSUME IndInv, NEW w \in Watches, TakeOp(w)
  PROVE  UNCHANGED Stream!vars
  <1>1. /\ operChan[w] # << >> /\ opLoop[w] = "idle"
        /\ operChan \in [Watches -> Seq(PendingOps)]
        /\ operation' = [operation EXCEPT ![w] = Head(operChan[w])]
        /\ operChan' = [operChan EXCEPT ![w] = Tail(operChan[w])]
        /\ opLoop' = [opLoop EXCEPT ![w] = IF Head(operChan[w]).op = "send"
                                           THEN "sending" ELSE "closing"]
        /\ UNCHANGED <<value, queries, todo, pendOp, received>>
        /\ operation \in [Watches -> PendingOps \cup {NoOp}]
        /\ opLoop \in [Watches -> {"idle", "sending", "ready", "closing",
                                   "stuck"}]
    BY DEF TakeOp, IndInv, QueueInv, TypeOK, stratVars, muVars
  <1>2. Watching' = Watching
    BY <1>1 DEF Watching
  <1>3. ASSUME w \in Watching
        PROVE  Pending(w)' = Pending(w)
    <2>1. Owed(w) \in Seq(PendingOps)
      BY <1>3, Places
    <2>2. Pending(w) = << >> \o operChan[w] \o Owed(w)
      BY <1>1 DEF Pending, InHand
    <2>3. Pending(w)' = <<Head(operChan[w])>> \o Tail(operChan[w]) \o Owed(w)
      BY <1>1 DEF Pending, InHand, Owed
    <2>4. Head(operChan[w]) \in PendingOps
      BY <1>1, HeadTailProperties
    <2> QED
      BY <1>1, <2>1, <2>2, <2>3, <2>4, Concats
  <1>4. ASSUME NEW u \in Watching, u # w
        PROVE  Pending(u)' = Pending(u)
    <2>1. u \in Watches
      BY Places
    <2> QED
      BY <1>1, <1>4, <2>1 DEF Pending, InHand, Owed
  <1> QED
    BY <1>1, <1>2, <1>3, <1>4, Invisible

LEMMA OutsideInvisible ==
  ASSUME \/ WatchFails \/ WatchClosed
         \/ NothingToSet \/ NextSelect \/ EventsClosed
         \/ \E v \in Values : Resync(v)
         \/ UNCHANGED vars
  PROVE  UNCHANGED Stream!vars
  <1>1. UNCHANGED <<value, queries, todo, pendOp, operChan, opLoop, operation,
                    received>>
    BY DEF WatchFails, WatchClosed, NothingToSet, NextSelect, EventsClosed,
           Resync, vars, stratVars, muVars, opVars
  <1>2. Watching' = Watching
    BY <1>1 DEF Watching
  <1>3. \A w \in Watching : Pending(w)' = Pending(w)
    BY <1>1 DEF Pending, InHand, Owed
  <1> QED
    BY <1>1, <1>2, <1>3, Invisible

(* sendUpdate delivers the first of the news, or, when the channel is      *)
(* closed, what belongs to a watch that is gone.                           *)
LEMMA SendUpdateImplements ==
  ASSUME IndInv, NEW w \in Watches,
         CheckChan(w) \/ Deliver(w) \/ SendClosed(w)
  PROVE  Stream!Deliver(w) \/ UNCHANGED Stream!vars
  <1> USE DEF OpLoopTo, stratVars, muVars
  <1>0. /\ UNCHANGED <<value, queries, todo, pendOp, operChan>>
        /\ opLoop[w] \in {"sending", "ready"}
        /\ \A u \in Watches : u # w => /\ operation'[u] = operation[u]
                                       /\ opLoop'[u] = opLoop[u]
        /\ opLoop \in [Watches -> {"idle", "sending", "ready", "closing",
                                   "stuck"}]
        /\ operation \in [Watches -> PendingOps \cup {NoOp}]
    BY DEF CheckChan, Deliver, SendClosed, IndInv, TypeOK
  <1>1. Watching' = Watching
    BY <1>0 DEF Watching
  <1>2. ASSUME NEW u \in Watching, u # w
        PROVE  Pending(u)' = Pending(u)
    <2>1. u \in Watches
      BY Places
    <2> QED
      BY <1>0, <1>2, <2>1 DEF Pending, InHand, Owed
  <1>3. CASE Deliver(w)
    <2>1. w \in Watching
      BY <1>3 DEF Deliver, IndInv, NoOrphan
    <2>2. /\ opLoop' = [opLoop EXCEPT ![w] = "idle"]
          /\ received' = [received EXCEPT ![w] = operation[w].arg]
          /\ operation[w] \in PendingOps /\ operation[w].op = "send"
      BY <1>3 DEF Deliver, IndInv, OpInv
    <2>3. /\ operChan[w] \in Seq(PendingOps) /\ Owed(w) \in Seq(PendingOps)
          /\ Pending(w) = <<operation[w]>> \o operChan[w] \o Owed(w)
          /\ Pending(w)' = << >> \o operChan[w] \o Owed(w)
      BY <1>0, <2>1, <2>2, Places DEF Pending, InHand, Owed
    <2>4. /\ Pending(w) # << >> /\ Head(Pending(w)) = operation[w]
          /\ Pending(w)' = Tail(Pending(w))
      BY <2>2, <2>3, Concats
    <2>5. Bar[w] = Pending(w) /\ Bar' = [Bar EXCEPT ![w] = Tail(Bar[w])]
      BY <1>1, <1>2, <2>1, <2>4 DEF Bar
    <2>6. Stream!Deliver(w)
      BY <1>0, <1>1, <2>2, <2>4, <2>5 DEF Stream!Deliver, Bar
    <2> QED
      BY <2>6
  <1>4. CASE CheckChan(w) \/ SendClosed(w)
    <2>1. received' = received
      BY <1>4 DEF CheckChan, SendClosed
    <2>2. ASSUME w \in Watching
          PROVE  Pending(w)' = Pending(w)
      <3>1. updateChan[w] = "open"
        BY <2>2, Places
      <3>2. opLoop' = [opLoop EXCEPT ![w] = "ready"] /\ operation' = operation
        BY <1>0, <1>4, <3>1 DEF CheckChan, SendClosed
      <3> QED
        BY <1>0, <3>2 DEF Pending, InHand, Owed
    <2> QED
      BY <1>0, <1>1, <1>2, <2>1, <2>2, Invisible
  <1> QED
    BY <1>3, <1>4

(* processWatchClosure closes the watch of its query, if it has one.  When *)
(* opLoop belongs to a watch that is known, it is that one.                *)
LEMMA ProcessWatchClosureImplements ==
  ASSUME IndInv, NEW w \in Watches, processWatchClosure(w)
  PROVE  \E ws \in SUBSET Watching : Stream!Close(ws)
  <1>1. PICK q \in Queries : q = operation[w].arg
    BY PendingOpFields DEF processWatchClosure, IndInv, OpInv
  <1>2. PICK found : found = {queries[q]} \ {None}
    OBVIOUS
  <1>3. /\ queries \in [Queries -> Watches \cup {None}]
        /\ queries' = [queries EXCEPT ![q] = None]
        /\ value' = (IF \A p \in Queries : queries'[p] = None THEN None
                     ELSE value)
        /\ opLoop[w] = "closing"
        /\ \A u \in Watches : u # w => /\ operation'[u] = operation[u]
                                       /\ opLoop'[u] = opLoop[u]
        /\ UNCHANGED <<todo, pendOp, operChan, received>>
    BY <1>1 DEF processWatchClosure, IndInv, TypeOK, muVars
  <1>4. found \subseteq Watching
    BY <1>2, <1>3 DEF Watching
  <1>5. Watching' = Watching \ found
    <2>1. \A p \in Queries : p # q /\ queries[p] # None
                                => queries[p] \notin found
      BY <1>2 DEF IndInv, OwnInv
    <2> QED
      BY <1>2, <1>3, <2>1 DEF Watching
  <1>6. value' = (IF Watching' = {} THEN None ELSE value)
    <2>1. (\A p \in Queries : queries'[p] = None) <=> Watching' = {}
      BY DEF Watching
    <2> QED
      BY <1>3, <2>1
  <1>7. w \in Watching => w \in found
    <2>1. operation[w].op = "close"
      BY <1>3 DEF IndInv, OpInv
    <2> QED
      BY <1>1, <1>2, <1>3, <2>1, NoneAssumption DEF IndInv, CloseInv, Named
  <1>8. ASSUME NEW u \in Watching'
        PROVE  Pending(u)' = Pending(u)
    <2>1. u \in Watching /\ u # w /\ u \in Watches
      BY <1>5, <1>7, Places
    <2> QED
      BY <1>3, <2>1 DEF Pending, InHand, Owed
  <1>9. Bar' = [u \in Watches |-> IF u \in found THEN << >> ELSE Bar[u]]
    BY <1>5, <1>8 DEF Bar
  <1>10. Stream!Close(found)
    BY <1>3, <1>5, <1>6, <1>9 DEF Stream!Close, Bar
  <1> QED
    BY <1>4, <1>10

(***************************************************************************)
(* The strategy keeps the promise of a value stream to any number of       *)
(* watchers, whatever the capacity of their queues: each sees the values   *)
(* from its Watch on, each once and in order (filewatcher.go 136-333).     *)
(***************************************************************************)
THEOREM Implements == Spec => DeliversInOrder
  <1>1. Init => Stream!Init
    BY InitImplements
  <1>2. ASSUME IndInv, [Next]_vars
        PROVE  [Stream!Next]_(Stream!vars)
    <2>1. CASE CallNext
      BY <1>2, <2>1, WatchImplements, AskImplements, CloseImplements,
         OutsideInvisible DEF CallNext, Stream!Next
    <2>2. CASE RunNext
      BY <1>2, <2>2, SetImplements, OutsideInvisible
         DEF RunNext, Stream!Next
    <2>3. CASE \E w \in Watches : Enqueue(w) \/ OpLoopNext(w)
      BY <1>2, <2>3, EnqueueInvisible, TakeOpInvisible, SendUpdateImplements,
         ProcessWatchClosureImplements DEF OpLoopNext, Stream!Next
    <2>4. CASE UNCHANGED vars
      BY <2>4, OutsideInvisible
    <2> QED
      BY <1>2, <2>1, <2>2, <2>3, <2>4 DEF Next
  <1> QED
    BY <1>1, <1>2, Invariance, PTL DEF Spec, DeliversInOrder, Stream!Spec

=============================================================================
