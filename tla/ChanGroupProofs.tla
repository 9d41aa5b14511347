--------------------------- MODULE ChanGroupProofs ---------------------------
(***************************************************************************)
(* Proofs about ChanGroup, for any set of connections, any set of          *)
(* connection strings, any driver options and any number of changes.       *)
(*                                                                         *)
(* The safety properties of ChanGroup speak of the moments between two     *)
(* changes.  None of them is inductive: they hold there because of what    *)
(* the sets and the local variables of processNewValue mean at every       *)
(* moment, which the parts of IndInv say.                                  *)
(***************************************************************************)
EXTENDS ChanGroupRefines, TLAPS

(* The pool may hand the connection to a user without its IsValid noticing *)
(* a cancelled context in between.                                         *)
Waiting(c) ==
    \/ pool[c] \in {"fresh", "idle"}
    \/ pool[c] = "inuse" /\ ~CtxDone(cctx[c])

(* The local variables of the loop, by the place the loop is at.           *)
LoopInv ==
    /\ Settled => toClose = {} /\ toReset = {}
    /\ loop = "lock" /\ newValue # value => ctx < MaxChanges
    /\ loop \in {"close", "closing"} => target \in Conns /\ cctx[target] < ctx
    /\ loop = "close" => forceKill /\ reset[target]
    /\ loop = "closing" => closed[target]

(* Open holds cg.mu: the string it opens is still the current one.         *)
OpeningInv ==
    opening # None => /\ Unreferenced(opening)
                      /\ dsn[opening] = Merged(value).dsn

(* Each set of connections holds connections of one context.               *)
SetsInv ==
    /\ \A c \in conns : /\ cctx[c] = ctx
                        /\ dsn[c] = Merged(value).dsn
                        /\ Live(c)
    /\ \A c \in prevConns : cctx[c] = ctx - 1 /\ (reset[c] \/ c \in toReset)
    /\ \A c \in toClose : /\ cctx[c] = IF forceKill THEN ctx - 1 ELSE ctx - 2
                          /\ forceKill \/ reset[c]
    /\ toReset \subseteq prevConns

(* Contexts end in the order they were made, the current one last.         *)
CtxInv ==
    /\ prevCancel = ctx - 1
    /\ loop = "cancel" => toCancel = IF forceKill THEN ctx - 1 ELSE ctx - 2
    /\ ~parentDone => \A x \in done : x < ctx /\ ~InGrace(x)
    /\ \A x \in 0..(ctx - 1) : \/ InGrace(x)
                               \/ x \in done
                               \/ loop = "cancel" /\ x = toCancel
    /\ \A c \in Conns : cctx[c] <= ctx
    /\ ChangeCounted

(* Each open connection is in a set from which the loop will retire it,    *)
(* and each connection that may be used again is current or marked.        *)
ConnInv(c) ==
    /\ Live(c) /\ ~closed[c] => \/ c \in conns
                                \/ ~forceKill /\ c \in prevConns
                                \/ c \in toClose
    /\ pool[c] \in {"invalidating", "aborting", "closing", "gone"} => closed[c]
    /\ pool[c] \in {"invalidating", "aborting"} => CtxDone(cctx[c])
    /\ Waiting(c) => /\ cctx[c] = ctx => c \in conns
                     /\ cctx[c] # ctx => reset[c] \/ c \in toReset
                     /\ closed[c] => reset[c]
    /\ /\ ~parentDone
       /\ pool[c] \in {"fresh", "idle", "inuse"}
       /\ InGrace(cctx[c])
       => ~closed[c]

ConnsInv == \A c \in Conns : ConnInv(c)

IndInv == TypeOK /\ LoopInv /\ OpeningInv /\ SetsInv /\ CtxInv /\ ConnsInv

-----------------------------------------------------------------------------

(* Init (hdriver.Open, driver.go 458-470) establishes every part.          *)
LEMMA InitInv == Init => IndInv
  <1> SUFFICES ASSUME Init PROVE IndInv
    OBVIOUS
  <1> USE NoneAssumption, ChangesAssumption DEF Init
  <1>1. TypeOK
    <2>1. /\ ctx \in 0..MaxChanges /\ changeTotal \in 0..MaxChanges
          /\ prevCancel \in NilCancel..MaxChanges
          /\ toCancel \in NilCancel..MaxChanges
          /\ cctx \in [Conns -> 0..MaxChanges]
      BY DEF NilCancel
    <2>2. /\ dsn \in [Conns -> {EmptyDsn} \cup {Merged(v).dsn : v \in Values}]
          /\ pool \in [Conns -> PoolStates]
          /\ loop \in LoopStates
      BY DEF PoolStates, LoopStates
    <2> QED
      BY <2>1, <2>2 DEF TypeOK
  <1>2. LoopInv
    BY DEF LoopInv, Settled
  <1>3. OpeningInv
    BY DEF OpeningInv
  <1>4. SetsInv
    BY DEF SetsInv
  <1>5. CtxInv
    BY DEF CtxInv, NilCancel, InGrace, ChangeCounted
  <1>6. ConnsInv
    BY DEF ConnsInv, ConnInv, Live, Waiting
  <1> QED
    BY <1>1, <1>2, <1>3, <1>4, <1>5, <1>6 DEF IndInv

(* Open locks cg.mu: the string it reads stays current.                    *)
LEMMA OpenBeginInv ==
  ASSUME NEW c \in Conns, IndInv, OpenBegin(c)
  PROVE  IndInv'
  <1> USE NoneAssumption DEF IndInv, OpenBegin, groupVars, setVars, ctxVars,
          loopVars
  <1>1. TypeOK'
    BY DEF TypeOK
  <1>2. LoopInv'
    BY DEF LoopInv, Settled
  <1>3. OpeningInv'
    BY DEF OpeningInv, Unreferenced, Live, TypeOK
  <1>4. SetsInv'
    BY DEF SetsInv, Live, TypeOK, Unreferenced
  <1>5. CtxInv'
    BY DEF CtxInv, InGrace, ChangeCounted
  <1>6. ConnsInv'
    BY DEF ConnsInv, ConnInv, Live, Waiting, InGrace, CtxDone
  <1> QED
    BY <1>1, <1>2, <1>3, <1>4, <1>5, <1>6 DEF IndInv

(* Open appends the new connection under the lock.                         *)
LEMMA OpenOkInv ==
  ASSUME IndInv, OpenOk
  PROVE  IndInv'
  <1> USE NoneAssumption DEF IndInv, OpenOk, newManagedConn, groupVars,
          ctxVars, loopVars
  <1>0. opening \in Conns
    BY DEF TypeOK
  <1>1. TypeOK'
    BY <1>0 DEF TypeOK, PoolStates
  <1>2. LoopInv'
    BY <1>0 DEF LoopInv, Settled, OpeningInv, Unreferenced, TypeOK
  <1>3. OpeningInv'
    BY <1>0 DEF OpeningInv, Unreferenced, Live
  <1>4. SetsInv'
    BY <1>0 DEF SetsInv, Live, TypeOK, OpeningInv, Unreferenced
  <1>5. CtxInv'
    <2>1. \A d \in Conns : cctx'[d] <= ctx'
      BY <1>0 DEF CtxInv, TypeOK
    <2> QED
      BY <2>1 DEF CtxInv, InGrace, ChangeCounted
  <1>6. ConnsInv'
    BY <1>0 DEF ConnsInv, ConnInv, Live, Waiting, InGrace, CtxDone, TypeOK,
       CtxInv, OpeningInv, Unreferenced
  <1> QED
    BY <1>1, <1>2, <1>3, <1>4, <1>5, <1>6 DEF IndInv

(* A failed Open leaves nothing behind.                                    *)
LEMMA OpenErrorInv ==
  ASSUME IndInv, OpenError
  PROVE  IndInv'
  <1> USE NoneAssumption DEF IndInv, OpenError, groupVars, setVars, ctxVars,
          loopVars, fieldVars
  <1>1. TypeOK'
    BY DEF TypeOK
  <1>2. LoopInv'
    BY DEF LoopInv, Settled
  <1>3. OpeningInv'
    BY DEF OpeningInv, Unreferenced, Live
  <1>4. SetsInv'
    BY DEF SetsInv, Live
  <1>5. CtxInv'
    BY DEF CtxInv, InGrace, ChangeCounted
  <1>6. ConnsInv'
    BY DEF ConnsInv, ConnInv, Live, Waiting, InGrace, CtxDone
  <1> QED
    BY <1>1, <1>2, <1>3, <1>4, <1>5, <1>6 DEF IndInv

(* The loop's select, its three cases.                                     *)
LEMMA ReceiveInv ==
  ASSUME NEW v \in Values, IndInv, Receive(v)
  PROVE  IndInv'
  <1> USE NoneAssumption DEF IndInv, Receive, groupVars, setVars, ctxVars,
          fieldVars
  <1>1. TypeOK'
    BY DEF TypeOK, LoopStates
  <1>2. LoopInv'
    BY DEF LoopInv, Settled
  <1>3. OpeningInv'
    BY DEF OpeningInv, Unreferenced, Live
  <1>4. SetsInv'
    BY DEF SetsInv, Live
  <1>5. CtxInv'
    BY DEF CtxInv, InGrace, ChangeCounted
  <1>6. ConnsInv'
    BY DEF ConnsInv, ConnInv, Live, Waiting, InGrace, CtxDone
  <1> QED
    BY <1>1, <1>2, <1>3, <1>4, <1>5, <1>6 DEF IndInv

(* The strategy closed the channel: the loop returns and changes nothing.  *)
LEMMA ChanClosedInv ==
  ASSUME IndInv, ChanClosed
  PROVE  IndInv'
  <1> USE NoneAssumption DEF IndInv, ChanClosed, groupVars, setVars,
          ctxVars, fieldVars
  <1>1. TypeOK'
    BY DEF TypeOK, LoopStates
  <1>2. LoopInv'
    BY DEF LoopInv, Settled
  <1>3. OpeningInv'
    BY DEF OpeningInv, Unreferenced, Live
  <1>4. SetsInv'
    BY DEF SetsInv, Live
  <1>5. CtxInv'
    BY DEF CtxInv, InGrace, ChangeCounted
  <1>6. ConnsInv'
    BY DEF ConnsInv, ConnInv, Live, Waiting, InGrace, CtxDone
  <1> QED
    BY <1>1, <1>2, <1>3, <1>4, <1>5, <1>6 DEF IndInv

(* The current context is cancelled only when the driver's context is.     *)
LEMMA ParentCtxDoneInv ==
  ASSUME IndInv, ParentCtxDone
  PROVE  IndInv'
  <1> USE NoneAssumption DEF IndInv, ParentCtxDone, groupVars, setVars,
          fieldVars
  <1>1. TypeOK'
    BY DEF TypeOK, LoopStates
  <1>2. LoopInv'
    BY DEF LoopInv, Settled
  <1>3. OpeningInv'
    BY DEF OpeningInv, Unreferenced, Live
  <1>4. SetsInv'
    BY DEF SetsInv, Live
  <1>5. CtxInv'
    BY DEF CtxInv, InGrace, ChangeCounted
  <1>6. ConnsInv'
    BY DEF ConnsInv, ConnInv, Live, Waiting, InGrace, CtxDone, TypeOK
  <1> QED
    BY <1>1, <1>2, <1>3, <1>4, <1>5, <1>6 DEF IndInv

(* The critical section of processNewValue, without and with a change.     *)
LEMMA SameValueInv ==
  ASSUME IndInv, SameValue
  PROVE  IndInv'
  <1> USE NoneAssumption DEF IndInv, SameValue, groupVars, setVars, ctxVars,
          fieldVars
  <1>1. TypeOK'
    BY DEF TypeOK, LoopStates
  <1>2. LoopInv'
    BY DEF LoopInv, Settled
  <1>3. OpeningInv'
    BY DEF OpeningInv, Unreferenced, Live
  <1>4. SetsInv'
    BY DEF SetsInv, Live
  <1>5. CtxInv'
    BY DEF CtxInv, InGrace, ChangeCounted
  <1>6. ConnsInv'
    BY DEF ConnsInv, ConnInv, Live, Waiting, InGrace, CtxDone
  <1> QED
    BY <1>1, <1>2, <1>3, <1>4, <1>5, <1>6 DEF IndInv

(* A change: current connections become previous ones, and the previous    *)
(* ones become the ones to close.                                          *)
LEMMA criticalSectionInv ==
  ASSUME IndInv, criticalSection
  PROVE  IndInv'
  <1> USE NoneAssumption DEF IndInv, criticalSection, Retired, MuFree,
          ctxVars, fieldVars
  <1>1. TypeOK'
    BY ChangesAssumption DEF TypeOK, LoopStates, LoopInv, NilCancel
  <1>2. LoopInv'
    BY DEF LoopInv, Settled
  <1>3. OpeningInv'
    BY DEF OpeningInv, Unreferenced, Live
  <1>4. SetsInv'
    BY DEF SetsInv, Live, TypeOK, LoopInv, Settled
  <1>5. CtxInv'
    BY DEF CtxInv, InGrace, ChangeCounted, TypeOK, NilCancel
  <1>6. ConnsInv'
    BY DEF ConnsInv, ConnInv, Live, Waiting, InGrace, CtxDone, TypeOK,
       CtxInv, SetsInv, LoopInv, Settled
  <1> QED
    BY <1>1, <1>2, <1>3, <1>4, <1>5, <1>6 DEF IndInv

(* Cancelling touches contexts out of grace only.                          *)
LEMMA CancelRetiredInv ==
  ASSUME IndInv, CancelRetired
  PROVE  IndInv'
  <1> USE NoneAssumption DEF IndInv, CancelRetired, groupVars, setVars,
          fieldVars
  <1>1. TypeOK'
    BY DEF TypeOK, LoopStates, CtxInv, ChangeCounted, NilCancel
  <1>2. LoopInv'
    BY DEF LoopInv, Settled
  <1>3. OpeningInv'
    BY DEF OpeningInv, Unreferenced, Live
  <1>4. SetsInv'
    BY DEF SetsInv, Live
  <1>5. CtxInv'
    BY DEF CtxInv, InGrace, ChangeCounted, TypeOK, NilCancel
  <1>6. ConnsInv'
    BY DEF ConnsInv, ConnInv, Live, Waiting, InGrace, CtxDone, TypeOK
  <1> QED
    BY <1>1, <1>2, <1>3, <1>4, <1>5, <1>6 DEF IndInv

(* The sweep, with and without forceKill.                                  *)
LEMMA ForceResetInv ==
  ASSUME NEW c \in Conns, IndInv, ForceReset(c)
  PROVE  IndInv'
  <1> USE NoneAssumption DEF IndInv, ForceReset, Reset, ConnMuFree,
          groupVars, setVars, ctxVars
  <1>1. TypeOK'
    BY DEF TypeOK, LoopStates
  <1>2. LoopInv'
    BY DEF LoopInv, Settled, TypeOK, SetsInv
  <1>3. OpeningInv'
    BY DEF OpeningInv, Unreferenced, Live, TypeOK
  <1>4. SetsInv'
    BY DEF SetsInv, Live, TypeOK
  <1>5. CtxInv'
    BY DEF CtxInv, InGrace, ChangeCounted
  <1>6. ConnsInv'
    BY DEF ConnsInv, ConnInv, Live, Waiting, InGrace, CtxDone, TypeOK
  <1> QED
    BY <1>1, <1>2, <1>3, <1>4, <1>5, <1>6 DEF IndInv

(* Without forceKill the previous connections are marked and stay open.    *)
LEMMA GracefulResetInv ==
  ASSUME NEW c \in Conns, IndInv, GracefulReset(c)
  PROVE  IndInv'
  <1> USE NoneAssumption DEF IndInv, GracefulReset, Reset, ConnMuFree,
          groupVars, setVars, ctxVars
  <1>1. TypeOK'
    BY DEF TypeOK
  <1>2. LoopInv'
    BY DEF LoopInv, Settled, TypeOK
  <1>3. OpeningInv'
    BY DEF OpeningInv, Unreferenced, Live
  <1>4. SetsInv'
    BY DEF SetsInv, Live, TypeOK
  <1>5. CtxInv'
    BY DEF CtxInv, InGrace, ChangeCounted
  <1>6. ConnsInv'
    BY DEF ConnsInv, ConnInv, Live, Waiting, InGrace, CtxDone, TypeOK
  <1> QED
    BY <1>1, <1>2, <1>3, <1>4, <1>5, <1>6 DEF IndInv

(* The loop closes connections out of grace, each already marked.          *)
LEMMA SweepCloseInv ==
  ASSUME NEW c \in Conns, IndInv, SweepClose(c)
  PROVE  IndInv'
  <1> USE NoneAssumption DEF IndInv, SweepClose, groupVars, setVars,
          ctxVars, fieldVars
  <1>1. TypeOK'
    BY DEF TypeOK, LoopStates
  <1>2. LoopInv'
    BY DEF LoopInv, Settled, TypeOK, SetsInv
  <1>3. OpeningInv'
    BY DEF OpeningInv, Unreferenced, Live, TypeOK
  <1>4. SetsInv'
    BY DEF SetsInv, Live, TypeOK
  <1>5. CtxInv'
    BY DEF CtxInv, InGrace, ChangeCounted
  <1>6. ConnsInv'
    BY DEF ConnsInv, ConnInv, Live, Waiting, InGrace, CtxDone, TypeOK,
       SetsInv, LoopInv
  <1> QED
    BY <1>1, <1>2, <1>3, <1>4, <1>5, <1>6 DEF IndInv

(* afterClose in the loop: no current connection leaves the list.          *)
LEMMA SweepClosedInv ==
  ASSUME IndInv, SweepClosed
  PROVE  IndInv'
  <1> USE NoneAssumption DEF IndInv, SweepClosed, removeMgdConn, MuFree,
          groupVars, ctxVars
  <1>1. TypeOK'
    BY DEF TypeOK, LoopStates, Kill
  <1>2. LoopInv'
    BY DEF LoopInv, Settled, TypeOK
  <1>3. OpeningInv'
    BY DEF OpeningInv, Unreferenced, Live
  <1>4. SetsInv'
    BY DEF SetsInv, Live, TypeOK
  <1>5. CtxInv'
    BY DEF CtxInv, InGrace, ChangeCounted
  <1>6. ConnsInv'
    BY DEF ConnsInv, ConnInv, Live, Waiting, InGrace, CtxDone, TypeOK,
       LoopInv, SetsInv
  <1> QED
    BY <1>1, <1>2, <1>3, <1>4, <1>5, <1>6 DEF IndInv

(* processNewValue returns with nothing left to close or to mark.          *)
LEMMA SweepDoneInv ==
  ASSUME IndInv, SweepDone
  PROVE  IndInv'
  <1> USE NoneAssumption DEF IndInv, SweepDone, groupVars, setVars, ctxVars,
          fieldVars
  <1>1. TypeOK'
    BY DEF TypeOK, LoopStates
  <1>2. LoopInv'
    BY DEF LoopInv, Settled
  <1>3. OpeningInv'
    BY DEF OpeningInv, Unreferenced, Live
  <1>4. SetsInv'
    BY DEF SetsInv, Live
  <1>5. CtxInv'
    BY DEF CtxInv, InGrace, ChangeCounted
  <1>6. ConnsInv'
    BY DEF ConnsInv, ConnInv, Live, Waiting, InGrace, CtxDone
  <1> QED
    BY <1>1, <1>2, <1>3, <1>4, <1>5, <1>6 DEF IndInv

(* A move of database/sql on its own account, if it makes no connection    *)
(* reusable or live that was not.                                          *)
LEMMA PoolMoveInv ==
  ASSUME NEW c \in Conns, NEW from, NEW to \in PoolStates, IndInv,
         PoolMove(c, from, to), Live(c),
         to \in {"idle", "inuse", "bad"}, to # "bad" => Waiting(c)
  PROVE  IndInv'
  <1> USE NoneAssumption DEF IndInv, PoolMove, groupVars, setVars, ctxVars,
          loopVars, fieldVars
  <1>1. TypeOK'
    BY DEF TypeOK
  <1>2. LoopInv'
    BY DEF LoopInv, Settled, TypeOK
  <1>3. OpeningInv'
    BY DEF OpeningInv, Unreferenced, Live, TypeOK
  <1>4. SetsInv'
    BY DEF SetsInv, Live, TypeOK, PoolStates
  <1>5. CtxInv'
    BY DEF CtxInv, InGrace, ChangeCounted
  <1>6. ConnsInv'
    BY DEF ConnsInv, ConnInv, Live, Waiting, InGrace, CtxDone, TypeOK
  <1> QED
    BY <1>1, <1>2, <1>3, <1>4, <1>5, <1>6 DEF IndInv

(* managedConn.close of a connection whose context is done.                *)
LEMMA closeDoneInv ==
  ASSUME NEW c \in Conns, NEW to \in {"invalidating", "aborting"}, IndInv,
         closeDone(c, to)
  PROVE  IndInv'
  <1> USE NoneAssumption DEF IndInv, closeDone, groupVars, setVars, ctxVars,
          loopVars, fieldVars
  <1>1. TypeOK'
    BY DEF TypeOK, PoolStates
  <1>2. LoopInv'
    BY DEF LoopInv, Settled, TypeOK
  <1>3. OpeningInv'
    BY DEF OpeningInv, Unreferenced, Live, TypeOK
  <1>4. SetsInv'
    BY DEF SetsInv, Live, TypeOK
  <1>5. CtxInv'
    BY DEF CtxInv, InGrace, ChangeCounted
  <1>6. ConnsInv'
    BY DEF ConnsInv, ConnInv, Live, Waiting, InGrace, CtxDone, TypeOK
  <1> QED
    BY <1>1, <1>2, <1>3, <1>4, <1>5, <1>6 DEF IndInv

(* afterClose of such a connection: it was closed, so the list may drop    *)
(* it.                                                                     *)
LEMMA AfterCloseInv ==
  ASSUME NEW c \in Conns, IndInv, AfterClose(c)
  PROVE  IndInv'
  <1> USE NoneAssumption DEF IndInv, AfterClose, removeMgdConn, MuFree,
          groupVars, ctxVars, loopVars, fieldVars
  <1>1. TypeOK'
    BY DEF TypeOK, PoolStates
  <1>2. LoopInv'
    BY DEF LoopInv, Settled, TypeOK
  <1>3. OpeningInv'
    BY DEF OpeningInv, Unreferenced, Live
  <1>4. SetsInv'
    BY DEF SetsInv, Live, TypeOK
  <1>5. CtxInv'
    BY DEF CtxInv, InGrace, ChangeCounted
  <1>6. ConnsInv'
    BY DEF ConnsInv, ConnInv, Live, Waiting, InGrace, CtxDone, TypeOK, CtxInv
  <1> QED
    BY <1>1, <1>2, <1>3, <1>4, <1>5, <1>6 DEF IndInv

(* managedConn.Close called by database/sql.                               *)
LEMMA CloseBeginInv ==
  ASSUME NEW c \in Conns, IndInv, CloseBegin(c)
  PROVE  IndInv'
  <1> USE NoneAssumption DEF IndInv, CloseBegin, groupVars, setVars,
          ctxVars, loopVars, fieldVars
  <1>1. TypeOK'
    BY DEF TypeOK, PoolStates
  <1>2. LoopInv'
    BY DEF LoopInv, Settled, TypeOK
  <1>3. OpeningInv'
    BY DEF OpeningInv, Unreferenced, Live, TypeOK
  <1>4. SetsInv'
    BY DEF SetsInv, Live, TypeOK
  <1>5. CtxInv'
    BY DEF CtxInv, InGrace, ChangeCounted
  <1>6. ConnsInv'
    BY DEF ConnsInv, ConnInv, Live, Waiting, InGrace, CtxDone, TypeOK
  <1> QED
    BY <1>1, <1>2, <1>3, <1>4, <1>5, <1>6 DEF IndInv

(* afterClose of a connection database/sql closed.                         *)
LEMMA CloseEndInv ==
  ASSUME NEW c \in Conns, IndInv, CloseEnd(c)
  PROVE  IndInv'
  <1> USE NoneAssumption DEF IndInv, CloseEnd, removeMgdConn, MuFree,
          groupVars, ctxVars, loopVars
  <1>1. TypeOK'
    BY DEF TypeOK, PoolStates, Kill
  <1>2. LoopInv'
    BY DEF LoopInv, Settled
  <1>3. OpeningInv'
    BY DEF OpeningInv, Unreferenced, Live
  <1>4. SetsInv'
    BY DEF SetsInv, Live, TypeOK
  <1>5. CtxInv'
    BY DEF CtxInv, InGrace, ChangeCounted
  <1>6. ConnsInv'
    BY DEF ConnsInv, ConnInv, Live, Waiting, InGrace, CtxDone, TypeOK
  <1> QED
    BY <1>1, <1>2, <1>3, <1>4, <1>5, <1>6 DEF IndInv

(* The driver's context is cancelled.                                      *)
LEMMA CancelParentInv ==
  ASSUME IndInv, CancelParent
  PROVE  IndInv'
  <1> USE NoneAssumption DEF IndInv, CancelParent, groupVars, setVars,
          loopVars, fieldVars
  <1>1. TypeOK'
    BY DEF TypeOK
  <1>2. LoopInv'
    BY DEF LoopInv, Settled
  <1>3. OpeningInv'
    BY DEF OpeningInv, Unreferenced, Live
  <1>4. SetsInv'
    BY DEF SetsInv, Live
  <1>5. CtxInv'
    BY DEF CtxInv, InGrace, ChangeCounted
  <1>6. ConnsInv'
    BY DEF ConnsInv, ConnInv, Live, Waiting, InGrace, CtxDone, TypeOK
  <1> QED
    BY <1>1, <1>2, <1>3, <1>4, <1>5, <1>6 DEF IndInv

(* Nothing changes, as when Open fails to merge the driver's options.      *)
LEMMA StutterInv ==
  ASSUME IndInv, UNCHANGED vars
  PROVE  IndInv'
  BY DEF vars, groupVars, setVars, ctxVars, loopVars, fieldVars, IndInv,
         TypeOK, LoopInv, Settled, OpeningInv, Unreferenced, Live, SetsInv,
         CtxInv, InGrace, ChangeCounted, ConnsInv, ConnInv, Waiting, CtxDone

-----------------------------------------------------------------------------

(* Every step preserves the invariant, one case per actor.                 *)
LEMMA NextInv == IndInv /\ [Next]_vars => IndInv'
  <1> SUFFICES ASSUME IndInv, [Next]_vars PROVE IndInv'
    OBVIOUS
  <1>1. CASE OpenNext
    BY <1>1, OpenBeginInv, OpenOkInv, OpenErrorInv, StutterInv
       DEF OpenNext, OpenMergeError
  <1>2. CASE processNewValue
    BY <1>2, SameValueInv, criticalSectionInv, CancelRetiredInv, ForceResetInv,
       GracefulResetInv, SweepCloseInv, SweepClosedInv, SweepDoneInv
       DEF processNewValue
  <1>3. CASE LoopNext
    BY <1>2, <1>3, ReceiveInv, ChanClosedInv, ParentCtxDoneInv DEF LoopNext
  <1>4. CASE PoolNext
    <2> PICK c \in Conns :
            \/ FirstUse(c) \/ ResetSession(c) \/ IsValid(c) \/ Begin(c)
            \/ AfterClose(c) \/ Discard(c) \/ CloseBegin(c) \/ CloseEnd(c)
      BY <1>4 DEF PoolNext
    <2>1. CASE FirstUse(c)
      <3>1. PoolMove(c, {"fresh"}, "inuse") /\ pool[c] = "fresh"
        BY <2>1 DEF FirstUse, PoolMove
      <3> QED
        BY <3>1, PoolMoveInv DEF Live, Waiting, PoolStates
    <2>2. CASE ResetSession(c)
      <3>1. /\ pool[c] = "idle"
            /\ PoolMove(c, {"idle"}, "bad") \/ PoolMove(c, {"idle"}, "inuse")
        BY <2>2 DEF ResetSession, PoolMove
      <3> QED
        BY <3>1, PoolMoveInv DEF Live, Waiting, PoolStates
    <2>3. CASE IsValid(c)
      <3>1. CASE closeDone(c, "invalidating")
        BY <3>1, closeDoneInv
      <3>2. CASE ~closeDone(c, "invalidating")
        <4>1. /\ pool[c] = "inuse" /\ ~CtxDone(cctx[c])
              /\ \/ PoolMove(c, {"inuse"}, "idle")
                 \/ PoolMove(c, {"inuse"}, "bad")
          BY <2>3, <3>2 DEF IsValid, PoolMove
        <4> QED
          BY <4>1, PoolMoveInv DEF Live, Waiting, PoolStates
      <3> QED
        BY <3>1, <3>2
    <2>4. CASE Begin(c)
      BY <2>4, closeDoneInv DEF Begin
    <2>5. CASE Discard(c)
      <3>1. /\ PoolMove(c, {"fresh", "idle", "inuse"}, "bad")
            /\ Live(c)
        BY <2>5 DEF Discard, PoolMove, Live
      <3> QED
        BY <3>1, PoolMoveInv DEF PoolStates
    <2> QED
      BY <2>1, <2>2, <2>3, <2>4, <2>5, AfterCloseInv, CloseBeginInv,
         CloseEndInv
  <1>5. CASE CancelParent
    BY <1>5, CancelParentInv
  <1>6. CASE UNCHANGED vars
    BY <1>6, StutterInv
  <1> QED
    BY <1>1, <1>3, <1>4, <1>5, <1>6 DEF Next

(* The inductive invariant holds in every reachable state.                 *)
LEMMA IndInvHolds == Spec => []IndInv
  BY InitInv, NextInv, PTL DEF Spec

-----------------------------------------------------------------------------

(* Every variable keeps its type; in particular no nil cancel function is  *)
(* ever called (driver.go 322, 329).                                       *)
THEOREM TypeCorrect == Spec => []TypeOK
  <1>1. IndInv => TypeOK
    BY DEF IndInv
  <1> QED
    BY <1>1, IndInvHolds, PTL

(* The list the next change will retire is exact: current connections      *)
(* only, and every open one (chanGroup.Open, removeMgdConn).               *)
THEOREM ConnsAreCurrent == Spec => []ConnsCurrent
  <1>1. IndInv => ConnsCurrent
    BY DEF IndInv, ConnsCurrent, SetsInv, ConnsInv, ConnInv, TypeOK
  <1> QED
    BY <1>1, IndInvHolds, PTL

(* After a change no unmarked connection of an older string is left for    *)
(* reuse (the Reset loops of processNewValue).                             *)
THEOREM StaleAreMarked == Spec => []StaleMarked
  <1>1. IndInv => StaleMarked
    BY DEF IndInv, StaleMarked, LoopInv, ConnsInv, ConnInv, Waiting
  <1> QED
    BY <1>1, IndInvHolds, PTL

(* A connection is marked before the sweep closes it.                      *)
THEOREM ClosedIdleAreMarked == Spec => []ClosedIdleMarked
  <1>1. IndInv => ClosedIdleMarked
    BY DEF IndInv, ClosedIdleMarked, ConnsInv, ConnInv, Waiting
  <1> QED
    BY <1>1, IndInvHolds, PTL

(* After a change every connection out of grace is closed and its context  *)
(* is cancelled (processNewValue, driver.go 320-370).                      *)
THEOREM ExpiredAreEnded == Spec => []ExpiredEnded
  <1>1. IndInv => ExpiredEnded
    BY DEF IndInv, ExpiredEnded, LoopInv, SetsInv, CtxInv, ConnsInv, ConnInv,
           InGrace, Settled
  <1> QED
    BY <1>1, IndInvHolds, PTL

(* Connections in grace are neither closed nor cancelled by a change.      *)
THEOREM GraceIsKept == Spec => []GraceKept
  <1>1. IndInv => GraceKept
    BY DEF IndInv, GraceKept, CtxInv, ConnsInv, ConnInv, CtxDone
  <1> QED
    BY <1>1, IndInvHolds, PTL

(* The metric counts each change of the string once, and nothing else      *)
(* (IncHotloadChangeTotal, driver.go 268-272, 314).                        *)
THEOREM ChangesAreCounted == Spec => []ChangeCounted
  <1>1. IndInv => ChangeCounted
    BY DEF IndInv, CtxInv
  <1> QED
    BY <1>1, IndInvHolds, PTL

-----------------------------------------------------------------------------
(* Refinement: each step is a step of HotReload or none                    *)

(* What HotReload sees of all connections.                                 *)
PhaseMap == [c \in Conns |-> Phase(c)]

UsesMap == [c \in Conns |-> IF Phase(c) \in {"none", "ended"} THEN EmptyDsn
                            ELSE dsn[c]]

(* The phases, case by case, before and after a step.                      *)
LEMMA PhaseCases ==
  ASSUME NEW c
  PROVE  /\ pool[c] = "none" => Phase(c) = "none"
         /\ pool[c] # "none" /\ closed[c] => Phase(c) = "ended"
         /\ pool[c] \in {"fresh", "idle", "inuse"} /\ ~closed[c]
               => Phase(c) = IF reset[c] THEN "draining" ELSE "open"
         /\ pool[c] \notin {"none", "fresh", "idle", "inuse"} /\ ~closed[c]
               => Phase(c) = "unwanted"
  BY DEF Phase

LEMMA PhaseCasesNext ==
  ASSUME NEW c
  PROVE  /\ pool'[c] = "none" => Phase(c)' = "none"
         /\ pool'[c] # "none" /\ closed'[c] => Phase(c)' = "ended"
         /\ pool'[c] \in {"fresh", "idle", "inuse"} /\ ~closed'[c]
               => Phase(c)' = IF reset'[c] THEN "draining" ELSE "open"
         /\ pool'[c] \notin {"none", "fresh", "idle", "inuse"} /\ ~closed'[c]
               => Phase(c)' = "unwanted"
  BY DEF Phase

(* A step that changes no phase and nothing of an open connection.         *)
LEMMA Invisible ==
  ASSUME UNCHANGED <<forceKill, parentDone, value, ctx, cctx>>,
         \A c \in Conns : /\ Phase(c)' = Phase(c)
                          /\ Phase(c) \in {"none", "ended"}
                             \/ dsn'[c] = dsn[c]
  PROVE  UNCHANGED Location!vars
  <1>1. PhaseMap' = PhaseMap /\ UsesMap' = UsesMap
    BY DEF PhaseMap, UsesMap
  <1> QED
    BY <1>1 DEF Location!vars, PhaseMap, UsesMap

(* One connection moves to another phase and the location stays.           *)
OneMoves(c, p) ==
    /\ UNCHANGED <<forceKill, parentDone, value, ctx, cctx, dsn>>
    /\ Phase(c)' = p
    /\ \A d \in Conns : d # c => Phase(d)' = Phase(d)

LEMMA Moves ==
  ASSUME NEW c \in Conns, NEW p, OneMoves(c, p)
  PROVE  /\ PhaseMap' = [PhaseMap EXCEPT ![c] = p]
         /\ PhaseMap[c] = Phase(c)
         /\ p = "ended" => UsesMap' = [UsesMap EXCEPT ![c] = EmptyDsn]
         /\ p \notin {"none", "ended"} /\ Phase(c) \notin {"none", "ended"}
               => UsesMap' = UsesMap
         /\ p = Phase(c) => UNCHANGED Location!vars
  <1>1. /\ PhaseMap' = [PhaseMap EXCEPT ![c] = p]
        /\ PhaseMap[c] = Phase(c)
    BY DEF OneMoves, PhaseMap
  <1>2. p = "ended" => UsesMap' = [UsesMap EXCEPT ![c] = EmptyDsn]
    BY DEF OneMoves, UsesMap
  <1>3. p \notin {"none", "ended"} /\ Phase(c) \notin {"none", "ended"}
           => UsesMap' = UsesMap
    BY DEF OneMoves, UsesMap
  <1>4. p = Phase(c) => UNCHANGED Location!vars
    BY Invisible DEF OneMoves
  <1> QED
    BY <1>1, <1>2, <1>3, <1>4

(* A connection ends that is out of grace, unwanted or of a driver that is *)
(* over; ending it again is invisible.                                     *)
LEMMA Ends ==
  ASSUME NEW c \in Conns, OneMoves(c, "ended"),
         \/ Phase(c) \in {"unwanted", "ended"}
         \/ /\ Phase(c) \in {"open", "draining"}
            /\ parentDone \/ cctx[c] + (IF forceKill THEN 0 ELSE 1) < ctx
  PROVE  Location!End(c) \/ UNCHANGED Location!vars
  <1>1. /\ PhaseMap' = [PhaseMap EXCEPT ![c] = "ended"]
        /\ PhaseMap[c] = Phase(c)
        /\ UsesMap' = [UsesMap EXCEPT ![c] = EmptyDsn]
        /\ "ended" = Phase(c) => UNCHANGED Location!vars
    BY Moves
  <1>2. ASSUME Phase(c) # "ended"
        PROVE  Location!End(c)
    BY <1>1, <1>2 DEF Location!End, Location!Move, Location!Held,
          Location!OutOfGrace, PhaseMap, UsesMap, OneMoves
  <1> QED
    BY <1>1, <1>2

(* The pool gives a connection up; one that has ended stays ended.         *)
LEMMA GivenUp ==
  ASSUME NEW c \in Conns, PoolMove(c, {"fresh", "idle", "inuse"}, "bad"),
         TypeOK
  PROVE  Location!GiveUp(c) \/ UNCHANGED Location!vars
  <1>1. /\ pool[c] \in {"fresh", "idle", "inuse"} /\ pool'[c] = "bad"
        /\ \A d \in Conns : d # c => pool'[d] = pool[d]
        /\ UNCHANGED <<forceKill, parentDone, value, ctx, cctx, dsn, closed,
                       reset>>
    BY DEF PoolMove, TypeOK, groupVars, ctxVars, fieldVars
  <1>2. \A d \in Conns : d # c => Phase(d)' = Phase(d)
    BY <1>1 DEF Phase
  <1>3. CASE closed[c]
    <2>1. Phase(c) = "ended" /\ Phase(c)' = "ended"
      BY <1>1, <1>3, PhaseCases, PhaseCasesNext
    <2> QED
      BY <1>1, <1>2, <2>1, Moves DEF OneMoves
  <1>4. CASE ~closed[c]
    <2>1. Phase(c) \in {"open", "draining"} /\ Phase(c)' = "unwanted"
      BY <1>1, <1>4, PhaseCases, PhaseCasesNext
    <2>2. /\ PhaseMap' = [PhaseMap EXCEPT ![c] = "unwanted"]
          /\ PhaseMap[c] = Phase(c) /\ UsesMap' = UsesMap
      BY <1>1, <1>2, <2>1, Moves DEF OneMoves
    <2>3. Location!GiveUp(c)
      BY <1>1, <2>1, <2>2 DEF Location!GiveUp, Location!Move, Location!Held,
            PhaseMap, UsesMap
    <2> QED
      BY <2>3
  <1> QED
    BY <1>3, <1>4

(* The location starts with no connections.                                *)
LEMMA InitImplements == Init => Location!Init
  <1> SUFFICES ASSUME Init PROVE Location!Init
    OBVIOUS
  <1>1. \A c \in Conns : Phase(c) = "none"
    BY PhaseCases DEF Init
  <1>2. /\ PhaseMap = [c \in Conns |-> "none"]
        /\ UsesMap = [c \in Conns |-> EmptyDsn]
    BY <1>1 DEF PhaseMap, UsesMap
  <1> QED
    BY <1>2 DEF Init, Location!Init, PhaseMap, UsesMap

(* Open gives the connection the string and the context of one moment,     *)
(* because it keeps cg.mu (driver.go 392-410).                             *)
LEMMA OpenImplements ==
  ASSUME IndInv, OpenNext
  PROVE  (\E c \in Conns : Location!Connect(c)) \/ UNCHANGED Location!vars
  <1>1. CASE \E c \in Conns : OpenBegin(c)
    <2>1. PICK c \in Conns : OpenBegin(c)
      BY <1>1
    <2>2. /\ UNCHANGED <<forceKill, parentDone, value, ctx, cctx, closed,
                         reset, pool>>
          /\ pool[c] \in {"none", "gone"}
          /\ \A d \in Conns : d # c => dsn'[d] = dsn[d]
      BY <2>1 DEF OpenBegin, Unreferenced, Live, groupVars, ctxVars, IndInv,
                  TypeOK
    <2>3. Phase(c) \in {"none", "ended"}
      BY <2>2, PhaseCases DEF IndInv, ConnsInv, ConnInv
    <2>4. \A d \in Conns : Phase(d)' = Phase(d)
      BY <2>2 DEF Phase
    <2> QED
      BY <2>2, <2>3, <2>4, Invisible
  <1>2. CASE OpenOk
    <2>1. PICK c \in Conns : c = opening
      BY <1>2 DEF OpenOk, IndInv, TypeOK
    <2>2. /\ pool[c] \in {"none", "gone"} /\ dsn[c] = Merged(value).dsn
          /\ pool'[c] \in {"inuse", "fresh"} /\ ~closed'[c] /\ ~reset'[c]
          /\ cctx' = [cctx EXCEPT ![c] = ctx]
          /\ \A d \in Conns : d # c => /\ pool'[d] = pool[d]
                                       /\ closed'[d] = closed[d]
                                       /\ reset'[d] = reset[d]
          /\ UNCHANGED <<forceKill, parentDone, value, ctx, dsn>>
      BY <1>2, <2>1, NoneAssumption
         DEF OpenOk, newManagedConn, IndInv, TypeOK, OpeningInv, Unreferenced,
             Live, groupVars, ctxVars
    <2>3. Phase(c) \in {"none", "ended"} /\ Phase(c)' = "open"
      BY <2>2, PhaseCases, PhaseCasesNext DEF IndInv, ConnsInv, ConnInv
    <2>4. \A d \in Conns : d # c => Phase(d)' = Phase(d)
      BY <2>2 DEF Phase
    <2>5. /\ PhaseMap[c] = Phase(c)
          /\ PhaseMap' = [PhaseMap EXCEPT ![c] = "open"]
          /\ UsesMap' = [UsesMap EXCEPT ![c] = OpenedWith(value)]
      BY <2>2, <2>3, <2>4 DEF PhaseMap, UsesMap, OpenedWith
    <2>6. Location!Connect(c)
      BY <2>2, <2>3, <2>5 DEF Location!Connect, PhaseMap, UsesMap
    <2> QED
      BY <2>6
  <1>3. CASE OpenError \/ OpenMergeError
    <2>1. UNCHANGED <<forceKill, parentDone, value, ctx, cctx, dsn, closed,
                      reset, pool>>
      BY <1>3 DEF OpenError, OpenMergeError, vars, groupVars, ctxVars,
                  fieldVars
    <2>2. \A d \in Conns : Phase(d)' = Phase(d)
      BY <2>1 DEF Phase
    <2> QED
      BY <2>1, <2>2, Invisible
  <1> QED
    BY <1>1, <1>2, <1>3 DEF OpenNext

(* A change of the string is one step; all other steps of the loop but the *)
(* marking and the closing of connections are invisible.                   *)
LEMMA LoopImplements ==
  ASSUME IndInv,
         \/ \E v \in Values : Receive(v)
         \/ ChanClosed \/ ParentCtxDone \/ SameValue \/ criticalSection
         \/ CancelRetired \/ SweepClosed \/ SweepDone
  PROVE  Location!Change \/ UNCHANGED Location!vars
  <1>1. /\ UNCHANGED <<forceKill, parentDone, cctx, dsn, closed, reset, pool>>
        /\ UNCHANGED <<value, ctx>>
           \/ /\ value' \in Values /\ value' # value /\ ctx' = ctx + 1
    BY DEF Receive, ChanClosed, ParentCtxDone, SameValue, criticalSection,
           CancelRetired, SweepClosed, SweepDone, groupVars, ctxVars,
           fieldVars, IndInv, TypeOK
  <1>2. \A d \in Conns : Phase(d)' = Phase(d)
    BY <1>1 DEF Phase
  <1>3. CASE UNCHANGED <<value, ctx>>
    BY <1>1, <1>2, <1>3, Invisible
  <1>4. CASE value' \in Values /\ value' # value /\ ctx' = ctx + 1
    <2>1. PhaseMap' = PhaseMap /\ UsesMap' = UsesMap
      BY <1>1, <1>2 DEF PhaseMap, UsesMap
    <2> QED
      BY <1>1, <1>4, <2>1 DEF Location!Change, PhaseMap, UsesMap
  <1> QED
    BY <1>1, <1>3, <1>4

(* The loop marks connections of the string before.                        *)
LEMMA ResetImplements ==
  ASSUME IndInv, NEW c \in Conns, ForceReset(c) \/ GracefulReset(c)
  PROVE  Location!Drain(c) \/ UNCHANGED Location!vars
  <1>1. /\ UNCHANGED <<forceKill, parentDone, value, ctx, cctx, dsn, closed,
                       pool>>
        /\ reset' = [reset EXCEPT ![c] = TRUE]
        /\ reset \in [Conns -> BOOLEAN]
        /\ c \in toReset /\ cctx[c] = ctx - 1 /\ ctx \in Int
    BY DEF ForceReset, GracefulReset, Reset, groupVars, ctxVars, IndInv,
           TypeOK, SetsInv
  <1>2. \A d \in Conns : d # c => Phase(d)' = Phase(d)
    BY <1>1 DEF Phase
  <1>3. CASE Phase(c) = "open"
    <2>1. Phase(c)' = "draining"
      BY <1>1, <1>3, PhaseCases, PhaseCasesNext
    <2>2. /\ PhaseMap' = [PhaseMap EXCEPT ![c] = "draining"]
          /\ PhaseMap[c] = Phase(c) /\ UsesMap' = UsesMap
      BY <1>1, <1>2, <1>3, <2>1, Moves DEF OneMoves
    <2>3. cctx[c] < ctx
      BY <1>1
    <2>4. Location!Drain(c)
      BY <1>1, <1>3, <2>2, <2>3 DEF Location!Drain, Location!Move,
            Location!Stale, PhaseMap, UsesMap
    <2> QED
      BY <2>4
  <1>4. CASE Phase(c) # "open"
    <2>1. Phase(c)' = Phase(c)
      BY <1>1, <1>4, PhaseCases, PhaseCasesNext
    <2> QED
      BY <1>1, <1>2, <2>1, Invisible
  <1> QED
    BY <1>3, <1>4

(* The loop closes connections whose grace has passed.                     *)
LEMMA SweepImplements ==
  ASSUME IndInv, NEW c \in Conns, SweepClose(c)
  PROVE  Location!End(c) \/ UNCHANGED Location!vars
  <1>1. /\ UNCHANGED <<forceKill, parentDone, value, ctx, cctx, dsn, reset,
                       pool>>
        /\ closed' = [closed EXCEPT ![c] = TRUE]
        /\ closed \in [Conns -> BOOLEAN]
        /\ cctx[c] = (IF forceKill THEN ctx - 1 ELSE ctx - 2) /\ ctx \in Int
    BY DEF SweepClose, groupVars, ctxVars, fieldVars, IndInv, TypeOK, SetsInv
  <1>2. \A d \in Conns : d # c => Phase(d)' = Phase(d)
    BY <1>1 DEF Phase
  <1>3. CASE pool[c] = "none"
    <2>1. Phase(c)' = Phase(c)
      BY <1>1, <1>3, PhaseCases, PhaseCasesNext
    <2> QED
      BY <1>1, <1>2, <2>1, Invisible
  <1>4. CASE pool[c] # "none"
    <2>1. /\ Phase(c)' = "ended"
          /\ Phase(c) \in {"open", "draining", "unwanted", "ended"}
      BY <1>1, <1>4, PhaseCases, PhaseCasesNext
    <2>2. cctx[c] + (IF forceKill THEN 0 ELSE 1) < ctx
      BY <1>1
    <2> QED
      BY <1>1, <1>2, <2>1, <2>2, Ends DEF OneMoves
  <1> QED
    BY <1>3, <1>4

(* managedConn.close ends a connection whose context is done, which is one *)
(* out of grace unless the driver is over (conn.go 204-268).               *)
LEMMA CloseDoneImplements ==
  ASSUME IndInv, NEW c \in Conns, NEW to \in {"invalidating", "aborting"},
         closeDone(c, to)
  PROVE  Location!End(c) \/ UNCHANGED Location!vars
  <1>1. /\ UNCHANGED <<forceKill, parentDone, value, ctx, cctx, dsn, reset>>
        /\ closed'[c] /\ pool[c] = "inuse" /\ pool'[c] = to
        /\ CtxDone(cctx[c])
        /\ \A d \in Conns : d # c => /\ pool'[d] = pool[d]
                                     /\ closed'[d] = closed[d]
        /\ cctx[c] \in Int /\ ctx \in Int /\ parentDone \in BOOLEAN
        /\ forceKill \in BOOLEAN
    BY DEF closeDone, groupVars, ctxVars, fieldVars, IndInv, TypeOK
  <1>2. \A d \in Conns : d # c => Phase(d)' = Phase(d)
    BY <1>1 DEF Phase
  <1>3. /\ Phase(c)' = "ended"
        /\ Phase(c) \in {"open", "draining", "ended"}
    BY <1>1, PhaseCases, PhaseCasesNext
  <1>4. parentDone \/ (cctx[c] < ctx /\ ~InGrace(cctx[c]))
    BY <1>1 DEF CtxDone, IndInv, CtxInv
  <1>5. parentDone \/ cctx[c] + (IF forceKill THEN 0 ELSE 1) < ctx
    BY <1>1, <1>4 DEF InGrace
  <1> QED
    BY <1>1, <1>2, <1>3, <1>5, Ends DEF OneMoves

(* A move of the pool among the states in which it holds the connection.   *)
LEMMA HeldInvisible ==
  ASSUME TypeOK, NEW c \in Conns, NEW from, NEW to \in {"idle", "inuse"},
         from \subseteq {"fresh", "idle", "inuse"}, PoolMove(c, from, to)
  PROVE  UNCHANGED Location!vars
  <1>1. /\ UNCHANGED <<forceKill, parentDone, value, ctx, cctx, dsn, closed,
                       reset>>
        /\ pool[c] \in {"fresh", "idle", "inuse"} /\ pool'[c] = to
        /\ \A d \in Conns : d # c => pool'[d] = pool[d]
        /\ closed[c] \in BOOLEAN
    BY DEF PoolMove, groupVars, ctxVars, fieldVars, TypeOK
  <1>2. Phase(c)' = Phase(c)
    BY <1>1, PhaseCases, PhaseCasesNext
  <1>3. \A d \in Conns : d # c => Phase(d)' = Phase(d)
    BY <1>1 DEF Phase
  <1> QED
    BY <1>1, <1>2, <1>3, Invisible

(* The pool lets go of a connection that it holds.                         *)
LEMMA LetGo ==
  ASSUME TypeOK, NEW c \in Conns, NEW from,
         from \subseteq {"fresh", "idle", "inuse"}, PoolMove(c, from, "bad")
  PROVE  Location!GiveUp(c) \/ UNCHANGED Location!vars
  <1>1. PoolMove(c, {"fresh", "idle", "inuse"}, "bad")
    BY DEF PoolMove
  <1> QED
    BY <1>1, GivenUp

(* Close by database/sql, and the second halves of all closes.             *)
LEMMA CloseImplements ==
  ASSUME IndInv, NEW c \in Conns,
         CloseBegin(c) \/ CloseEnd(c) \/ AfterClose(c)
  PROVE  Location!End(c) \/ UNCHANGED Location!vars
  <1>1. /\ UNCHANGED <<forceKill, parentDone, value, ctx, cctx, dsn, reset>>
        /\ pool[c] \notin {"none", "fresh", "idle", "inuse"}
        /\ pool'[c] # "none" /\ closed'[c]
        /\ \A d \in Conns : d # c => /\ pool'[d] = pool[d]
                                     /\ closed'[d] = closed[d]
    BY DEF CloseBegin, CloseEnd, AfterClose, groupVars, ctxVars, fieldVars,
           IndInv, TypeOK, ConnsInv, ConnInv
  <1>2. \A d \in Conns : d # c => Phase(d)' = Phase(d)
    BY <1>1 DEF Phase
  <1>3. Phase(c)' = "ended" /\ Phase(c) \in {"unwanted", "ended"}
    BY <1>1, PhaseCases, PhaseCasesNext
  <1> QED
    BY <1>1, <1>2, <1>3, Ends DEF OneMoves

(* database/sql uses connections and gives them up.                        *)
LEMMA PoolImplements ==
  ASSUME IndInv, NEW c \in Conns,
         \/ FirstUse(c) \/ ResetSession(c) \/ IsValid(c) \/ Begin(c)
         \/ AfterClose(c) \/ Discard(c) \/ CloseBegin(c) \/ CloseEnd(c)
  PROVE  Location!GiveUp(c) \/ Location!End(c) \/ UNCHANGED Location!vars
  <1>0. TypeOK
    BY DEF IndInv
  <1>1. CASE FirstUse(c)
    <2>1. PoolMove(c, {"fresh"}, "inuse")
      BY <1>1 DEF FirstUse
    <2> QED
      BY <1>0, <2>1, HeldInvisible
  <1>2. CASE ResetSession(c)
    <2>1. PoolMove(c, {"idle"}, "bad") \/ PoolMove(c, {"idle"}, "inuse")
      BY <1>2 DEF ResetSession
    <2> QED
      BY <1>0, <2>1, HeldInvisible, LetGo
  <1>3. CASE IsValid(c)
    <2>1. \/ closeDone(c, "invalidating")
          \/ PoolMove(c, {"inuse"}, "idle") \/ PoolMove(c, {"inuse"}, "bad")
      BY <1>3 DEF IsValid
    <2>2. CASE closeDone(c, "invalidating")
      BY <2>2, CloseDoneImplements
    <2>3. CASE PoolMove(c, {"inuse"}, "idle")
      BY <1>0, <2>3, HeldInvisible
    <2>4. CASE PoolMove(c, {"inuse"}, "bad")
      BY <1>0, <2>4, LetGo
    <2> QED
      BY <2>1, <2>2, <2>3, <2>4
  <1>4. CASE Begin(c)
    BY <1>4, CloseDoneImplements DEF Begin
  <1>5. CASE Discard(c)
    BY <1>0, <1>5, GivenUp DEF Discard
  <1>6. CASE AfterClose(c) \/ CloseBegin(c) \/ CloseEnd(c)
    BY <1>6, CloseImplements
  <1> QED
    BY <1>1, <1>2, <1>3, <1>4, <1>5, <1>6

(* The driver's context ends.                                              *)
LEMMA StopImplements ==
  ASSUME CancelParent
  PROVE  Location!Stop
  <1>1. /\ UNCHANGED <<forceKill, value, ctx, cctx, dsn, closed, reset, pool>>
        /\ parentDone' = TRUE
    BY DEF CancelParent, groupVars, fieldVars
  <1>2. PhaseMap' = PhaseMap /\ UsesMap' = UsesMap
    BY <1>1 DEF PhaseMap, UsesMap, Phase
  <1> QED
    BY <1>1, <1>2 DEF Location!Stop, PhaseMap, UsesMap

(***************************************************************************)
(* The safety part of ReloadsAsPromised, for any connections, strings and  *)
(* options: whatever the pool, Open and the loop do at the same time,      *)
(* connections are opened with the string of the moment, told to drain     *)
(* only after a change, and ended against their holder's will only when    *)
(* grace has passed or the driver is over (driver.go 228-422, conn.go      *)
(* 204-268).                                                               *)
(***************************************************************************)
THEOREM Implements == Spec => Location!Spec
  <1>1. Init => Location!Init
    BY InitImplements
  <1>2. ASSUME IndInv, [Next]_vars
        PROVE  [Location!Next]_(Location!vars)
    <2>1. CASE OpenNext
      BY <1>2, <2>1, OpenImplements DEF Location!Next
    <2>2. CASE LoopNext
      <3>1. CASE \E c \in Conns : \/ ForceReset(c) \/ GracefulReset(c)
                                  \/ SweepClose(c)
        BY <1>2, <3>1, ResetImplements, SweepImplements DEF Location!Next
      <3>2. CASE \/ \E v \in Values : Receive(v)
                 \/ ChanClosed \/ ParentCtxDone \/ SameValue
                 \/ criticalSection \/ CancelRetired \/ SweepClosed
                 \/ SweepDone
        BY <1>2, <3>2, LoopImplements DEF Location!Next
      <3> QED
        BY <2>2, <3>1, <3>2 DEF LoopNext, processNewValue
    <2>3. CASE PoolNext
      BY <1>2, <2>3, PoolImplements DEF PoolNext, Location!Next
    <2>4. CASE CancelParent
      BY <2>4, StopImplements DEF Location!Next
    <2>5. CASE UNCHANGED vars
      <3>1. UNCHANGED <<forceKill, parentDone, value, ctx, cctx, dsn, closed,
                        reset, pool>>
        BY <2>5 DEF vars, groupVars, ctxVars, fieldVars
      <3>2. \A d \in Conns : Phase(d)' = Phase(d)
        BY <3>1 DEF Phase
      <3> QED
        BY <3>1, <3>2, Invisible
    <2> QED
      BY <1>2, <2>1, <2>2, <2>3, <2>4, <2>5 DEF Next
  <1> QED
    BY <1>1, <1>2, IndInvHolds, PTL DEF Spec, Location!Spec

=============================================================================
