------------------------ MODULE ModTimeMonitorProofs ------------------------
(***************************************************************************)
(* Proofs about ModTimeMonitor, for any set of paths, any times the files  *)
(* may have, any bound on the clock, and with or without an error logger.  *)
(*                                                                         *)
(* Fresh and SampleBounds speak of the paths a check has looked at.  They  *)
(* are not inductive: they need that the clock has passed every tick and   *)
(* every change, that the lock keeps paths from being added during a       *)
(* check, and that a record has the zero time until a Stat succeeds and    *)
(* from then on a time the file can have had.                              *)
(***************************************************************************)
EXTENDS ModTimeMonitor, TLAPS

(* The modification times a file can have had.                             *)
Had(p) == First..now \cup IF p \in Foreign THEN Stamps ELSE {}

(* No tick and no change comes from the future.                            *)
TimeInv ==
    /\ ticks # None => ticks <= now
    /\ nowTime # None => nowTime <= now
    /\ \A p \in Paths : /\ changed[p] <= now
                        /\ mtime[p] # Absent => mtime[p] \in Had(p)

(* There is something left to look at only during a check, which has the   *)
(* time of its tick.                                                       *)
CheckInv ==
    /\ loop = "check" => nowTime # None
    /\ loop # "check" => todo = {}

(* A record has the zero time until a Stat of its path succeeds.           *)
SeenInv ==
    \A p \in paths : IF p \in seen THEN modTime[p] \in Had(p)
                     ELSE modTime[p] = zeroTime

IndInv == TypeOK /\ TimeInv /\ CheckInv /\ SeenInv /\ Fresh /\ SampleBounds

-----------------------------------------------------------------------------

(* What Sub gives is a Duration.                                           *)
LEMMA SubType ==
  ASSUME nowTime \in Int, NEW t \in Int
  PROVE  Sub(t) \in MinDuration..MaxDuration
  BY ClockAssumption DEF Sub, MinDuration

(* The zero time is out of reach.                                          *)
LEMMA SubZero ==
  ASSUME nowTime \in Times
  PROVE  Sub(zeroTime) = MaxDuration
  BY ClockAssumption DEF Sub, MinDuration, Times, zeroTime

(* A difference between times of the clock fits.                           *)
LEMMA SubClock ==
  ASSUME nowTime \in Times, now \in Times, NEW t \in First..now
  PROVE  Sub(t) \in (nowTime - now)..(nowTime - First)
  <1>1. /\ First \in Nat /\ MaxTime \in Nat /\ MaxDuration \in Nat
        /\ nowTime \in Int /\ First <= nowTime /\ nowTime <= MaxTime
        /\ t \in Int /\ First <= t /\ t <= MaxTime
        /\ MaxTime - First <= MaxDuration
    BY ClockAssumption DEF Times
  <1>2. ~(nowTime - t > MaxDuration) /\ ~(nowTime - t < MinDuration)
    BY <1>1 DEF MinDuration
  <1>3. Sub(t) = nowTime - t
    BY <1>2 DEF Sub
  <1> QED
    BY <1>1, <1>3 DEF Times

(* NewModTimeMonitor starts with no paths (modtime_monitor.go 57-74).      *)
LEMMA InitInv == Init => IndInv
  <1> SUFFICES ASSUME Init PROVE IndInv
    OBVIOUS
  <1> USE ClockAssumption, NotTimesAssumption DEF Init
  <1>1. TypeOK
    <2>1. First \in Times /\ First \in ModTimes /\ zeroTime \in ModTimes
      BY DEF Times, ModTimes
    <2>2. mtime \in [Paths -> ModTimes \cup {Absent}]
      BY <2>1
    <2> QED
      BY <2>1, <2>2 DEF TypeOK
  <1>2. TimeInv
    BY DEF TimeInv, Had
  <1>3. CheckInv /\ SeenInv /\ Fresh /\ SampleBounds
    BY DEF CheckInv, SeenInv, Fresh, SampleBounds
  <1> QED
    BY <1>1, <1>2, <1>3 DEF IndInv

(* The clock, the ticker and the context.                                  *)
LEMMA OutsideInv ==
  ASSUME IndInv, Clock \/ Tick \/ Cancel
  PROVE  IndInv'
  <1> USE DEF IndInv, Outside, recVars, outVars, fileVars
  <1>0. /\ now \in Int /\ now \in Times /\ First \in Int
        /\ \A p \in Paths : changed[p] \in Int
    BY ClockAssumption DEF TypeOK, Times
  <1>1. CASE Clock
    <2>1. now' = now + 1 /\ now' \in Times
          /\ UNCHANGED <<fileVars, ctxDone, ticks, recVars, loop, nowTime,
                         todo, panicked>>
      BY <1>0, <1>1, ClockAssumption DEF Clock, Times
    <2>2. First..now \subseteq First..now'
      BY <1>0, <2>1
    <2>3. \A p \in Paths : Had(p) \subseteq Had(p)'
      BY <2>2 DEF Had
    <2>4. TypeOK'
      BY <2>1 DEF TypeOK
    <2>5. TimeInv'
      <3>1. /\ ticks' # None => ticks' <= now'
            /\ nowTime' # None => nowTime' <= now'
        BY <1>0, <2>1, ClockAssumption, NotTimesAssumption
           DEF TypeOK, TimeInv, Times
      <3>2. \A p \in Paths : changed'[p] <= now'
        BY <1>0, <2>1 DEF TimeInv
      <3>3. \A p \in Paths : mtime'[p] # Absent => mtime'[p] \in Had(p)'
        BY <2>1, <2>3 DEF TimeInv
      <3> QED
        BY <3>1, <3>2, <3>3 DEF TimeInv
    <2>6. CheckInv' /\ Fresh'
      BY <2>1 DEF CheckInv, Fresh
    <2>7. SeenInv'
      BY <2>1, <2>3 DEF SeenInv, TypeOK
    <2>8. SampleBounds'
      <3> SUFFICES ASSUME NEW p \in paths \ todo, loop = "check"
                   PROVE  /\ p \notin seen => sample[p] = MaxDuration
                          /\ p \in seen \ Foreign =>
                                sample[p] \in (nowTime - now')
                                                ..(nowTime - First)
                          /\ p \in seen \cap Foreign =>
                                \E t \in Stamps \cup First..now' :
                                   sample[p] = Sub(t)
        BY <2>1 DEF SampleBounds, Sub
      <3>1. /\ p \notin seen => sample[p] = MaxDuration
            /\ p \in seen \ Foreign =>
                  sample[p] \in (nowTime - now)..(nowTime - First)
            /\ p \in seen \cap Foreign =>
                  \E t \in Stamps \cup First..now : sample[p] = Sub(t)
        BY DEF SampleBounds
      <3>2. nowTime \in Int
        BY ClockAssumption DEF CheckInv, TypeOK, Times
      <3>3. (nowTime - now)..(nowTime - First)
              \subseteq (nowTime - now')..(nowTime - First)
        BY <1>0, <2>1, <3>2
      <3> QED
        BY <2>2, <3>1, <3>3
    <2> QED
      BY <2>4, <2>5, <2>6, <2>7, <2>8
  <1>2. CASE Tick \/ Cancel
    <2>1. /\ UNCHANGED <<now, fileVars, recVars, loop, nowTime, todo,
                         panicked>>
          /\ \/ ticks' = now /\ ctxDone' = ctxDone
             \/ ticks' = ticks /\ ctxDone' = TRUE
      BY <1>2 DEF Tick, Cancel
    <2>2. TypeOK'
      BY <1>0, <2>1 DEF TypeOK
    <2>3. TimeInv'
      BY <1>0, <2>1 DEF TimeInv, Had
    <2>4. CheckInv' /\ SeenInv' /\ Fresh' /\ SampleBounds'
      BY <2>1 DEF CheckInv, SeenInv, Fresh, SampleBounds, Sub, Had
    <2> QED
      BY <2>2, <2>3, <2>4
  <1> QED
    BY <1>1, <1>2

(* The files: one that changes during a check changes not before the tick. *)
LEMMA FileInv ==
  ASSUME IndInv, NEW p \in Paths, Touch(p) \/ Restamp(p) \/ Delete(p)
  PROVE  IndInv'
  <1> USE DEF IndInv, Outside, recVars, outVars, fileVars
  <1>0. /\ now \in Int /\ now \in Times /\ First \in Int /\ First <= now
        /\ First \in Times /\ now \in First..now
        /\ \A q \in Paths : changed[q] \in Int
        /\ loop = "check" => nowTime \in Int /\ nowTime <= now
    BY ClockAssumption DEF TypeOK, Times, CheckInv, TimeInv
  <1>1. PICK t, c : /\ mtime' = [mtime EXCEPT ![p] = t]
                    /\ changed' = [changed EXCEPT ![p] = c]
                    /\ \/ t \in Had(p) /\ c = now
                       \/ t = Absent /\ c = First
    <2>1. CASE Touch(p)
      BY <1>0, <2>1 DEF Touch, Had
    <2>2. CASE Restamp(p)
      BY <2>2 DEF Restamp, Had
    <2>3. CASE Delete(p)
      BY <2>3 DEF Delete
    <2> QED
      BY <2>1, <2>2, <2>3
  <1>2. UNCHANGED <<now, ctxDone, ticks, recVars, loop, nowTime, todo,
                    panicked>>
    BY DEF Touch, Restamp, Delete
  <1>3. /\ t \in ModTimes \cup {Absent} /\ c \in Times /\ c <= now
        /\ t # Absent => t \in Had(p) /\ c = now
    <2>1. First..now \subseteq Times
      BY <1>0, ClockAssumption DEF Times
    <2>2. Had(p) \subseteq ModTimes
      BY <2>1 DEF Had, ModTimes
    <2>3. c \in Times /\ c <= now
      BY <1>0, <1>1
    <2>4. t \in ModTimes \cup {Absent}
      BY <1>1, <2>2
    <2> QED
      BY <1>1, <2>3, <2>4
  <1>4. TypeOK'
    <2>1. /\ mtime' \in [Paths -> ModTimes \cup {Absent}]
          /\ changed' \in [Paths -> Times]
      BY <1>1, <1>3 DEF TypeOK
    <2> QED
      BY <1>2, <2>1 DEF TypeOK
  <1>5. \A q \in Paths :
          /\ mtime'[q] = IF q = p THEN t ELSE mtime[q]
          /\ changed'[q] = IF q = p THEN c ELSE changed[q]
          /\ Had(q)' = Had(q)
    BY <1>1, <1>2 DEF TypeOK, Had
  <1>6. TimeInv'
    BY <1>2, <1>3, <1>5 DEF TimeInv
  <1>7. CheckInv' /\ SeenInv'
    BY <1>2, <1>5 DEF CheckInv, SeenInv, TypeOK
  <1>8. SampleBounds'
    BY <1>2 DEF SampleBounds, Sub
  <1>9. Fresh'
    <2> SUFFICES ASSUME NEW q \in paths \ todo, loop = "check",
                        mtime'[q] # Absent, changed'[q] < nowTime
                 PROVE  modTime[q] = mtime'[q]
      BY <1>2 DEF Fresh
    <2>1. q \in Paths
      BY DEF TypeOK
    <2>2. q # p
      BY <1>0, <1>3, <1>5, <2>1
    <2> QED
      BY <1>5, <2>1, <2>2 DEF Fresh
  <1> QED
    BY <1>4, <1>6, <1>7, <1>8, <1>9

(* AddMonitoredPath waits for the lock, so no check is under way.          *)
LEMMA AddMonitoredPathInv ==
  ASSUME NEW p \in Paths, IndInv, AddMonitoredPath(p)
  PROVE  IndInv'
  <1> USE DEF IndInv, AddMonitoredPath, outVars, fileVars
  <1>1. TypeOK'
    BY DEF TypeOK, ModTimes
  <1>2. TimeInv' /\ CheckInv'
    BY DEF TimeInv, CheckInv, Had
  <1>3. SeenInv'
    BY DEF TypeOK, SeenInv, Had
  <1>4. Fresh' /\ SampleBounds'
    BY DEF Fresh, SampleBounds
  <1> QED
    BY <1>1, <1>2, <1>3, <1>4

(* runLoop starts and ends a check, or ends itself.                        *)
LEMMA LoopInv ==
  ASSUME IndInv, StartCheck \/ EndCheck \/ CtxDone
  PROVE  IndInv'
  <1> USE DEF IndInv, StartCheck, EndCheck, CtxDone, recVars, outVars,
              fileVars
  <1>1. TypeOK'
    BY DEF TypeOK
  <1>2. TimeInv' /\ CheckInv' /\ SeenInv'
    BY DEF TypeOK, TimeInv, CheckInv, SeenInv, Had
  <1>3. Fresh' /\ SampleBounds'
    BY DEF TypeOK, Fresh, SampleBounds
  <1> QED
    BY <1>1, <1>2, <1>3

(* checkPathModTimes looks at one path, whether or not Stat succeeds.      *)
LEMMA CheckPathInv ==
  ASSUME NEW p \in Paths, IndInv, CheckPath(p)
  PROVE  IndInv'
  <1> USE DEF IndInv, outVars, fileVars
  <1>0. /\ loop = "check" /\ nowTime \in Times /\ now \in Times
        /\ p \in paths /\ nowTime <= now
    BY NotTimesAssumption DEF CheckPath, TypeOK, CheckInv, TimeInv
  <1>1. CASE mtime[p] = Absent /\ ~HasErrLog
    <2>1. /\ UNCHANGED <<outVars, recVars, loop, nowTime, todo, ticks>>
          /\ panicked' \in BOOLEAN
      BY <1>1 DEF CheckPath, recVars
    <2> QED
      BY <1>1, <2>1 DEF TypeOK, TimeInv, CheckInv, SeenInv, Fresh,
                        SampleBounds, Sub, Had, recVars
  <1>2. CASE ~(mtime[p] = Absent /\ ~HasErrLog)
    <2>0. PICK t, d : t = NewModTime(p) /\ d = Sub(t)
      OBVIOUS
    <2>1. /\ modTime' = [modTime EXCEPT ![p] = t]
          /\ sample' = [sample EXCEPT ![p] = d]
          /\ seen' = IF mtime[p] = Absent THEN seen ELSE seen \cup {p}
          /\ todo' = todo \ {p}
          /\ UNCHANGED <<panicked, outVars, ticks, paths, loop, nowTime>>
      BY <1>2, <2>0 DEF CheckPath, TypeOK
    <2>2. /\ t \in ModTimes
          /\ IF p \in seen' THEN t \in Had(p) ELSE t = zeroTime
          /\ mtime[p] # Absent => t = mtime[p]
      BY <1>0, <2>0, <2>1 DEF NewModTime, TypeOK, TimeInv, SeenInv
    <2>3. t \in Int
      BY <2>2, ClockAssumption, ForeignAssumption
         DEF ModTimes, Times, zeroTime
    <2>4. d \in MinDuration..MaxDuration
      BY <1>0, <2>0, <2>3, SubType, ClockAssumption DEF Times
    <2>5. /\ p \notin seen' => d = MaxDuration
          /\ p \in seen' \ Foreign =>
                d \in (nowTime - now)..(nowTime - First)
          /\ p \in seen' \cap Foreign =>
                \E u \in Stamps \cup First..now : d = Sub(u)
      <3>1. p \notin seen' => d = MaxDuration
        BY <1>0, <2>0, <2>2, SubZero
      <3>2. p \in seen' \ Foreign =>
              d \in (nowTime - now)..(nowTime - First)
        BY <1>0, <2>0, <2>2, SubClock DEF Had
      <3>3. p \in seen' \cap Foreign =>
              \E u \in Stamps \cup First..now : d = Sub(u)
        BY <2>0, <2>2 DEF Had
      <3> QED
        BY <3>1, <3>2, <3>3
    <2>6. \A q \in Paths :
            /\ modTime'[q] = IF q = p THEN t ELSE modTime[q]
            /\ sample'[q] = IF q = p THEN d ELSE sample[q]
            /\ q # p => (q \in seen' <=> q \in seen)
            /\ Had(q)' = Had(q)
      BY <2>1 DEF TypeOK, Had
    <2>7. TypeOK'
      <3>1. /\ modTime' \in [Paths -> ModTimes]
            /\ sample' \in [Paths -> MinDuration..MaxDuration \cup {None}]
        BY <2>1, <2>2, <2>4 DEF TypeOK
      <3> QED
        BY <1>0, <2>1, <3>1 DEF TypeOK
    <2>8. TimeInv' /\ CheckInv'
      BY <1>0, <2>1, <2>6 DEF TimeInv, CheckInv
    <2>9. SeenInv'
      BY <2>1, <2>2, <2>6 DEF TypeOK, SeenInv
    <2>10. Fresh'
      BY <2>1, <2>2, <2>6 DEF TypeOK, Fresh
    <2>11. SampleBounds'
      <3> SUFFICES ASSUME NEW q \in paths \ (todo \ {p})
                   PROVE  /\ q \notin seen' => sample'[q] = MaxDuration
                          /\ q \in seen' \ Foreign =>
                                sample'[q] \in (nowTime - now)
                                                 ..(nowTime - First)
                          /\ q \in seen' \cap Foreign =>
                                \E u \in Stamps \cup First..now :
                                   sample'[q] = Sub(u)
        BY <2>1 DEF SampleBounds, Sub
      <3>1. q \in Paths
        BY DEF TypeOK
      <3>2. CASE q = p
        BY <2>5, <2>6, <3>1, <3>2
      <3>3. CASE q # p
        BY <1>0, <2>6, <3>1, <3>3 DEF SampleBounds
      <3> QED
        BY <3>2, <3>3
    <2> QED
      BY <2>7, <2>8, <2>9, <2>10, <2>11
  <1> QED
    BY <1>1, <1>2

(* The invariant is inductive: one case per action.                        *)
LEMMA NextInv == IndInv /\ [Next]_vars => IndInv'
  <1> SUFFICES ASSUME IndInv, [Next]_vars PROVE IndInv'
    OBVIOUS
  <1>1. CASE UNCHANGED vars
    BY <1>1 DEF IndInv, vars, outVars, fileVars, recVars, TypeOK, TimeInv,
                CheckInv, SeenInv, Fresh, SampleBounds, Sub, Had
  <1>2. CASE Next
    BY <1>2, OutsideInv, FileInv, AddMonitoredPathInv, LoopInv, CheckPathInv
       DEF Next, LoopNext
  <1> QED
    BY <1>1, <1>2

(* Every reachable state satisfies the inductive invariant.                *)
LEMMA Invariance == Spec => []IndInv
  BY InitInv, NextInv, PTL DEF Spec

(***************************************************************************)
(* Types: records have times, samples are durations that fit, and a check  *)
(* looks only at paths that are monitored (modtime_monitor.go 76-162).     *)
(***************************************************************************)
THEOREM TypeCorrect == Spec => []TypeOK
  <1>1. IndInv => TypeOK
    BY DEF IndInv
  <1> QED
    BY <1>1, Invariance, PTL

(***************************************************************************)
(* A check misses no modification made before its tick, for any number of  *)
(* paths and however files change meanwhile (modtime_monitor.go 139-162).  *)
(***************************************************************************)
THEOREM ChecksAreFresh == Spec => []Fresh
  <1>1. IndInv => Fresh
    BY DEF IndInv
  <1> QED
    BY <1>1, Invariance, PTL

(***************************************************************************)
(* Reported latencies are saturated for paths never seen.  Those of files  *)
(* with times of the clock are not, and are negative at most by the        *)
(* lateness of the look; those of other files are of times the file can    *)
(* have had, cut to a Duration (modtime_monitor.go 148-160).               *)
(***************************************************************************)
THEOREM SamplesAreBounded == Spec => []SampleBounds
  <1>1. IndInv => SampleBounds
    BY DEF IndInv
  <1> QED
    BY <1>1, Invariance, PTL

=============================================================================
