---------------------------- MODULE HDriverProofs ---------------------------
(***************************************************************************)
(* Proofs about HDriver, for any number of callers, names, drivers and     *)
(* queries, also names that share a channel, queues of any capacity and    *)
(* any number of strategies registered one after the other.                *)
(*                                                                         *)
(* OneGroup and the others rest on what the two mutexes protect: only one  *)
(* caller is inside hotload, so what it saw of the cache and the registry  *)
(* is still true when strategy.Watch returns, and a channel that the       *)
(* strategy does not have yet carries nothing.                             *)
(***************************************************************************)
EXTENDS HDriver, SequenceTheorems, TLAPS

(* mu has one holder.                                                      *)
MuInv ==
    \A c, d \in Callers : at[c] # "idle" /\ at[d] # "idle" => c = d

(* What a caller knows while it holds mu.                                  *)
CallInv ==
    \A c \in Callers :
        /\ at[c] \in {"watch", "dial"} => name[c] \in Names
        /\ at[c] = "watch" => ~Cached(name[c]) /\ strategy # 0
        /\ at[c] = "forget" => updateChan = {}

(* A group has a runLoop, one; its channel is of a strategy registered so  *)
(* far, and open if that one is still registered and not being closed.     *)
GroupInv ==
    \A n \in Names :
        /\ Cached(n) <=> loop[n] # "off"
        /\ loops[n] = IF Cached(n) THEN 1 ELSE 0
        /\ Cached(n) => /\ newValChan[n] \in Chans
                        /\ newValChan[n][2] <= made
                        /\ newValChan[n][2] = strategy
                              => \/ newValChan[n] \in updateChan
                                 \/ StrategyClosed
        /\ loop[n] = "process" => newValue[n] \in Values

(* The strategy has channels exactly while the path is watched, and only   *)
(* those carry values.                                                     *)
ChanInv ==
    /\ pathValue # None <=> updateChan # {}
    /\ updateChan # {} => strategy # 0
    /\ operChan \in [Chans -> Seq(Values)]
    /\ \A ch \in Chans : ch \notin updateChan
                            => operChan[ch] = << >> /\ sending[ch] = None

IndInv ==
    /\ TypeOK /\ MuInv /\ CallInv /\ GroupInv /\ ChanInv
    /\ ChannelFed /\ EndedOnlyByUnregister

-----------------------------------------------------------------------------
(* Channels and queues                                                     *)

(* A channel is of a strategy, and is not None.                            *)
LEMMA ChanFields ==
  /\ \A q \in Queries, s \in 1..MaxStrategies :
        <<q, s>> \in Chans /\ <<q, s>>[2] = s
  /\ \A ch \in Chans : ch[2] \in 1..MaxStrategies /\ ch # None
  /\ \A s : \A ch \in Queries \X {s} :
        ch[2] = s /\ (s \in 1..MaxStrategies => ch \in Chans)
  BY HDriverNone DEF Chans

(* The last element of a queue.                                            *)
LEMMA LastOf ==
  ASSUME NEW s \in Seq(Values)
  PROVE  /\ \A v \in Values : /\ Append(s, v) \in Seq(Values)
                              /\ Append(s, v) # << >>
                              /\ Len(Append(s, v)) = Len(s) + 1
                              /\ Append(s, v)[Len(Append(s, v))] = v
         /\ s # << >> =>
               /\ Tail(s) \in Seq(Values) /\ Head(s) \in Values
               /\ Len(Tail(s)) = Len(s) - 1 /\ Len(s) \in Nat \ {0}
               /\ Tail(s) # << >> => Tail(s)[Len(Tail(s))] = s[Len(s)]
               /\ Tail(s) = << >> => Head(s) = s[Len(s)]
  <1>1. ASSUME NEW v \in Values
        PROVE  /\ Append(s, v) \in Seq(Values) /\ Append(s, v) # << >>
               /\ Len(Append(s, v)) = Len(s) + 1
               /\ Append(s, v)[Len(Append(s, v))] = v
    BY AppendProperties
  <1>2. ASSUME s # << >>
        PROVE  /\ Tail(s) \in Seq(Values) /\ Head(s) \in Values
               /\ Len(Tail(s)) = Len(s) - 1 /\ Len(s) \in Nat \ {0}
               /\ Tail(s) # << >> => Tail(s)[Len(Tail(s))] = s[Len(s)]
               /\ Tail(s) = << >> => Head(s) = s[Len(s)]
    <2> DEFINE t == Tail(s)
    <2>0. /\ t \in Seq(Values) /\ Head(s) \in Values /\ Head(s) = s[1]
          /\ Len(t) = Len(s) - 1 /\ Len(s) \in Nat \ {0}
          /\ \A i \in 1..Len(t) : t[i] = s[i + 1]
      BY <1>2, HeadTailProperties, EmptySeq, LenProperties
    <2> HIDE DEF t
    <2>1. /\ t # << >> => Len(t) \in Nat \ {0}
          /\ t = << >> => Len(t) = 0
      BY <2>0, EmptySeq
    <2>2. t # << >> => t[Len(t)] = s[Len(s)]
      BY <2>0, <2>1
    <2>3. t = << >> => Head(s) = s[Len(s)]
      BY <2>0, <2>1
    <2> QED
      BY <2>0, <2>2, <2>3 DEF t
  <1> QED
    BY <1>1, <1>2

(* A channel, or one who listens to it, has the last value.                *)
Fed(ch) ==
    IF operChan[ch] # << >>
    THEN operChan[ch][Len(operChan[ch])] = pathValue
    ELSE IF sending[ch] # None THEN sending[ch] = pathValue
    ELSE \E n \in Names : newValChan[n] = ch /\ Holds(n) = pathValue

(* ChannelFed, channel by channel.                                         *)
LEMMA FedEach ==
  /\ ChannelFed <=> \A ch \in updateChan \ todo : Fed(ch)
  /\ ChannelFed' <=> \A ch \in updateChan' \ todo' : Fed(ch)'
  BY DEF ChannelFed, Fed, Listeners

(* A channel stays fed while its queue and its listeners stay as they are. *)
LEMMA FedStill ==
  ASSUME NEW ch, Fed(ch), operChan'[ch] = operChan[ch],
         sending'[ch] = sending[ch], pathValue' = pathValue,
         \A n \in Names : newValChan[n] = ch
                             => newValChan'[n] = ch /\ Holds(n)' = Holds(n)
  PROVE  Fed(ch)'
  BY DEF Fed

-----------------------------------------------------------------------------
(* The invariant                                                           *)

(* Nothing is registered and no name is cached.                            *)
LEMMA InitInv == Init => IndInv
  <1> SUFFICES ASSUME Init PROVE IndInv
    OBVIOUS
  <1> USE HDriverBounds, HDriverNone DEF Init
  <1>1. TypeOK
    <2>1. Len(<< >>) = 0 /\ << >> \in Seq(Values)
      OBVIOUS
    <2>2. /\ \A ch \in Chans : operChan[ch] \in Seq(Values)
                               /\ Len(operChan[ch]) <= OperCap
          /\ strategy \in 0..made /\ made \in 0..MaxStrategies
          /\ sets \in 0..MaxSets /\ loops \in [Names -> Nat]
      BY <2>1
    <2> QED
      BY <2>2 DEF TypeOK, Cached, Places
  <1>2. MuInv /\ CallInv /\ GroupInv /\ ChanInv
    BY DEF MuInv, CallInv, GroupInv, ChanInv, Cached
  <1>3. ChannelFed /\ EndedOnlyByUnregister
    BY DEF ChannelFed, EndedOnlyByUnregister
  <1> QED
    BY <1>1, <1>2, <1>3 DEF IndInv

(* Steps that leave groups and channels alone keep them fed.               *)
LEMMA ChannelsUntouched ==
  ASSUME IndInv, UNCHANGED <<groupVars, watchVars, todo, operChan, sending>>
  PROVE  ChannelFed'
  <1>1. \A n \in Names : Holds(n)' = Holds(n)
    BY DEF groupVars, Holds
  <1>2. ASSUME NEW ch \in updateChan' \ todo'
        PROVE  Fed(ch)'
    <2>1. Fed(ch)
      BY FedEach DEF IndInv, watchVars
    <2> QED
      BY <1>1, <2>1, FedStill DEF groupVars, watchVars
  <1> QED
    BY <1>2, FedEach

(* The strategy is closed by no step that leaves the callers alone.        *)
LEMMA ClosedSame == at' = at => (StrategyClosed' <=> StrategyClosed)
  BY DEF StrategyClosed

(* Registration takes mu, so nobody is in the middle of an Open, and a new *)
(* strategy has a number no channel has yet (driver.go 115-168).           *)
LEMMA RegisterInv ==
  ASSUME IndInv,
         RegisterStrategy \/ \E d \in Drivers : RegisterSQLDriver(d)
  PROVE  IndInv'
  <1>1. /\ UNCHANGED <<at, name, newValChan, value, loop, newValue, loops,
                       pathValue, updateChan, todo, operChan, sending, sets>>
        /\ \A c \in Callers : at[c] = "idle"
        /\ UNCHANGED <<strategy, made>> \/ RegisterStrategy
        /\ sqlDrivers' \subseteq Drivers
    BY DEF RegisterSQLDriver, RegisterStrategy, MuFree, IndInv, TypeOK,
           callVars, groupVars, watchVars, queueVars
  <1>2. ChannelFed'
    BY <1>1, ChannelsUntouched DEF groupVars, watchVars
  <1>3. MuInv' /\ CallInv'
    BY <1>1 DEF MuInv, CallInv
  <1>4. CASE UNCHANGED <<strategy, made>>
    <2>1. TypeOK' /\ ChanInv'
      BY <1>1, <1>4 DEF IndInv, TypeOK, ChanInv, Cached
    <2>2. GroupInv' /\ EndedOnlyByUnregister'
      BY <1>1, <1>4, ClosedSame
         DEF IndInv, GroupInv, EndedOnlyByUnregister, Cached
    <2> QED
      BY <1>2, <1>3, <2>1, <2>2 DEF IndInv
  <1>5. CASE RegisterStrategy
    <2>1. /\ strategy = 0 /\ made < MaxStrategies /\ made' = made + 1
          /\ strategy' = made + 1 /\ made \in 0..MaxStrategies
      BY <1>5 DEF RegisterStrategy, IndInv, TypeOK
    <2>2. updateChan = {} /\ todo = {}
      BY <2>1 DEF IndInv, ChanInv, TypeOK
    <2>3. strategy' \in 0..made' /\ made' \in 0..MaxStrategies
      BY <2>1, HDriverBounds
    <2>4. TypeOK' /\ ChanInv'
      BY <1>1, <2>2, <2>3 DEF IndInv, TypeOK, ChanInv, Cached
    <2>5. \A n \in Names : Cached(n) =>
             newValChan[n][2] \in 1..MaxStrategies /\ newValChan[n][2] <= made
      BY ChanFields DEF IndInv, GroupInv
    <2>6. \A n \in Names : Cached(n) =>
             newValChan[n][2] <= made' /\ newValChan[n][2] # strategy'
      BY <2>1, <2>5, HDriverBounds
    <2>7. GroupInv'
      BY <1>1, <2>6 DEF IndInv, GroupInv, Cached
    <2>8. EndedOnlyByUnregister'
      BY <1>1, <2>6 DEF IndInv, GroupInv, EndedOnlyByUnregister
    <2> QED
      BY <1>2, <1>3, <2>4, <2>7, <2>8 DEF IndInv
  <1> QED
    BY <1>1, <1>4, <1>5

(* A caller takes mu, to open a name or to unregister the strategy, or     *)
(* gives it back (driver.go 434-476).                                      *)
LEMMA TakeOrReleaseMuInv ==
  ASSUME IndInv, NEW c \in Callers,
         \/ UnregisterStrategy(c) \/ OpenWatchFails(c) \/ OpenReturn(c)
         \/ \E n \in Names : \/ OpenCached(c, n) \/ OpenRefused(c, n)
                             \/ OpenNew(c, n)
  PROVE  IndInv'
  <1>1. /\ UNCHANGED <<sqlDrivers, strategy, made, newValChan, value, loop,
                       newValue, loops, pathValue, updateChan, todo, operChan,
                       sending, sets>>
        /\ \/ UNCHANGED <<at, name>>
           \/ /\ \A d \in Callers : at[d] = "idle"
              /\ at' = [at EXCEPT ![c] = "close"] /\ name' = name
           \/ /\ at[c] \in {"watch", "dial"}
              /\ at' = [at EXCEPT ![c] = "idle"]
              /\ name' = [name EXCEPT ![c] = None]
           \/ /\ \A d \in Callers : at[d] = "idle"
              /\ \E n \in Names :
                    /\ name' = [name EXCEPT ![c] = n]
                    /\ \/ at' = [at EXCEPT ![c] = "dial"]
                       \/ /\ at' = [at EXCEPT ![c] = "watch"]
                          /\ ~Cached(n) /\ strategy # 0
    <2> USE DEF Return, Enter, MuFree, regVars, callVars, groupVars,
                watchVars, queueVars, vars
    <2>1. CASE UnregisterStrategy(c)
      BY <2>1 DEF UnregisterStrategy
    <2>2. CASE OpenWatchFails(c) \/ OpenReturn(c)
      BY <2>2 DEF OpenWatchFails, OpenReturn
    <2>3. ASSUME NEW n \in Names,
                 OpenCached(c, n) \/ OpenRefused(c, n) \/ OpenNew(c, n)
          PROVE  <1>1!:
      BY <2>3 DEF OpenCached, OpenRefused, OpenNew
    <2> QED
      BY <2>1, <2>2, <2>3
  <1>2. ChannelFed'
    BY <1>1, ChannelsUntouched DEF groupVars, watchVars
  <1>3. at \in [Callers -> Places]
        /\ name \in [Callers -> Names \cup {None}]
    BY DEF IndInv, TypeOK
  <1>4. (at \in [Callers -> Places])'
        /\ (name \in [Callers -> Names \cup {None}])'
    BY <1>1, <1>3 DEF Places
  <1>5. TypeOK'
    BY <1>1, <1>4 DEF IndInv, TypeOK, Cached
  <1>6. MuInv'
    BY <1>1, <1>3 DEF IndInv, MuInv
  <1>7. CallInv'
    BY <1>1, <1>3 DEF IndInv, CallInv, Cached
  <1>8. StrategyClosed' <=> StrategyClosed
    BY <1>1, <1>3 DEF StrategyClosed
  <1>9. GroupInv' /\ ChanInv' /\ EndedOnlyByUnregister'
    BY <1>1, <1>8 DEF IndInv, GroupInv, ChanInv, EndedOnlyByUnregister,
                      Cached
  <1> QED
    BY <1>2, <1>5, <1>6, <1>7, <1>9 DEF IndInv

(* Closing the strategy closes all channels; it stays registered for a     *)
(* moment, but mu keeps everybody out (driver.go 170-176).                 *)
LEMMA CloseStrategyInv ==
  ASSUME IndInv, NEW c \in Callers, CloseStrategy(c)
  PROVE  IndInv'
  <1>1. /\ UNCHANGED <<sqlDrivers, strategy, made, name, newValChan, value,
                       loop, newValue, loops, todo, sets>>
        /\ at' = [at EXCEPT ![c] = "forget"]
        /\ pathValue' = None /\ updateChan' = {} /\ todo = {}
        /\ operChan' = [ch \in Chans |-> << >>]
        /\ sending' = [ch \in Chans |-> None]
        /\ at[c] = "close"
        /\ at \in [Callers -> Places]
    BY DEF CloseStrategy, StrategyMuFree, IndInv, TypeOK, regVars, groupVars
  <1>2. /\ at' \in [Callers -> Places] /\ at'[c] = "forget"
        /\ \A d \in Callers : d # c => at'[d] = "idle"
    BY <1>1 DEF IndInv, MuInv, Places
  <1>3. << >> \in Seq(Values) /\ Len(<< >>) = 0
    OBVIOUS
  <1>4. StrategyClosed'
    BY <1>2 DEF StrategyClosed
  <1>5. \A ch \in Chans : operChan'[ch] \in Seq(Values)
                          /\ Len(operChan'[ch]) <= OperCap
    BY <1>1, <1>3, HDriverBounds
  <1>6. TypeOK'
    BY <1>1, <1>2, <1>5 DEF IndInv, TypeOK, Cached
  <1>7. MuInv' /\ CallInv' /\ ChanInv' /\ ChannelFed'
    BY <1>1, <1>2, <1>3 DEF MuInv, CallInv, ChanInv, ChannelFed
  <1>8. GroupInv' /\ EndedOnlyByUnregister'
    BY <1>1, <1>4 DEF IndInv, GroupInv, Cached, EndedOnlyByUnregister
  <1> QED
    BY <1>6, <1>7, <1>8 DEF IndInv

(* The strategy is deleted.  The groups stay, with channels that belong to *)
(* no strategy (driver.go 178).                                            *)
LEMMA ForgetStrategyInv ==
  ASSUME IndInv, NEW c \in Callers, ForgetStrategy(c)
  PROVE  IndInv'
  <1>1. /\ UNCHANGED <<sqlDrivers, made, name, newValChan, value, loop,
                       newValue, loops, pathValue, updateChan, todo, operChan,
                       sending, sets>>
        /\ at' = [at EXCEPT ![c] = "idle"] /\ strategy' = 0
        /\ at[c] = "forget"
        /\ at \in [Callers -> Places]
    BY DEF ForgetStrategy, IndInv, TypeOK, groupVars, watchVars, queueVars
  <1>2. at' \in [Callers -> Places] /\ \A d \in Callers : at'[d] = "idle"
    BY <1>1 DEF IndInv, MuInv, Places
  <1>3. strategy' \in 0..made'
    BY <1>1, HDriverBounds DEF IndInv, TypeOK
  <1>4. updateChan = {} /\ pathValue = None /\ todo = {}
    BY <1>1 DEF IndInv, CallInv, ChanInv, TypeOK
  <1>5. TypeOK'
    BY <1>1, <1>2, <1>3, <1>4 DEF IndInv, TypeOK, Cached
  <1>6. MuInv' /\ CallInv'
    BY <1>2 DEF MuInv, CallInv
  <1>7. ChanInv' /\ ChannelFed'
    BY <1>1, <1>4 DEF IndInv, ChanInv, ChannelFed
  <1>8. \A n \in Names : Cached(n) => newValChan[n][2] # 0
    BY ChanFields DEF IndInv, GroupInv
  <1>9. GroupInv'
    BY <1>1, <1>8 DEF IndInv, GroupInv, Cached
  <1>10. EndedOnlyByUnregister'
    BY <1>1, <1>8 DEF IndInv, GroupInv, EndedOnlyByUnregister
  <1> QED
    BY <1>5, <1>6, <1>7, <1>9, <1>10 DEF IndInv

(* strategy.Watch and the new group: the name is still not cached and the  *)
(* strategy still registered, and the channel, if it is new, is empty      *)
(* (driver.go 454-473).                                                    *)
LEMMA OpenWatchedInv ==
  ASSUME IndInv, NEW c \in Callers, NEW v \in Values, OpenWatched(c, v)
  PROVE  IndInv'
  <1>1. PICK n \in Names : n = name[c] /\ ~Cached(n) /\ strategy # 0
    BY DEF OpenWatched, IndInv, CallInv
  <1>2. PICK ch : ch = <<QueryOf[n], strategy>>
    OBVIOUS
  <1>3. /\ at[c] = "watch" /\ todo = {}
        /\ pathValue' = IF pathValue = None THEN v ELSE pathValue
        /\ updateChan' = updateChan \cup {ch}
        /\ newValChan' = [newValChan EXCEPT ![n] = ch]
        /\ value' = [value EXCEPT ![n] = pathValue']
        /\ loop' = [loop EXCEPT ![n] = "select"]
        /\ loops' = [loops EXCEPT ![n] = loops[n] + 1]
        /\ at' = [at EXCEPT ![c] = "dial"]
        /\ UNCHANGED <<sqlDrivers, strategy, made, name, newValue, todo,
                       operChan, sending, sets>>
    BY <1>1, <1>2 DEF OpenWatched, StrategyMuFree, regVars, queueVars
  <1>4. /\ at \in [Callers -> Places]
        /\ newValChan \in [Names -> Chans \cup {None}]
        /\ value \in [Names -> Values \cup {None}]
        /\ loop \in [Names -> {"off", "select", "process", "ended"}]
        /\ loops \in [Names -> Nat]
        /\ updateChan \subseteq Queries \X {strategy}
        /\ pathValue \in Values \cup {None}
    BY DEF IndInv, TypeOK
  <1>5. /\ strategy \in 1..MaxStrategies /\ strategy <= made
    BY <1>1, HDriverBounds DEF IndInv, TypeOK
  <1>6. /\ ch \in Chans /\ ch[2] = strategy /\ ch # None
        /\ ch \in Queries \X {strategy}
    BY <1>2, <1>5, ChanFields, NamesAssumption
  <1>7. pathValue' \in Values /\ pathValue' # None
    BY <1>3, <1>4, HDriverNone
  <1>8. TypeOK'
    <2>1. /\ at' \in [Callers -> Places]
          /\ newValChan' \in [Names -> Chans \cup {None}]
          /\ value' \in [Names -> Values \cup {None}]
          /\ loop' \in [Names -> {"off", "select", "process", "ended"}]
          /\ updateChan' \subseteq Queries \X {strategy}
          /\ todo' \subseteq updateChan'
      BY <1>3, <1>4, <1>6, <1>7 DEF Places
    <2>2. loops' \in [Names -> Nat]
      BY <1>3, <1>4
    <2>3. \A m \in Names : Cached(m)' => value'[m] # None /\ loop'[m] # "off"
      BY <1>3, <1>4, <1>7 DEF IndInv, TypeOK, Cached
    <2> QED
      BY <1>3, <1>7, <2>1, <2>2, <2>3 DEF IndInv, TypeOK
  <1>9. MuInv' /\ CallInv'
    <2>1. \A d \in Callers : d # c => at[d] = "idle" /\ at'[d] = "idle"
      BY <1>3, <1>4 DEF IndInv, MuInv
    <2> QED
      BY <1>1, <1>3, <1>4, <2>1 DEF MuInv, CallInv
  <1>c. ~StrategyClosed /\ ~StrategyClosed'
    <2>1. \A d \in Callers : at[d] # "forget" /\ at'[d] # "forget"
      BY <1>3, <1>4 DEF IndInv, MuInv
    <2> QED
      BY <2>1 DEF StrategyClosed
  <1>10. GroupInv'
    <2> SUFFICES ASSUME NEW m \in Names PROVE GroupInv!(m)'
      BY DEF GroupInv
    <2>1. CASE m = n
      BY <1>1, <1>3, <1>4, <1>5, <1>6, <2>1 DEF IndInv, GroupInv, Cached
    <2>2. CASE m # n
      BY <1>c, <1>3, <1>4, <2>2 DEF IndInv, GroupInv, Cached
    <2> QED
      BY <2>1, <2>2
  <1>11. ChanInv'
    BY <1>1, <1>3, <1>7 DEF IndInv, ChanInv
  <1>12. \A m \in Names : m # n => newValChan'[m] = newValChan[m]
                                   /\ Holds(m)' = Holds(m)
    BY <1>3, <1>4 DEF Holds
  <1>13. newValChan'[n] = ch /\ Holds(n)' = pathValue'
    BY <1>3, <1>4 DEF Holds
  <1>14. ChannelFed'
    <2> SUFFICES ASSUME NEW k \in updateChan' PROVE Fed(k)'
      BY <1>3, FedEach
    <2>1. CASE k \in updateChan
      <3>1. Fed(k) /\ pathValue' = pathValue
        BY <1>3, <2>1, FedEach DEF IndInv, ChanInv
      <3>2. newValChan[n] # k
        BY <1>1, <1>4, <1>5, <2>1, ChanFields DEF Cached
      <3> QED
        BY <1>3, <1>12, <3>1, <3>2, FedStill
    <2>2. CASE k \notin updateChan
      <3>1. k = ch /\ operChan'[k] = << >> /\ sending'[k] = None
        BY <1>3, <1>6, <2>2 DEF IndInv, ChanInv
      <3> QED
        BY <1>13, <3>1 DEF Fed
    <2> QED
      BY <2>1, <2>2
  <1>15. EndedOnlyByUnregister'
    BY <1>c, <1>3, <1>4 DEF IndInv, EndedOnlyByUnregister
  <1> QED
    BY <1>8, <1>9, <1>10, <1>11, <1>14, <1>15 DEF IndInv

(* setVal owes the value to every channel (filewatcher.go 136-153).        *)
LEMMA SetValInv ==
  ASSUME IndInv, NEW v \in Values, setVal(v)
  PROVE  IndInv'
  <1>1. /\ todo = {} /\ pathValue # None /\ pathValue' = v /\ v # None
        /\ todo' = updateChan
        /\ UNCHANGED <<sqlDrivers, strategy, made, at, name, newValChan,
                       value, loop, newValue, loops, updateChan, operChan,
                       sending>>
    BY HDriverNone DEF setVal, StrategyMuFree, regVars, callVars, groupVars
  <1>2. sets' \in 0..MaxSets
    <2>1. sets \in 0..MaxSets /\ sets < MaxSets /\ sets' = sets + 1
      BY DEF setVal, IndInv, TypeOK
    <2> QED
      BY <2>1, HDriverBounds
  <1>3. TypeOK'
    BY <1>1, <1>2 DEF IndInv, TypeOK, Cached
  <1>4. MuInv' /\ CallInv' /\ GroupInv'
    BY <1>1, ClosedSame DEF IndInv, MuInv, CallInv, GroupInv, Cached
  <1>5. ChanInv' /\ ChannelFed' /\ EndedOnlyByUnregister'
    BY <1>1, ClosedSame DEF IndInv, ChanInv, ChannelFed, EndedOnlyByUnregister
  <1> QED
    BY <1>3, <1>4, <1>5 DEF IndInv

(* The value of the moment goes to the end of a queue.                     *)
LEMMA EnqueueInv ==
  ASSUME IndInv, NEW ch \in Chans, Enqueue(ch)
  PROVE  IndInv'
  <1> DEFINE s == operChan[ch]
             t == Append(s, pathValue)
  <1>1. /\ ch \in todo /\ ch \in updateChan /\ Len(s) < OperCap
        /\ operChan' = [operChan EXCEPT ![ch] = t]
        /\ operChan \in [Chans -> Seq(Values)]
        /\ todo' = todo \ {ch}
        /\ UNCHANGED <<sqlDrivers, strategy, made, at, name, newValChan,
                       value, loop, newValue, loops, pathValue, updateChan,
                       sending, sets>>
        /\ pathValue \in Values
    BY DEF Enqueue, StillOwed, IndInv, TypeOK, ChanInv, regVars, callVars,
           groupVars, watchVars
  <1>2. /\ t \in Seq(Values) /\ t # << >> /\ Len(t) = Len(s) + 1
        /\ t[Len(t)] = pathValue /\ Len(s) \in Nat
    BY <1>1, LastOf, LenProperties
  <1>3. Len(t) <= OperCap
    BY <1>1, <1>2, HDriverBounds
  <1> HIDE DEF t
  <1>4. /\ operChan'[ch] = t
        /\ \A k \in Chans : k # ch => operChan'[k] = operChan[k]
        /\ operChan' \in [Chans -> Seq(Values)]
    BY <1>1, <1>2
  <1>5. TypeOK'
    BY <1>1, <1>3, <1>4 DEF IndInv, TypeOK, Cached
  <1>6. MuInv' /\ CallInv' /\ GroupInv' /\ EndedOnlyByUnregister'
    BY <1>1, ClosedSame
       DEF IndInv, MuInv, CallInv, GroupInv, EndedOnlyByUnregister, Cached
  <1>7. ChanInv'
    BY <1>1, <1>4 DEF IndInv, ChanInv
  <1>8. ChannelFed'
    <2> SUFFICES ASSUME NEW k \in updateChan' \ todo' PROVE Fed(k)'
      BY FedEach
    <2>1. CASE k = ch
      BY <1>1, <1>2, <1>4, <2>1 DEF Fed
    <2>2. CASE k # ch
      <3>1. Fed(k)
        BY <1>1, <2>2, FedEach DEF IndInv
      <3>2. operChan'[k] = operChan[k]
        BY <1>1, <2>2
      <3>3. \A n \in Names : Holds(n)' = Holds(n)
        BY <1>1 DEF Holds
      <3> QED
        BY <1>1, <3>1, <3>2, <3>3, FedStill
    <2> QED
      BY <2>1, <2>2
  <1> QED
    BY <1>5, <1>6, <1>7, <1>8 DEF IndInv

(* opLoop takes the oldest value; when it was the only one, it is the      *)
(* value of the moment.                                                    *)
LEMMA TakeOpInv ==
  ASSUME IndInv, NEW ch \in Chans, TakeOp(ch)
  PROVE  IndInv'
  <1> DEFINE s == operChan[ch]
             t == Tail(s)
             h == Head(s)
  <1>1. /\ s # << >> /\ ch \in updateChan /\ s \in Seq(Values)
        /\ operChan' = [operChan EXCEPT ![ch] = t]
        /\ operChan \in [Chans -> Seq(Values)]
        /\ sending' = [sending EXCEPT ![ch] = h]
        /\ sending \in [Chans -> Values \cup {None}]
        /\ UNCHANGED <<sqlDrivers, strategy, made, at, name, newValChan,
                       value, loop, newValue, loops, pathValue, updateChan,
                       todo, sets>>
    BY DEF TakeOp, IndInv, TypeOK, ChanInv, regVars, callVars, groupVars,
           watchVars
  <1>2. /\ t \in Seq(Values) /\ h \in Values /\ h # None
        /\ Len(t) = Len(s) - 1 /\ Len(s) \in Nat \ {0}
        /\ t # << >> => t[Len(t)] = s[Len(s)]
        /\ t = << >> => h = s[Len(s)]
    BY <1>1, LastOf, HDriverNone
  <1>3. Len(t) <= OperCap
    <2>1. Len(s) <= OperCap
      BY DEF IndInv, TypeOK
    <2> QED
      BY <1>2, <2>1, HDriverBounds
  <1> HIDE DEF t, h
  <1>4. /\ operChan'[ch] = t /\ sending'[ch] = h
        /\ \A k \in Chans : k # ch => operChan'[k] = operChan[k]
                                      /\ sending'[k] = sending[k]
        /\ operChan' \in [Chans -> Seq(Values)]
        /\ sending' \in [Chans -> Values \cup {None}]
    BY <1>1, <1>2
  <1>5. TypeOK'
    BY <1>1, <1>3, <1>4 DEF IndInv, TypeOK, Cached
  <1>6. MuInv' /\ CallInv' /\ GroupInv' /\ EndedOnlyByUnregister'
    BY <1>1, ClosedSame
       DEF IndInv, MuInv, CallInv, GroupInv, EndedOnlyByUnregister, Cached
  <1>7. ChanInv'
    BY <1>1, <1>4 DEF IndInv, ChanInv
  <1>8. ChannelFed'
    <2> SUFFICES ASSUME NEW k \in updateChan \ todo PROVE Fed(k)'
      BY <1>1, FedEach
    <2>1. Fed(k) /\ k \in Chans
      <3>1. strategy \in 1..MaxStrategies
        BY HDriverBounds DEF IndInv, TypeOK, ChanInv
      <3> QED
        BY <3>1, FedEach, ChanFields DEF IndInv, TypeOK
    <2>2. CASE k = ch
      BY <1>1, <1>2, <1>4, <2>1, <2>2 DEF Fed
    <2>3. CASE k # ch
      <3>1. \A n \in Names : Holds(n)' = Holds(n)
        BY <1>1 DEF Holds
      <3> QED
        BY <1>1, <1>4, <2>1, <2>3, <3>1, FedStill
    <2> QED
      BY <2>2, <2>3
  <1> QED
    BY <1>5, <1>6, <1>7, <1>8 DEF IndInv

(* A group receives: it is the one that has the value from now on          *)
(* (driver.go 228-245).                                                    *)
LEMMA ReceiveInv ==
  ASSUME IndInv, NEW n \in Names, Receive(n)
  PROVE  IndInv'
  <1>1. PICK ch : ch = newValChan[n]
    OBVIOUS
  <1>2. /\ loop[n] = "select" /\ ch \in updateChan /\ sending[ch] # None
        /\ newValue' = [newValue EXCEPT ![n] = sending[ch]]
        /\ sending' = [sending EXCEPT ![ch] = None]
        /\ loop' = [loop EXCEPT ![n] = "process"]
        /\ UNCHANGED <<sqlDrivers, strategy, made, at, name, newValChan,
                       value, loops, pathValue, updateChan, todo, operChan,
                       sets>>
        /\ newValue \in [Names -> Values \cup {None}]
        /\ sending \in [Chans -> Values \cup {None}]
        /\ loop \in [Names -> {"off", "select", "process", "ended"}]
    BY <1>1 DEF Receive, IndInv, TypeOK, regVars, callVars, watchVars
  <1>3. Cached(n) /\ ch \in Chans
    BY <1>1, <1>2 DEF IndInv, GroupInv
  <1>4. sending[ch] \in Values
    BY <1>2, <1>3
  <1>5. /\ newValue' \in [Names -> Values \cup {None}]
        /\ sending' \in [Chans -> Values \cup {None}]
        /\ loop' \in [Names -> {"off", "select", "process", "ended"}]
    BY <1>2, <1>4
  <1>6. TypeOK'
    BY <1>2, <1>5 DEF IndInv, TypeOK, Cached
  <1>7. MuInv' /\ CallInv' /\ ChanInv'
    BY <1>2 DEF IndInv, MuInv, CallInv, ChanInv, Cached
  <1>8. GroupInv'
    BY <1>2, <1>4, ClosedSame DEF IndInv, GroupInv, Cached
  <1>9. EndedOnlyByUnregister'
    BY <1>2, ClosedSame DEF IndInv, EndedOnlyByUnregister
  <1>10. /\ \A m \in Names : m # n => Holds(m)' = Holds(m)
         /\ Holds(n)' = sending[ch]
    BY <1>2 DEF Holds
  <1>11. ChannelFed'
    <2> SUFFICES ASSUME NEW k \in updateChan \ todo PROVE Fed(k)'
      BY <1>2, FedEach
    <2>1. Fed(k)
      BY FedEach DEF IndInv
    <2>2. CASE k = ch
      BY <1>1, <1>2, <1>3, <1>10, <2>1, <2>2 DEF Fed
    <2>3. CASE k # ch
      <3>1. k \in Chans
        <4>1. strategy \in 1..MaxStrategies
          BY HDriverBounds DEF IndInv, TypeOK, ChanInv
        <4> QED
          BY <4>1, ChanFields DEF IndInv, TypeOK
      <3> QED
        BY <1>1, <1>2, <1>10, <2>1, <2>3, <3>1, FedStill
    <2> QED
      BY <2>2, <2>3
  <1> QED
    BY <1>6, <1>7, <1>8, <1>9, <1>11 DEF IndInv

(* processNewValue and the end of runLoop: the group has what it had, and  *)
(* its runLoop ends only when its channel is closed (driver.go 228-260).   *)
LEMMA LoopInv ==
  ASSUME IndInv, NEW n \in Names, processNewValue(n) \/ ChanClosed(n)
  PROVE  IndInv'
  <1>1. /\ UNCHANGED <<sqlDrivers, strategy, made, at, name, newValChan,
                       loops, pathValue, updateChan, todo, operChan, sending,
                       sets>>
        /\ loop[n] \in {"select", "process"}
        /\ newValue \in [Names -> Values \cup {None}]
        /\ value \in [Names -> Values \cup {None}]
        /\ loop \in [Names -> {"off", "select", "process", "ended"}]
    BY DEF processNewValue, ChanClosed, IndInv, TypeOK, regVars, callVars,
           watchVars, queueVars
  <1>2. /\ loop[n] = "process" /\ loop' = [loop EXCEPT ![n] = "select"]
           /\ value' = [value EXCEPT ![n] = newValue[n]]
           /\ newValue' = [newValue EXCEPT ![n] = None]
           /\ newValue[n] \in Values
        \/ /\ loop[n] = "select" /\ loop' = [loop EXCEPT ![n] = "ended"]
           /\ newValChan[n] \notin updateChan
           /\ UNCHANGED <<value, newValue>>
    BY DEF processNewValue, ChanClosed, IndInv, GroupInv
  <1>3. /\ newValue' \in [Names -> Values \cup {None}]
        /\ value' \in [Names -> Values \cup {None}]
        /\ loop' \in [Names -> {"off", "select", "process", "ended"}]
    BY <1>1, <1>2
  <1>4. \A m \in Names : /\ Holds(m)' = Holds(m)
                         /\ loop'[m] # "off" <=> loop[m] # "off"
    BY <1>1, <1>2 DEF Holds
  <1>5. \A m \in Names : Cached(m) => value'[m] # None
    BY <1>1, <1>2, HDriverNone DEF IndInv, TypeOK
  <1>6. TypeOK'
    BY <1>1, <1>3, <1>4, <1>5 DEF IndInv, TypeOK, Cached
  <1>7. MuInv' /\ CallInv' /\ ChanInv'
    BY <1>1 DEF IndInv, MuInv, CallInv, ChanInv, Cached
  <1>8. GroupInv'
    BY <1>1, <1>2, <1>4, ClosedSame DEF IndInv, GroupInv, Cached
  <1>9. EndedOnlyByUnregister'
    BY <1>1, <1>2, ClosedSame DEF IndInv, GroupInv, EndedOnlyByUnregister
  <1>10. ChannelFed'
    <2> SUFFICES ASSUME NEW k \in updateChan \ todo PROVE Fed(k)'
      BY <1>1, FedEach
    <2>1. Fed(k)
      BY FedEach DEF IndInv
    <2> QED
      BY <1>1, <1>4, <2>1, FedStill
  <1> QED
    BY <1>6, <1>7, <1>8, <1>9, <1>10 DEF IndInv

(* Every step keeps the invariant.                                         *)
LEMMA NextInv ==
  ASSUME IndInv, [Next]_vars
  PROVE  IndInv'
  <1>1. CASE RegisterStrategy \/ \E d \in Drivers : RegisterSQLDriver(d)
    BY <1>1, RegisterInv
  <1>2. ASSUME NEW c \in Callers, CallNext(c)
        PROVE  IndInv'
    BY <1>2, TakeOrReleaseMuInv, CloseStrategyInv, ForgetStrategyInv,
       OpenWatchedInv DEF CallNext
  <1>3. CASE (\E v \in Values : setVal(v))
             \/ \E ch \in Chans : Enqueue(ch) \/ TakeOp(ch)
    BY <1>3, SetValInv, EnqueueInv, TakeOpInv
  <1>4. CASE \E n \in Names : LoopNext(n)
    BY <1>4, ReceiveInv, LoopInv DEF LoopNext
  <1>5. CASE UNCHANGED vars
    <2>1. UNCHANGED <<sqlDrivers, strategy, made, at, name, newValChan, value,
                      loop, newValue, loops, pathValue, updateChan, todo,
                      operChan, sending, sets>>
      BY <1>5 DEF vars, regVars, callVars, groupVars, watchVars, queueVars
    <2>2. ChannelFed'
      BY <2>1, ChannelsUntouched DEF groupVars, watchVars
    <2>3. TypeOK'
      BY <2>1 DEF IndInv, TypeOK, Cached
    <2>4. MuInv' /\ CallInv' /\ GroupInv' /\ ChanInv'
          /\ EndedOnlyByUnregister'
      BY <2>1, ClosedSame DEF IndInv, MuInv, CallInv, GroupInv, ChanInv,
                              EndedOnlyByUnregister, Cached
    <2> QED
      BY <2>2, <2>3, <2>4 DEF IndInv
  <1> QED
    BY <1>1, <1>2, <1>3, <1>4, <1>5 DEF Next

(* The inductive invariant of hotload as a whole.                          *)
LEMMA Invariance == Spec => []IndInv
  BY InitInv, NextInv, PTL DEF Spec

-----------------------------------------------------------------------------
(* Safety                                                                  *)

(***************************************************************************)
(* The registries, callers, groups and queues are well formed; a channel   *)
(* that is open belongs to the strategy that is registered.                *)
(***************************************************************************)
THEOREM TypeCorrect == Spec => []TypeOK
  <1>1. IndInv => TypeOK
    BY DEF IndInv
  <1> QED
    BY <1>1, Invariance, PTL

(***************************************************************************)
(* However many goroutines open a name at once, and however often the      *)
(* strategy is unregistered and registered again, the name gets one        *)
(* chanGroup (driver.go 439-475).                                          *)
(***************************************************************************)
THEOREM OneGroupEach == Spec => []OneGroup
  <1>1. IndInv => OneGroup
    BY DEF IndInv, GroupInv, OneGroup
  <1> QED
    BY <1>1, Invariance, PTL

(***************************************************************************)
(* The last value of the path is under way to every open channel, or a     *)
(* group that listens there has it (driver.go 454-473, filewatcher.go      *)
(* 136-214).  With one listener per channel this is what GroupsFollow      *)
(* needs; with two names on a channel only one of them is promised it.     *)
(***************************************************************************)
THEOREM ChannelsAreFed == Spec => []ChannelFed
  <1>1. IndInv => ChannelFed
    BY DEF IndInv
  <1> QED
    BY <1>1, Invariance, PTL

(***************************************************************************)
(* Nothing but UnregisterStrategy cuts a cached group off from its values  *)
(* (driver.go 237-240, 443).                                               *)
(***************************************************************************)
THEOREM OnlyUnregisterEnds == Spec => []EndedOnlyByUnregister
  <1>1. IndInv => EndedOnlyByUnregister
    BY DEF IndInv
  <1> QED
    BY <1>1, Invariance, PTL

=============================================================================
