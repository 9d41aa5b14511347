-------------------------- MODULE SecretSinkProofs --------------------------
(***************************************************************************)
(* Proofs about SecretSink, for any set of secrets, finite or not, any     *)
(* size of the store and any bounds.                                       *)
(*                                                                         *)
(* LeastRecentGoes compares the times of all successful calls of Add, and  *)
(* the search in Add compares those of the store, so the two must agree on *)
(* what is stored.  Counting needs the store, and the secrets ever used,   *)
(* to be finite.                                                           *)
(***************************************************************************)
EXTENDS SecretSink, FiniteSetTheorems, WellFoundedInduction, TLAPS

(* The secrets for which Add has ever succeeded.                           *)
Used == {s \in Secrets : lastUse[s] # 0}

FiniteInv == IsFiniteSet(Stored) /\ IsFiniteSet(Used)

(* The store has the time of the last call.                                *)
UseInv == \A u \in Stored : lastUse[u] = secretStore[u].lastUsedTime

IndInv ==
    /\ TypeOK /\ FiniteInv /\ UseInv
    /\ LeastRecentGoes /\ Recognisable /\ PanicsOnlyOnTies

-----------------------------------------------------------------------------

(* A set of numbers that is not empty has a least one.                     *)
LEMMA LeastNumber ==
  ASSUME NEW T \in SUBSET Nat, T # {}
  PROVE  \E m \in T : \A n \in T : m <= n
  <1> DEFINE R == OpToRel(<, Nat)
  <1>1. IsWellFoundedOn(R, Nat)
    BY NatLessThanWellFounded
  <1> HIDE DEF R
  <1>2. PICK m \in T : \A n \in T : ~(<<n, m>> \in R)
    BY <1>1, WFMin
  <1>3. \A n \in T : n < m => <<n, m>> \in R
    BY DEF R, OpToRel
  <1>4. m \in Nat /\ \A n \in T : n \in Nat /\ ~(n < m)
    BY <1>2, <1>3
  <1> QED
    BY <1>4

(* When the search finds no pair, all pairs were used at the time of the   *)
(* clock (secret_sink.go 60-69).                                           *)
LEMMA NothingOlder ==
  ASSUME TypeOK, Oldest = {}
  PROVE  \A u \in Stored : secretStore[u].lastUsedTime = now
  <1> DEFINE T == {secretStore[u].lastUsedTime : u \in Stored}
  <1>1. \A u \in Stored : /\ secretStore[u].lastUsedTime \in Nat
                          /\ secretStore[u].lastUsedTime <= now
                          /\ now \in Nat
    BY DEF TypeOK
  <1>2. SUFFICES ASSUME NEW v \in Stored, secretStore[v].lastUsedTime # now
                 PROVE  FALSE
    OBVIOUS
  <1>3. T \in SUBSET Nat /\ secretStore[v].lastUsedTime \in T
    BY <1>1
  <1>4. PICK m \in T : \A n \in T : m <= n
    <2> HIDE DEF T
    <2> QED
      BY <1>3, LeastNumber
  <1>5. PICK u \in Stored : m = secretStore[u].lastUsedTime
    OBVIOUS
  <1>6. \A w \in Stored : secretStore[u].lastUsedTime
                             <= secretStore[w].lastUsedTime
    BY <1>4, <1>5
  <1>7. secretStore[u].lastUsedTime < now
    BY <1>1, <1>2, <1>6
  <1> QED
    BY <1>6, <1>7 DEF Oldest

(* NewRandomSecretSink makes an empty store (secret_sink.go 33-39).        *)
LEMMA InitInv == Init => IndInv
  <1> SUFFICES ASSUME Init PROVE IndInv
    OBVIOUS
  <1> USE MaxCountAssumption, SinkBounds, SinkNone DEF Init
  <1>1. Stored = {} /\ Used = {}
    BY DEF Stored, Used
  <1>2. FiniteInv /\ Cardinality(Stored) = 0
    BY <1>1, FS_EmptySet DEF FiniteInv
  <1>3. TypeOK
    <2>1. now \in 1..MaxTime /\ 0 \in 0..MaxRandoms
      OBVIOUS
    <2>2. /\ lastUse \in [Secrets -> 0..now]
          /\ shown \in [Secrets -> 0..MaxRandoms \cup {None}]
      OBVIOUS
    <2>3. /\ Stored \subseteq Secrets
          /\ \A s \in Stored : secretStore[s] \in
                [randomSecret : 1..MaxRandoms, lastUsedTime : 1..now]
          /\ panicked \in BOOLEAN /\ randoms \in 0..MaxRandoms
      BY <1>1, <2>1
    <2>4. Cardinality(Stored) <= maxCount
      BY <1>2
    <2> HIDE DEF Init
    <2> QED
      BY <2>1, <2>2, <2>3, <2>4 DEF TypeOK
  <1>4. UseInv /\ LeastRecentGoes /\ Recognisable /\ PanicsOnlyOnTies
    BY <1>1 DEF UseInv, LeastRecentGoes, Recognisable, PanicsOnlyOnTies
  <1> QED
    BY <1>2, <1>3, <1>4 DEF IndInv

(* What one call of Add does to the clock and the times of use.            *)
LEMMA ReturnedInv ==
  ASSUME NEW s \in Secrets, NEW r \in 0..MaxRandoms, NEW t \in Later,
         TypeOK, FiniteInv, Returned(s, r, t)
  PROVE  /\ t \in now..MaxTime /\ t \in Nat /\ now' = t
         /\ lastUse' \in [Secrets -> 0..now']
         /\ shown' \in [Secrets -> 0..MaxRandoms \cup {None}]
         /\ IsFiniteSet(Used')
         /\ shown'[s] = r /\ lastUse'[s] = IF r = 0 THEN lastUse[s] ELSE t
         /\ \A u \in Secrets \ {s} :
               lastUse'[u] = lastUse[u] /\ shown'[u] = shown[u]
  <1> USE SinkBounds DEF redactStr
  <1>1. t \in now..MaxTime /\ t \in Nat /\ now \in Nat /\ now' = t
    BY DEF Later, TypeOK, Returned
  <1>2. lastUse \in [Secrets -> 0..now']
    <2>1. 0..now \subseteq 0..now'
      BY <1>1
    <2> QED
      BY <2>1 DEF TypeOK
  <1>3. lastUse' \in [Secrets -> 0..now']
    BY <1>1, <1>2 DEF Returned
  <1>4. shown' \in [Secrets -> 0..MaxRandoms \cup {None}]
    BY DEF Returned, TypeOK
  <1>5. /\ shown'[s] = r /\ lastUse'[s] = IF r = 0 THEN lastUse[s] ELSE t
        /\ \A u \in Secrets \ {s} :
              lastUse'[u] = lastUse[u] /\ shown'[u] = shown[u]
    BY DEF Returned, TypeOK
  <1>6. Used' \in SUBSET (Used \cup {s})
    BY <1>5 DEF Used
  <1>7. IsFiniteSet(Used')
    BY <1>6, FS_AddElement, FS_Subset DEF FiniteInv
  <1> QED
    BY <1>1, <1>3, <1>4, <1>5, <1>7

(* A stored secret becomes the youngest of all (secret_sink.go 48-52).     *)
LEMMA AddFoundInv ==
  ASSUME NEW s \in Secrets, IndInv, AddFound(s)
  PROVE  IndInv'
  <1> USE SinkBounds, MaxCountAssumption
  <1>1. PICK t \in Later :
          /\ Returned(s, secretStore[s].randomSecret, t)
          /\ secretStore' = [secretStore EXCEPT ![s].lastUsedTime = t]
    BY DEF AddFound
  <1>2. /\ s \in Stored /\ ~panicked
        /\ randoms' = randoms /\ panicked' = panicked
    BY DEF AddFound
  <1>3. PICK r : r = secretStore[s].randomSecret
    OBVIOUS
  <1>4. r \in 1..MaxRandoms
    BY <1>2, <1>3 DEF IndInv, TypeOK
  <1>5. /\ t \in now..MaxTime /\ t \in Nat /\ now' = t
        /\ lastUse' \in [Secrets -> 0..now']
        /\ shown' \in [Secrets -> 0..MaxRandoms \cup {None}]
        /\ IsFiniteSet(Used')
        /\ shown'[s] = r /\ lastUse'[s] = t
        /\ \A u \in Secrets \ {s} :
              lastUse'[u] = lastUse[u] /\ shown'[u] = shown[u]
    BY <1>1, <1>3, <1>4, ReturnedInv DEF IndInv
  <1>6. Stored' = Stored
    BY <1>1 DEF Stored
  <1>7. /\ secretStore'[s] = [randomSecret |-> r, lastUsedTime |-> t]
        /\ \A u \in Stored \ {s} : secretStore'[u] = secretStore[u]
    BY <1>1, <1>2, <1>3 DEF Stored, IndInv, TypeOK
  <1>8. now \in 1..MaxTime /\ \A u \in Stored : u \in Secrets
    BY DEF IndInv, TypeOK
  <1>9. \A u \in Stored : secretStore'[u] \in
            [randomSecret : 1..MaxRandoms, lastUsedTime : 1..now']
    BY <1>4, <1>5, <1>7, <1>8 DEF IndInv, TypeOK
  <1>10. TypeOK'
    BY <1>2, <1>5, <1>6, <1>8, <1>9 DEF IndInv, TypeOK
  <1>11. FiniteInv'
    BY <1>5, <1>6 DEF IndInv, FiniteInv
  <1>12. UseInv' /\ Recognisable'
    BY <1>5, <1>6, <1>7, <1>8 DEF IndInv, UseInv, Recognisable
  <1>13. LeastRecentGoes'
    BY <1>2, <1>5, <1>6, <1>8 DEF IndInv, TypeOK, LeastRecentGoes
  <1>14. PanicsOnlyOnTies'
    BY <1>2 DEF PanicsOnlyOnTies
  <1> QED
    BY <1>10, <1>11, <1>12, <1>13, <1>14 DEF IndInv

(* Making room leaves a place for the new pair, and what stays was used    *)
(* after all that is not stored (secret_sink.go 59-75).                    *)
LEMMA MadeRoom ==
  ASSUME IndInv,
         NEW gone \in IF Full THEN {{u} : u \in Oldest} ELSE {{}}
  PROVE  /\ IsFiniteSet(Stored \ gone)
         /\ Cardinality(Stored \ gone) \in Nat
         /\ Cardinality(Stored \ gone) < maxCount
         /\ \A s \in Secrets \ (Stored \ gone), u \in Stored \ gone :
               lastUse[s] <= lastUse[u]
  <1> USE MaxCountAssumption
  <1>1. IsFiniteSet(Stored) /\ Cardinality(Stored) \in Nat
    BY FS_CardinalityType DEF IndInv, FiniteInv
  <1>2. CASE Full
    <2>1. PICK g \in Oldest : gone = {g}
      BY <1>2
    <2>2. /\ g \in Stored
          /\ \A u \in Stored : secretStore[g].lastUsedTime
                                   <= secretStore[u].lastUsedTime
      BY DEF Oldest
    <2>3. /\ IsFiniteSet(Stored \ gone)
          /\ Cardinality(Stored \ gone) = Cardinality(Stored) - 1
      BY <1>1, <2>1, <2>2, FS_RemoveElement
    <2>4. Cardinality(Stored) # 0
      BY <1>1, <2>2, FS_EmptySet
    <2>5. Cardinality(Stored \ gone) \in Nat
      BY <1>1, <2>3, <2>4
    <2>6. Cardinality(Stored) <= maxCount
      BY DEF IndInv, TypeOK
    <2>7. Cardinality(Stored \ gone) < maxCount
      BY <1>1, <2>3, <2>6
    <2>8. \A u \in Stored : lastUse[g] <= lastUse[u]
      BY <2>2 DEF IndInv, UseInv
    <2>9. \A s \in Secrets \ (Stored \ gone), u \in Stored \ gone :
             lastUse[s] <= lastUse[u]
      BY <2>1, <2>8 DEF IndInv, LeastRecentGoes
    <2> QED
      BY <2>3, <2>5, <2>7, <2>9
  <1>3. CASE ~Full
    <2>1. gone = {} /\ Stored \ gone = Stored
      BY <1>3
    <2>2. Cardinality(Stored) < maxCount
      BY <1>1, <1>3 DEF Full
    <2> QED
      BY <1>1, <2>1, <2>2 DEF IndInv, LeastRecentGoes
  <1> QED
    BY <1>2, <1>3

(* A new secret is stored, or uuid.NewRandom fails after room was made.    *)
LEMMA AddNewInv ==
  ASSUME NEW s \in Secrets, IndInv, AddNew(s)
  PROVE  IndInv'
  <1> USE SinkBounds, MaxCountAssumption
  <1>1. PICK gone \in IF Full THEN {{u} : u \in Oldest} ELSE {{}},
             t \in Later :
          \/ /\ randoms < MaxRandoms
             /\ randoms' = randoms + 1
             /\ secretStore' =
                   [u \in (Stored \ gone) \cup {s} |->
                       IF u = s THEN [randomSecret |-> randoms',
                                      lastUsedTime |-> t]
                       ELSE secretStore[u]]
             /\ Returned(s, randoms', t)
          \/ /\ secretStore' = Without(gone)
             /\ Returned(s, redactStr, t)
             /\ randoms' = randoms
    BY DEF AddNew
  <1>2. PICK rest : rest = Stored \ gone
    OBVIOUS
  <1>3. /\ IsFiniteSet(rest) /\ Cardinality(rest) \in Nat
        /\ Cardinality(rest) < maxCount
        /\ \A v \in Secrets \ rest, u \in rest : lastUse[v] <= lastUse[u]
    BY <1>2, MadeRoom
  <1>4. /\ s \notin Stored /\ s \notin rest
        /\ ~panicked /\ panicked' = panicked
        /\ now \in 1..MaxTime /\ randoms \in 0..MaxRandoms
        /\ \A u \in rest : u \in Stored /\ u \in Secrets
    BY <1>2 DEF AddNew, IndInv, TypeOK
  <1>5. PanicsOnlyOnTies'
    BY <1>4 DEF PanicsOnlyOnTies
  <1>6. CASE /\ randoms < MaxRandoms
             /\ randoms' = randoms + 1
             /\ secretStore' =
                   [u \in rest \cup {s} |->
                       IF u = s THEN [randomSecret |-> randoms',
                                      lastUsedTime |-> t]
                       ELSE secretStore[u]]
             /\ Returned(s, randoms', t)
    <2>1. randoms' \in 1..MaxRandoms /\ randoms' \in 0..MaxRandoms
      BY <1>4, <1>6
    <2>2. PICK r : r = randoms'
      OBVIOUS
    <2>3. /\ t \in now..MaxTime /\ t \in Nat /\ now' = t
          /\ lastUse' \in [Secrets -> 0..now']
          /\ shown' \in [Secrets -> 0..MaxRandoms \cup {None}]
          /\ IsFiniteSet(Used')
          /\ shown'[s] = r /\ lastUse'[s] = t
          /\ \A u \in Secrets \ {s} :
                lastUse'[u] = lastUse[u] /\ shown'[u] = shown[u]
      BY <1>6, <2>1, <2>2, ReturnedInv DEF IndInv
    <2>4. Stored' = rest \cup {s}
      BY <1>6 DEF Stored
    <2>5. /\ secretStore'[s] = [randomSecret |-> r, lastUsedTime |-> t]
          /\ \A u \in rest : secretStore'[u] = secretStore[u]
      BY <1>4, <1>6, <2>2
    <2>6. IsFiniteSet(Stored') /\ Cardinality(Stored') <= maxCount
      <3>1. /\ IsFiniteSet(rest \cup {s})
            /\ Cardinality(rest \cup {s}) = Cardinality(rest) + 1
        BY <1>3, <1>4, FS_AddElement
      <3> QED
        BY <1>3, <2>4, <3>1
    <2>7. \A u \in Stored' : secretStore'[u] \in
             [randomSecret : 1..MaxRandoms, lastUsedTime : 1..now']
      BY <1>4, <2>1, <2>2, <2>3, <2>4, <2>5 DEF IndInv, TypeOK
    <2>8. TypeOK'
      BY <1>4, <2>1, <2>3, <2>4, <2>6, <2>7 DEF IndInv, TypeOK
    <2>9. FiniteInv'
      BY <2>3, <2>6 DEF FiniteInv
    <2>10. UseInv' /\ Recognisable'
      BY <1>4, <2>3, <2>4, <2>5 DEF IndInv, UseInv, Recognisable
    <2>11. LeastRecentGoes'
      BY <1>3, <1>4, <2>3, <2>4 DEF IndInv, TypeOK, LeastRecentGoes
    <2> QED
      BY <1>5, <2>8, <2>9, <2>10, <2>11 DEF IndInv
  <1>7. CASE /\ secretStore' = [u \in rest |-> secretStore[u]]
             /\ Returned(s, 0, t)
             /\ randoms' = randoms
    <2>1. /\ t \in now..MaxTime /\ t \in Nat /\ now' = t
          /\ lastUse' \in [Secrets -> 0..now']
          /\ shown' \in [Secrets -> 0..MaxRandoms \cup {None}]
          /\ IsFiniteSet(Used')
          /\ \A u \in Secrets : lastUse'[u] = lastUse[u]
          /\ \A u \in Secrets \ {s} : shown'[u] = shown[u]
      BY <1>7, ReturnedInv DEF IndInv
    <2>2. Stored' = rest
      BY <1>7 DEF Stored
    <2>3. \A u \in rest : secretStore'[u] = secretStore[u]
      BY <1>7
    <2>4. \A u \in Stored' : secretStore'[u] \in
             [randomSecret : 1..MaxRandoms, lastUsedTime : 1..now']
      BY <1>4, <2>1, <2>2, <2>3 DEF IndInv, TypeOK
    <2>5. TypeOK'
      BY <1>3, <1>4, <1>7, <2>1, <2>2, <2>4 DEF IndInv, TypeOK
    <2>6. FiniteInv'
      BY <1>3, <2>1, <2>2 DEF FiniteInv
    <2>7. UseInv' /\ Recognisable'
      BY <1>4, <2>1, <2>2, <2>3 DEF IndInv, UseInv, Recognisable
    <2>8. LeastRecentGoes'
      BY <1>3, <1>4, <2>1, <2>2 DEF LeastRecentGoes
    <2> QED
      BY <1>5, <2>5, <2>6, <2>7, <2>8 DEF IndInv
  <1> QED
    BY <1>1, <1>2, <1>6, <1>7 DEF Without, redactStr

(* The search finds nothing: every pair was used at this very time.        *)
LEMMA AddPanicsInv ==
  ASSUME NEW s \in Secrets, IndInv, AddPanics(s)
  PROVE  IndInv'
  <1> USE MaxCountAssumption, SinkBounds
  <1>1. /\ UNCHANGED <<now, secretStore, randoms, lastUse, shown>>
        /\ panicked' = TRUE /\ Full /\ Oldest = {}
    BY DEF AddPanics, NoOldest
  <1>2. Stored' = Stored /\ Used' = Used
    BY <1>1 DEF Stored, Used
  <1>3. \A u \in Stored : lastUse[u] = now
    BY <1>1, NothingOlder DEF IndInv, UseInv
  <1> DEFINE Ties == {u \in Secrets : lastUse[u] = now}
  <1>4. IsFiniteSet(Ties) /\ Stored \in SUBSET Ties
    <2>1. Ties \in SUBSET Used
      BY DEF Used, IndInv, TypeOK
    <2>2. Stored \in SUBSET Ties
      BY <1>3 DEF IndInv, TypeOK
    <2> HIDE DEF Ties
    <2> QED
      BY <2>1, <2>2, FS_Subset DEF IndInv, FiniteInv
  <1>5. Cardinality(Ties) >= maxCount
    <2> HIDE DEF Ties
    <2>1. Cardinality(Stored) \in Nat /\ Cardinality(Ties) \in Nat
      BY <1>4, FS_CardinalityType DEF IndInv, FiniteInv
    <2>2. Cardinality(Stored) <= Cardinality(Ties)
      BY <1>4, FS_Subset
    <2> QED
      BY <1>1, <2>1, <2>2 DEF Full
  <1>6. PanicsOnlyOnTies'
    BY <1>1, <1>2, <1>5 DEF PanicsOnlyOnTies, Full
  <1>7. TypeOK' /\ FiniteInv'
    BY <1>1, <1>2 DEF IndInv, TypeOK, FiniteInv
  <1>8. UseInv' /\ LeastRecentGoes' /\ Recognisable'
    BY <1>1, <1>2 DEF IndInv, UseInv, LeastRecentGoes, Recognisable
  <1> QED
    BY <1>6, <1>7, <1>8 DEF IndInv

(* Time passes, unless Add has panicked.                                   *)
LEMMA ClockInv == IndInv /\ Clock => IndInv'
  <1> SUFFICES ASSUME IndInv, Clock PROVE IndInv'
    OBVIOUS
  <1> USE SinkBounds
  <1>1. /\ ~panicked /\ now < MaxTime /\ now' = now + 1
        /\ UNCHANGED <<secretStore, randoms, panicked, lastUse, shown>>
        /\ Stored' = Stored /\ Used' = Used
    BY DEF Clock, Stored, Used
  <1>2. /\ now' \in 1..MaxTime
        /\ 0..now \subseteq 0..now' /\ 1..now \subseteq 1..now'
    BY <1>1 DEF IndInv, TypeOK
  <1>3. lastUse' \in [Secrets -> 0..now']
    BY <1>1, <1>2 DEF IndInv, TypeOK
  <1>4. \A s \in Stored' : secretStore'[s] \in
            [randomSecret : 1..MaxRandoms, lastUsedTime : 1..now']
    BY <1>1, <1>2 DEF IndInv, TypeOK
  <1>5. TypeOK'
    BY <1>1, <1>2, <1>3, <1>4 DEF IndInv, TypeOK
  <1>6. FiniteInv' /\ PanicsOnlyOnTies'
    BY <1>1 DEF IndInv, FiniteInv, PanicsOnlyOnTies
  <1>7. UseInv' /\ LeastRecentGoes' /\ Recognisable'
    BY <1>1 DEF IndInv, UseInv, LeastRecentGoes, Recognisable
  <1> QED
    BY <1>5, <1>6, <1>7 DEF IndInv

(* A step that changes nothing.                                            *)
LEMMA StutterInv == IndInv /\ UNCHANGED vars => IndInv'
  BY DEF vars, IndInv, TypeOK, FiniteInv, UseInv, LeastRecentGoes,
         Recognisable, PanicsOnlyOnTies, Stored, Used, Full

(* IndInv is an invariant.                                                 *)
THEOREM Inductive == Spec => []IndInv
  <1>1. IndInv /\ [Next]_vars => IndInv'
    BY AddFoundInv, AddNewInv, AddPanicsInv, ClockInv, StutterInv
       DEF Next, RedactUrl
  <1> QED
    BY InitInv, <1>1, PTL DEF Spec

-----------------------------------------------------------------------------
(* The properties of SecretSink, for every value of the constants          *)

(* The store holds at most maxCount pairs, whatever is added to it         *)
(* (secret_sink.go 59-75).                                                 *)
THEOREM TypeCorrect == Spec => []TypeOK
  BY Inductive, PTL DEF IndInv

(* The pair that goes is one that was used least recently, with any order  *)
(* of iteration, equal clock readings and failing random values            *)
(* (secret_sink.go 59-75).                                                 *)
THEOREM OldestGoes == Spec => []LeastRecentGoes
  BY Inductive, PTL DEF IndInv

(* A stored secret is shown as it was shown last (secret_sink.go 45-57).   *)
THEOREM StaysRecognisable == Spec => []Recognisable
  BY Inductive, PTL DEF IndInv

(* Add panics only if as many secrets as the store can hold were used at   *)
(* one reading of the clock (secret_sink.go 60-69).                        *)
THEOREM NilOnlyOnTies == Spec => []PanicsOnlyOnTies
  BY Inductive, PTL DEF IndInv

=============================================================================
