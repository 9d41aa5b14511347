-------------------------- MODULE ManagedTxProofs ---------------------------
(***************************************************************************)
(* Proofs about ManagedTx, for any set of drivers and any bounds.          *)
(*                                                                         *)
(* CountedOnce bounds the reports and the counters from both sides.  What  *)
(* is inductive is the exact account of the code, ReportsExact, with two   *)
(* more facts: reports follow each other in the history, and the           *)
(* statements of the open transaction come after the last report.  The     *)
(* counters are bounded only because each is the number of statements      *)
(* since then.                                                             *)
(***************************************************************************)
EXTENDS ManagedTx, FiniteSetTheorems, TLAPS

(* No statement belongs to a transaction that has not begun, and while one *)
(* is open none of its statements has been reported.                       *)
TxInv ==
    /\ tx # "none" => txs >= 1
    /\ \A n \in 1..Len(stmts) :
          /\ stmts[n].tx <= txs
          /\ tx # "none" /\ n <= LastReport(Len(observed))
                => stmts[n].tx < txs

(* Reports are in the order of the history, and the open transaction has   *)
(* not been reported.                                                      *)
ReportInv ==
    \A i \in 1..Len(observed) :
        /\ LastReport(i - 1) <= LastReport(i)
        /\ LastReport(i) <= Len(stmts)
        /\ observed[i].tx <= txs
        /\ tx # "none" => observed[i].tx < txs

(* A report counts what was given to the driver directly since the report  *)
(* before it, the statements of its own transaction among them, and the    *)
(* counters what was given to it since the last report.                    *)
ReportsExact ==
    \A k \in Kinds :
        /\ \A i \in 1..Len(observed) :
              /\ observed[i].count[k]
                   = Direct(k, LastReport(i - 1), LastReport(i))
              /\ \A n \in 1..Len(stmts) :
                    stmts[n].tx = observed[i].tx
                        => n \in LastReport(i - 1) + 1 .. LastReport(i)
        /\ counter[k] = Direct(k, LastReport(Len(observed)), Len(stmts))

IndInv == TypeOK /\ TxInv /\ ReportInv /\ ReportsExact

-----------------------------------------------------------------------------

(* The statements that Direct counts, in a history S.                      *)
DirectIn(S, k, after, upto) ==
    {n \in after + 1 .. upto : S[n].direct /\ S[n].kind = k}

(* There are finitely many, and not more than the history has.             *)
LEMMA DirectBound ==
  ASSUME NEW S, NEW k, NEW a \in Nat, NEW b \in Nat
  PROVE  /\ IsFiniteSet(DirectIn(S, k, a, b))
         /\ Cardinality(DirectIn(S, k, a, b)) \in 0..b
  <1>1. DirectIn(S, k, a, b) \in SUBSET (1..b)
    BY DEF DirectIn
  <1>2. IsFiniteSet(1..b) /\ Cardinality(1..b) = b
    <2>1. /\ IsFiniteSet(1..b)
          /\ Cardinality(1..b) = IF 1 > b THEN 0 ELSE b - 1 + 1
      BY FS_Interval
    <2> QED
      BY <2>1
  <1>3. /\ IsFiniteSet(DirectIn(S, k, a, b))
        /\ Cardinality(DirectIn(S, k, a, b)) <= b
    BY <1>1, <1>2, FS_Subset
  <1>4. Cardinality(DirectIn(S, k, a, b)) \in Nat
    BY <1>3, FS_CardinalityType
  <1> QED
    BY <1>3, <1>4

(* A new statement is not among those up to an earlier point.              *)
LEMMA DirectBefore ==
  ASSUME NEW S \in Seq(Statements), NEW e \in Statements, NEW k,
         NEW a \in Nat, NEW b \in Nat, b <= Len(S)
  PROVE  DirectIn(Append(S, e), k, a, b) = DirectIn(S, k, a, b)
  <1>1. \A n \in a + 1 .. b : Append(S, e)[n] = S[n]
    OBVIOUS
  <1> DEFINE T == Append(S, e)
  <1> HIDE DEF T
  <1>2. \A n \in a + 1 .. b : T[n] = S[n]
    BY <1>1 DEF T
  <1>3. DirectIn(T, k, a, b) = DirectIn(S, k, a, b)
    BY <1>2 DEF DirectIn
  <1> QED
    BY <1>3 DEF T

(* It is counted if it was given to the driver directly.                   *)
LEMMA DirectAfter ==
  ASSUME NEW S \in Seq(Statements), NEW e \in Statements, NEW k,
         NEW a \in Nat, a <= Len(S)
  PROVE  Cardinality(DirectIn(Append(S, e), k, a, Len(S) + 1))
           = Cardinality(DirectIn(S, k, a, Len(S)))
               + IF e.direct /\ e.kind = k THEN 1 ELSE 0
  <1> DEFINE T == Append(S, e)
             m == Len(S)
             A == DirectIn(S, k, a, m)
  <1>1. m \in Nat /\ T[m + 1] = e /\ \A n \in a + 1 .. m : T[n] = S[n]
    OBVIOUS
  <1>2. IsFiniteSet(A) /\ Cardinality(A) \in Nat /\ m + 1 \notin A
    <2>1. m + 1 \notin A
      BY <1>1 DEF DirectIn
    <2>2. IsFiniteSet(A) /\ Cardinality(A) \in 0..m
      BY <1>1, DirectBound
    <2> QED
      BY <1>1, <2>1, <2>2
  <1>3. SUFFICES Cardinality(DirectIn(T, k, a, m + 1))
                   = Cardinality(A) + IF e.direct /\ e.kind = k
                                      THEN 1 ELSE 0
    OBVIOUS
  <1>4. a <= m
    OBVIOUS
  <1> HIDE DEF T, m
  <1>5. a + 1 .. m + 1 = (a + 1 .. m) \cup {m + 1}
    BY <1>1, <1>4
  <1>6. CASE e.direct /\ e.kind = k
    <2>1. DirectIn(T, k, a, m + 1) = A \cup {m + 1}
      BY <1>1, <1>5, <1>6 DEF DirectIn
    <2> HIDE DEF A
    <2>2. Cardinality(A \cup {m + 1}) = Cardinality(A) + 1
      BY <1>2, FS_AddElement
    <2> QED
      BY <1>6, <2>1, <2>2
  <1>7. CASE ~(e.direct /\ e.kind = k)
    <2>1. DirectIn(T, k, a, m + 1) = A
      BY <1>1, <1>5, <1>7 DEF DirectIn
    <2> HIDE DEF A
    <2> QED
      BY <1>2, <1>7, <2>1
  <1> QED
    BY <1>6, <1>7

(* The counters, in terms of DirectIn.                                     *)
LEMMA ReportsExactAlt ==
  ReportsExact <=>
    \A k \in Kinds :
        /\ \A i \in 1..Len(observed) :
              /\ observed[i].count[k]
                   = Cardinality(DirectIn(stmts, k, LastReport(i - 1),
                                          LastReport(i)))
              /\ \A n \in 1..Len(stmts) :
                    stmts[n].tx = observed[i].tx
                        => n \in LastReport(i - 1) + 1 .. LastReport(i)
        /\ counter[k] = Cardinality(DirectIn(stmts, k,
                            LastReport(Len(observed)), Len(stmts)))
  BY DEF ReportsExact, Direct, DirectIn

(* What is in a report.                                                    *)
LEMMA ReportType ==
  ASSUME TypeOK, NEW i \in 1..Len(observed)
  PROVE  /\ observed[i].tx \in 1..MaxTxs
         /\ observed[i].upto \in 0..MaxStmts
  <1> DEFINE Reports == [tx : 1..MaxTxs, upto : 0..MaxStmts,
                         count : [Kinds -> 0..MaxStmts]]
  <1>1. observed \in Seq(Reports)
    BY DEF TypeOK
  <1>2. observed[i] \in Reports
    <2> HIDE DEF Reports
    <2> QED
      BY <1>1
  <1> QED
    BY <1>2

(* Reports lie within the history.                                         *)
LEMMA ReportBound ==
  ASSUME TypeOK, ReportInv
  PROVE  \A i \in 0..Len(observed) :
            LastReport(i) \in Nat /\ LastReport(i) <= Len(stmts)
  <1>1. Len(observed) \in Nat /\ Len(stmts) \in Nat
    BY DEF TypeOK
  <1>2. LastReport(0) = 0
    BY DEF LastReport
  <1>3. \A i \in 1..Len(observed) :
          LastReport(i) \in Nat /\ LastReport(i) <= Len(stmts)
    <2>1. \A i \in 1..Len(observed) : LastReport(i) <= Len(stmts)
      BY DEF ReportInv
    <2>2. \A i \in 1..Len(observed) : LastReport(i) = observed[i].upto
      BY DEF LastReport
    <2>3. \A i \in 1..Len(observed) : observed[i].upto \in Nat
      BY BoundsAssumption, ReportType
    <2> QED
      BY <2>1, <2>2, <2>3
  <1>4. \A i \in 0..Len(observed) : i = 0 \/ i \in 1..Len(observed)
    BY <1>1
  <1> QED
    BY <1>1, <1>2, <1>3, <1>4

(* ReportsExact is about the counters and the history alone.               *)
LEMMA SameHistory ==
  ReportsExact /\ UNCHANGED <<counter, stmts, observed>> => ReportsExact'
  BY DEF ReportsExact, Direct, LastReport

(* A connection starts with nothing counted (conn.go 20-31).               *)
LEMMA InitInv == Init => IndInv
  <1> SUFFICES ASSUME Init PROVE IndInv
    OBVIOUS
  <1> USE BoundsAssumption DEF Init
  <1>1. /\ Len(stmts) = 0 /\ Len(observed) = 0
        /\ stmts \in Seq(Statements)
        /\ observed \in Seq([tx : 1..MaxTxs, upto : 0..MaxStmts,
                             count : [Kinds -> 0..MaxStmts]])
    OBVIOUS
  <1>2. TypeOK
    BY <1>1 DEF TypeOK, Zero
  <1>3. TxInv /\ ReportInv
    BY <1>1 DEF TxInv, ReportInv
  <1>4. \A k \in Kinds : DirectIn(stmts, k, 0, 0) = {}
    BY DEF DirectIn
  <1>5. ReportsExact
    <2>1. LastReport(Len(observed)) = 0
      BY <1>1 DEF LastReport
    <2>2. \A k \in Kinds : counter[k] = Cardinality(DirectIn(stmts, k, 0, 0))
      BY <1>4, FS_EmptySet DEF Zero
    <2>3. \A i \in 1..Len(observed) : FALSE
      BY <1>1
    <2> HIDE DEF Init
    <2> QED
      BY <1>1, <2>1, <2>2, <2>3, ReportsExactAlt
  <1> QED
    BY <1>2, <1>3, <1>5 DEF IndInv

(* A statement is run, and counted if it goes to the driver directly.      *)
LEMMA RunInv ==
  ASSUME IndInv, NEW k \in Kinds, NEW direct \in BOOLEAN, Run(k, direct),
         counter' = IF direct THEN [counter EXCEPT ![k] = @ + 1]
                    ELSE counter
  PROVE  IndInv'
  <1> USE BoundsAssumption
  <1>1. PICK e : e = [kind |-> k, direct |-> direct,
                      tx |-> IF tx = "none" THEN 0 ELSE txs]
    OBVIOUS
  <1>2. /\ e \in Statements /\ e.kind = k /\ e.direct = direct
        /\ e.tx = IF tx = "none" THEN 0 ELSE txs
    BY <1>1 DEF Statements, IndInv, TypeOK
  <1>3. PICK m : m = Len(stmts)
    OBVIOUS
  <1>4. /\ m \in Nat /\ m < MaxStmts /\ stmts \in Seq(Statements)
        /\ txs \in 0..MaxTxs
        /\ stmts' = Append(stmts, e)
        /\ conn' = conn /\ tx' = tx /\ txs' = txs /\ observed' = observed
    BY <1>1, <1>3 DEF Run, IndInv, TypeOK
  <1>5. /\ stmts' \in Seq(Statements) /\ Len(stmts') = m + 1
        /\ m + 1 \in Nat /\ m + 1 <= MaxStmts
        /\ stmts'[m + 1] = e /\ \A n \in 1..m : stmts'[n] = stmts[n]
        /\ \A n \in 1..m + 1 : n \in 1..m \/ n = m + 1
    BY <1>2, <1>3, <1>4
  <1>6. \A i \in 0..Len(observed) :
          /\ LastReport(i)' = LastReport(i)
          /\ LastReport(i) \in Nat /\ LastReport(i) <= m
    BY <1>3, <1>4, ReportBound DEF IndInv, LastReport
  <1>7. PICK l : l = Len(observed)
    OBVIOUS
  <1>8. l \in Nat /\ l \in 0..l /\ \A i \in 1..l : i \in 0..l /\ i - 1 \in 0..l
    BY <1>7 DEF IndInv, TypeOK
  <1>9. ASSUME NEW j \in Kinds
        PROVE  counter'[j] = Cardinality(DirectIn(stmts', j, LastReport(l),
                                                  m + 1))
    <2>1. counter[j] = Cardinality(DirectIn(stmts, j, LastReport(l), m))
      BY <1>3, <1>7, ReportsExactAlt DEF IndInv
    <2>2. Cardinality(DirectIn(stmts', j, LastReport(l), m + 1))
            = Cardinality(DirectIn(stmts, j, LastReport(l), m))
                + IF e.direct /\ e.kind = j THEN 1 ELSE 0
      BY <1>2, <1>3, <1>4, <1>6, <1>7, <1>8, DirectAfter
    <2>3. counter[j] \in Nat
      BY DEF IndInv, TypeOK
    <2>4. counter'[j] = counter[j] + IF direct /\ k = j THEN 1 ELSE 0
      BY <2>3 DEF IndInv, TypeOK
    <2> QED
      BY <1>2, <2>1, <2>2, <2>4
  <1>10. TypeOK'
    <2>1. \A j \in Kinds : counter'[j] \in 0..MaxStmts
      <3> SUFFICES ASSUME NEW j \in Kinds PROVE counter'[j] \in 0..MaxStmts
        OBVIOUS
      <3>1. counter'[j] \in 0..m + 1
        BY <1>5, <1>6, <1>7, <1>8, <1>9, DirectBound
      <3> QED
        BY <1>5, <3>1
    <2>2. counter' \in [Kinds -> 0..MaxStmts]
      BY <2>1 DEF IndInv, TypeOK
    <2> QED
      BY <1>4, <1>5, <2>2 DEF IndInv, TypeOK
  <1>11. TxInv'
    <2>1. /\ tx' # "none" => txs' >= 1
          /\ \A n \in 1..m :
                /\ stmts'[n].tx <= txs'
                /\ tx' # "none" /\ n <= LastReport(l) => stmts'[n].tx < txs'
      BY <1>3, <1>4, <1>5, <1>7 DEF IndInv, TxInv
    <2>2. stmts'[m + 1].tx <= txs' /\ ~(m + 1 <= LastReport(l))
      BY <1>2, <1>4, <1>5, <1>6, <1>7, <1>8
    <2>3. LastReport(Len(observed))' = LastReport(l)
      BY <1>4, <1>7 DEF LastReport
    <2> QED
      BY <1>5, <2>1, <2>2, <2>3 DEF TxInv
  <1>12. ReportInv'
    <2>1. \A i \in 1..l : LastReport(i)' = LastReport(i)
                        /\ LastReport(i - 1)' = LastReport(i - 1)
      BY <1>6, <1>7, <1>8
    <2>2. \A i \in 1..l :
            /\ LastReport(i - 1) <= LastReport(i)
            /\ observed[i].tx <= txs
            /\ tx # "none" => observed[i].tx < txs
      BY <1>7 DEF IndInv, ReportInv
    <2>3. \A i \in 1..l : LastReport(i) <= m + 1
      BY <1>4, <1>6, <1>7, <1>8
    <2> QED
      BY <1>4, <1>5, <1>7, <2>1, <2>2, <2>3 DEF ReportInv
  <1>13. ReportsExact'
    <2>1. ASSUME NEW j \in Kinds, NEW i \in 1..l
          PROVE  /\ observed[i].count[j]
                      = Cardinality(DirectIn(stmts', j, LastReport(i - 1),
                                             LastReport(i)))
                 /\ \A n \in 1..m + 1 :
                       stmts'[n].tx = observed[i].tx
                         => n \in LastReport(i - 1) + 1 .. LastReport(i)
      <3>1. /\ observed[i].count[j]
                 = Cardinality(DirectIn(stmts, j, LastReport(i - 1),
                                        LastReport(i)))
            /\ \A n \in 1..m :
                  stmts[n].tx = observed[i].tx
                    => n \in LastReport(i - 1) + 1 .. LastReport(i)
        BY <1>3, <1>7, ReportsExactAlt DEF IndInv
      <3>2. DirectIn(stmts', j, LastReport(i - 1), LastReport(i))
              = DirectIn(stmts, j, LastReport(i - 1), LastReport(i))
        <4>1. /\ LastReport(i - 1) \in Nat
              /\ LastReport(i) \in Nat /\ LastReport(i) <= Len(stmts)
          BY <1>3, <1>6, <1>7, <1>8
        <4> QED
          BY <1>2, <1>4, <4>1, DirectBefore
      <3>3. observed[i].tx \in 1..MaxTxs
        BY <1>7, ReportType DEF IndInv
      <3>4. tx # "none" => observed[i].tx < txs
        BY <1>7 DEF IndInv, ReportInv
      <3>5. e.tx # observed[i].tx
        BY <1>2, <1>4, <3>3, <3>4
      <3> QED
        BY <1>5, <3>1, <3>2, <3>5
    <2>2. \A i \in 1..l : LastReport(i)' = LastReport(i)
                        /\ LastReport(i - 1)' = LastReport(i - 1)
      BY <1>6, <1>7, <1>8
    <2>3. LastReport(Len(observed))' = LastReport(l)
      BY <1>4, <1>7 DEF LastReport
    <2> QED
      BY <1>4, <1>5, <1>7, <1>9, <2>1, <2>2, <2>3
         DEF ReportsExact, Direct, DirectIn
  <1> QED
    BY <1>10, <1>11, <1>12, <1>13 DEF IndInv

(* Begin and BeginTx: no statement belongs to the new transaction yet.     *)
LEMMA StartedInv ==
  ASSUME IndInv, NEW w \in {"managed", "plain"}, Started(w)
  PROVE  IndInv'
  <1> USE BoundsAssumption
  <1>1. /\ tx = "none" /\ txs < MaxTxs /\ tx' = w /\ txs' = txs + 1
        /\ txs \in Nat
        /\ UNCHANGED <<conn, counter, stmts, observed>>
    BY DEF Started, IndInv, TypeOK
  <1>2. txs' \in 0..MaxTxs /\ txs' >= 1
    BY <1>1
  <1>3. TypeOK'
    BY <1>1, <1>2 DEF IndInv, TypeOK
  <1>4. \A i : LastReport(i)' = LastReport(i)
    BY <1>1 DEF LastReport
  <1>5. TxInv'
    <2>1. \A n \in 1..Len(stmts) : stmts[n].tx \in Nat
      <3>1. \A n \in 1..Len(stmts) : stmts[n] \in Statements
        BY DEF IndInv, TypeOK
      <3> QED
        BY <3>1 DEF Statements
    <2>2. \A n \in 1..Len(stmts) : stmts[n].tx < txs'
      BY <1>1, <2>1 DEF IndInv, TxInv
    <2>3. \A n \in 1..Len(stmts) : stmts[n].tx <= txs'
      BY <1>1, <2>1 DEF IndInv, TxInv
    <2> QED
      BY <1>1, <1>2, <2>2, <2>3 DEF TxInv
  <1>6. ReportInv'
    <2>1. \A i \in 1..Len(observed) :
             observed[i].tx < txs' /\ observed[i].tx <= txs'
      BY <1>1, ReportType DEF IndInv, ReportInv
    <2> QED
      BY <1>1, <1>4, <2>1 DEF IndInv, ReportInv
  <1>7. ReportsExact'
    BY <1>1, SameHistory DEF IndInv
  <1> QED
    BY <1>3, <1>5, <1>6, <1>7 DEF IndInv

(* A managedTx ends: the report has what ran since the last one, and all   *)
(* statements of the transaction among it (transaction.go 19-48).          *)
LEMMA EndManagedInv ==
  ASSUME IndInv, EndManaged
  PROVE  IndInv'
  <1> USE BoundsAssumption
  <1>1. PICK l, m : l = Len(observed) /\ m = Len(stmts)
    OBVIOUS
  <1>2. PICK r : r = [tx |-> txs, upto |-> m, count |-> counter]
    OBVIOUS
  <1>3. /\ tx = "managed" /\ tx' = "none"
        /\ observed' = Append(observed, r) /\ counter' = Zero
        /\ conn' = conn /\ txs' = txs /\ stmts' = stmts
    BY <1>1, <1>2 DEF EndManaged, cleanup
  <1>4. /\ l \in Nat /\ m \in Nat /\ m <= MaxStmts /\ txs \in 1..MaxTxs
        /\ counter \in [Kinds -> 0..MaxStmts]
    BY <1>1, <1>3 DEF IndInv, TypeOK, TxInv
  <1> DEFINE Reports == [tx : 1..MaxTxs, upto : 0..MaxStmts,
                         count : [Kinds -> 0..MaxStmts]]
  <1>5. r \in Reports /\ r.tx = txs /\ r.upto = m /\ r.count = counter
    BY <1>2, <1>4
  <1>6. observed \in Seq(Reports)
    BY DEF IndInv, TypeOK
  <1>7. /\ observed' \in Seq(Reports) /\ Len(observed') = l + 1
        /\ observed'[l + 1] = r
        /\ \A i \in 1..l : observed'[i] = observed[i]
    <2> HIDE DEF Reports
    <2> QED
      BY <1>1, <1>3, <1>5, <1>6
  <1>8. /\ \A i \in 1..l + 1 : i \in 1..l \/ i = l + 1
        /\ \A i \in 1..l : i \in 0..l /\ i - 1 \in 0..l
        /\ l \in 0..l /\ l + 1 - 1 = l /\ l + 1 # 0
        /\ \A i \in 0..l : i = 0 \/ i \in 1..l
    BY <1>4
  <1>9. /\ \A i \in 0..l : LastReport(i)' = LastReport(i)
        /\ LastReport(l + 1)' = m
    BY <1>5, <1>7, <1>8 DEF LastReport
  <1>10. \A i \in 0..l : LastReport(i) \in Nat /\ LastReport(i) <= m
    BY <1>1, ReportBound DEF IndInv
  <1>11. \A i \in 1..l : /\ LastReport(i)' = LastReport(i)
                        /\ LastReport(i - 1)' = LastReport(i - 1)
    BY <1>8, <1>9
  <1>12. LastReport(l + 1 - 1)' = LastReport(l)
    BY <1>8, <1>9
  <1>13. TypeOK'
    <2>1. counter' \in [Kinds -> 0..MaxStmts]
      BY <1>3 DEF Zero
    <2> QED
      BY <1>3, <1>7, <2>1 DEF IndInv, TypeOK
  <1>14. TxInv'
    BY <1>3 DEF IndInv, TxInv
  <1>15. ReportInv'
    <2>1. \A i \in 1..l :
             /\ LastReport(i - 1)' <= LastReport(i)'
             /\ LastReport(i)' <= Len(stmts')
             /\ observed'[i].tx <= txs'
      BY <1>1, <1>3, <1>7, <1>11 DEF IndInv, ReportInv
    <2>2. /\ LastReport(l + 1 - 1)' <= LastReport(l + 1)'
          /\ LastReport(l + 1)' <= Len(stmts')
          /\ observed'[l + 1].tx <= txs'
      BY <1>1, <1>3, <1>4, <1>5, <1>7, <1>8, <1>9, <1>10, <1>12
    <2> QED
      BY <1>3, <1>7, <1>8, <2>1, <2>2 DEF ReportInv
  <1>16. ReportsExact'
    <2>1. ASSUME NEW k \in Kinds, NEW i \in 1..l
          PROVE  /\ observed'[i].count[k]
                      = Cardinality(DirectIn(stmts, k, LastReport(i - 1),
                                             LastReport(i)))
                 /\ \A n \in 1..m :
                       stmts[n].tx = observed'[i].tx
                         => n \in LastReport(i - 1) + 1 .. LastReport(i)
      BY <1>1, <1>7, ReportsExactAlt DEF IndInv
    <2>2. ASSUME NEW k \in Kinds
          PROVE  /\ observed'[l + 1].count[k]
                      = Cardinality(DirectIn(stmts, k, LastReport(l), m))
                 /\ \A n \in 1..m :
                       stmts[n].tx = observed'[l + 1].tx
                         => n \in LastReport(l) + 1 .. m
      <3>1. counter[k] = Cardinality(DirectIn(stmts, k, LastReport(l), m))
        BY <1>1, ReportsExactAlt DEF IndInv
      <3>2. \A n \in 1..m : n <= LastReport(l) => stmts[n].tx < txs
        BY <1>1, <1>3 DEF IndInv, TxInv
      <3>3. \A n \in 1..m : stmts[n].tx = txs => n \in LastReport(l) + 1 .. m
        BY <1>4, <1>8, <1>10, <3>2
      <3> QED
        BY <1>5, <1>7, <3>1, <3>3
    <2>3. ASSUME NEW k \in Kinds
          PROVE  counter'[k] = Cardinality(DirectIn(stmts, k, m, m))
      <3>1. DirectIn(stmts, k, m, m) = {}
        BY <1>4 DEF DirectIn
      <3> QED
        BY <1>3, <3>1, FS_EmptySet DEF Zero
    <2>4. LastReport(Len(observed))' = m /\ Len(stmts') = m
      BY <1>1, <1>3, <1>7, <1>9 DEF LastReport
    <2>5. ASSUME NEW k \in Kinds, NEW i \in 1..Len(observed')
          PROVE  /\ observed'[i].count[k]
                      = Cardinality(DirectIn(stmts', k, LastReport(i - 1)',
                                             LastReport(i)'))
                 /\ \A n \in 1..Len(stmts') :
                       stmts'[n].tx = observed'[i].tx
                         => n \in LastReport(i - 1)' + 1 .. LastReport(i)'
      <3>1. CASE i \in 1..l
        BY <1>3, <1>11, <2>1, <2>4, <3>1
      <3>2. CASE i = l + 1
        <4>1. LastReport(i - 1)' = LastReport(l) /\ LastReport(i)' = m
          <5>1. i - 1 = l /\ i # 0 /\ (l = 0 \/ l \in 1..l)
            BY <1>4, <1>8, <3>2
          <5> QED
            BY <1>5, <1>7, <3>2, <5>1 DEF LastReport
        <4> QED
          BY <1>3, <2>2, <2>4, <3>2, <4>1
      <3> QED
        BY <1>7, <1>8, <3>1, <3>2
    <2>6. ASSUME NEW k \in Kinds
          PROVE  counter'[k] = Cardinality(DirectIn(stmts', k,
                                  LastReport(Len(observed))', Len(stmts')))
      BY <1>3, <2>3, <2>4
    <2> QED
      BY <2>5, <2>6 DEF ReportsExact, Direct, DirectIn
  <1> QED
    BY <1>13, <1>14, <1>15, <1>16 DEF IndInv

(* A transaction that is not wrapped ends and reports nothing.             *)
LEMMA EndPlainInv ==
  ASSUME IndInv, EndPlain
  PROVE  IndInv'
  <1>1. /\ tx' = "none" /\ UNCHANGED <<conn, counter, txs, stmts, observed>>
        /\ \A i : LastReport(i)' = LastReport(i)
    BY DEF EndPlain, LastReport
  <1>2. TypeOK' /\ TxInv'
    BY <1>1 DEF IndInv, TypeOK, TxInv
  <1>3. ReportInv' /\ ReportsExact'
    BY <1>1, SameHistory DEF IndInv, ReportInv
  <1> QED
    BY <1>2, <1>3 DEF IndInv

(* IndInv is an invariant.                                                 *)
THEOREM Inductive == Spec => []IndInv
  <1>1. ASSUME IndInv, [Next]_vars PROVE IndInv'
    <2>1. CASE UNCHANGED vars
      <3>1. \A i : LastReport(i)' = LastReport(i)
        BY <2>1 DEF vars, LastReport
      <3> QED
        BY <1>1, <2>1, <3>1, SameHistory
           DEF vars, IndInv, TypeOK, TxInv, ReportInv
    <2>2. ASSUME NEW k \in Kinds, StmtContext(k) \/ Stmt(k) PROVE IndInv'
      BY <1>1, <2>2, RunInv DEF StmtContext, Stmt, incStmtsCounter
    <2>3. ASSUME NEW k \in Kinds, Prepare(k) PROVE IndInv'
      BY <1>1, <2>3, RunInv DEF Prepare
    <2>4. ASSUME NEW default \in BOOLEAN, BeginTx(default) PROVE IndInv'
      BY <1>1, <2>4, StartedInv DEF BeginTx
    <2>5. CASE Begin
      BY <1>1, <2>5, StartedInv DEF Begin
    <2>6. CASE EndManaged \/ EndPlain
      BY <1>1, <2>6, EndManagedInv, EndPlainInv
    <2> QED
      BY <1>1, <2>1, <2>2, <2>3, <2>4, <2>5, <2>6 DEF Next
  <1> QED
    BY InitInv, <1>1, PTL DEF Spec

(* The statements of a transaction are no more than those of a stretch of  *)
(* the history that has them all.                                          *)
LEMMA OwnWithin ==
  ASSUME TypeOK, NEW k \in Kinds, NEW t, NEW a \in Nat, NEW b \in Nat,
         \A n \in 1..Len(stmts) : stmts[n].tx = t => n \in a + 1 .. b
  PROVE  Own(k, t) <= Direct(k, a, b)
  <1> DEFINE O == {n \in 1..Len(stmts) :
                     /\ stmts[n].direct /\ stmts[n].kind = k
                     /\ stmts[n].tx = t}
             D == DirectIn(stmts, k, a, b)
  <1>1. O \in SUBSET D
    BY DEF DirectIn
  <1>2. IsFiniteSet(D)
    BY DirectBound
  <1>3. Cardinality(O) <= Cardinality(D)
    <2> HIDE DEF O, D
    <2> QED
      BY <1>1, <1>2, FS_Subset
  <1> QED
    BY <1>3 DEF Own, Direct, DirectIn

(* Direct is a number.                                                     *)
LEMMA DirectType ==
  ASSUME NEW k, NEW a \in Nat, NEW b \in Nat
  PROVE  Direct(k, a, b) \in Nat
  <1>1. Cardinality(DirectIn(stmts, k, a, b)) \in 0..b
    BY DirectBound
  <1>2. Cardinality(DirectIn(stmts, k, a, b)) \in Nat
    BY <1>1
  <1> QED
    BY <1>2 DEF Direct, DirectIn

(* The exact account lies within the bounds.                               *)
LEMMA ExactIsWithin == IndInv => CountedOnce
  <1> SUFFICES ASSUME IndInv PROVE CountedOnce
    OBVIOUS
  <1>1. \A i \in 0..Len(observed) :
          LastReport(i) \in Nat /\ LastReport(i) <= Len(stmts)
    BY ReportBound DEF IndInv
  <1>2. Len(observed) \in Nat /\ Len(stmts) \in Nat
    BY DEF IndInv, TypeOK
  <1>3. ASSUME NEW k \in Kinds, NEW i \in 1..Len(observed)
        PROVE  /\ Own(k, observed[i].tx) <= observed[i].count[k]
               /\ observed[i].count[k]
                    <= Direct(k, LastReport(i - 1), LastReport(i))
    <2>1. LastReport(i - 1) \in Nat /\ LastReport(i) \in Nat
      <3>1. i \in 0..Len(observed) /\ i - 1 \in 0..Len(observed)
        BY <1>2
      <3> QED
        BY <1>1, <3>1
    <2>2. observed[i].count[k] = Direct(k, LastReport(i - 1), LastReport(i))
      BY DEF IndInv, ReportsExact
    <2>3. \A n \in 1..Len(stmts) : stmts[n].tx = observed[i].tx
             => n \in LastReport(i - 1) + 1 .. LastReport(i)
      BY DEF IndInv, ReportsExact
    <2>4. Own(k, observed[i].tx) <= Direct(k, LastReport(i - 1),
                                           LastReport(i))
      BY <2>1, <2>3, OwnWithin DEF IndInv
    <2>5. Direct(k, LastReport(i - 1), LastReport(i)) \in Nat
      BY <2>1, DirectType
    <2> QED
      BY <2>2, <2>4, <2>5
  <1>4. ASSUME NEW k \in Kinds
        PROVE  /\ tx = "managed" => Own(k, txs) <= counter[k]
               /\ counter[k]
                    <= Direct(k, LastReport(Len(observed)), Len(stmts))
    <2>1. PICK a : a = LastReport(Len(observed))
      OBVIOUS
    <2>2. a \in Nat
      BY <1>1, <1>2, <2>1
    <2>3. counter[k] = Direct(k, a, Len(stmts))
      BY <2>1 DEF IndInv, ReportsExact
    <2>4. ASSUME tx = "managed"
          PROVE  \A n \in 1..Len(stmts) :
                    stmts[n].tx = txs => n \in a + 1 .. Len(stmts)
      <3>1. txs \in Nat
        BY DEF IndInv, TypeOK
      <3>2. \A n \in 1..Len(stmts) : n <= a => stmts[n].tx < txs
        BY <2>1, <2>4 DEF IndInv, TxInv
      <3> QED
        BY <1>2, <2>2, <3>1, <3>2
    <2>5. tx = "managed" => Own(k, txs) <= Direct(k, a, Len(stmts))
      BY <1>2, <2>2, <2>4, OwnWithin DEF IndInv
    <2>6. Direct(k, a, Len(stmts)) \in Nat
      BY <1>2, <2>2, DirectType
    <2> QED
      BY <2>1, <2>3, <2>5, <2>6
  <1> QED
    BY <1>3, <1>4 DEF CountedOnce

-----------------------------------------------------------------------------
(* The properties of ManagedTx, for every value of the constants           *)

(* The counters never exceed the number of statements (conn.go 90-178).    *)
THEOREM TypeCorrect == Spec => []TypeOK
  BY Inductive, PTL DEF IndInv

(* A report has at least its transaction's own statements, and at most     *)
(* what ran since the report before it (transaction.go 19-48).             *)
THEOREM ReportedOnce == Spec => []CountedOnce
  BY Inductive, ExactIsWithin, PTL

=============================================================================
