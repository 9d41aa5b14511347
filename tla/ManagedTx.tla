----------------------------- MODULE ManagedTx ------------------------------
(***************************************************************************)
(* The statement counters of one managedConn and the transactions that     *)
(* report them (conn.go: BeginTx, Begin, Exec, ExecContext, Query,         *)
(* QueryContext, Prepare; transaction.go: managedTx).                      *)
(*                                                                         *)
(* database/sql holds the connection's lock around each call, so the calls *)
(* on one connection form a sequence.  What varies is which optional       *)
(* interfaces the underlying driver implements, and which calls fall       *)
(* inside a transaction.                                                   *)
(***************************************************************************)
EXTENDS Naturals, Sequences, FiniteSets

CONSTANTS
    Drivers,    \* kinds of underlying connections, a subset of DriverKinds
    MaxStmts,   \* bound on the number of statements
    MaxTxs      \* bound on the number of transactions

Kinds == {"exec", "query"}

(* Which of the ...Context interface, the older interface, or neither, the *)
(* connection implements for each kind of statement, and whether it        *)
(* implements driver.ConnBeginTx.                                          *)
DriverKinds == [direct : [Kinds -> {"context", "legacy", "none"}],
                beginTx : BOOLEAN]

ASSUME DriversAssumption == Drivers \subseteq DriverKinds
ASSUME BoundsAssumption == MaxStmts \in Nat /\ MaxTxs \in Nat

VARIABLES
    conn,       \* the underlying connection
    counter,    \* execStmtsCounter and queryStmtsCounter
    tx,         \* the open transaction: a managedTx, a driver's own, or none
    txs,        \* number of transactions begun
    stmts,      \* history: the statements run, each with its transaction
    observed    \* history: what SqlStmtsSummary was given, and when

vars == <<conn, counter, tx, txs, stmts, observed>>

Zero == [k \in Kinds |-> 0]

Statements == [kind : Kinds, tx : 0..MaxTxs, direct : BOOLEAN]

TypeOK ==
    /\ conn \in Drivers
    /\ counter \in [Kinds -> 0..MaxStmts]
    /\ tx \in {"none", "managed", "plain"}
    /\ txs \in 0..MaxTxs
    /\ stmts \in Seq(Statements) /\ Len(stmts) <= MaxStmts
    /\ observed \in Seq([tx : 1..MaxTxs, upto : 0..MaxStmts,
                         count : [Kinds -> 0..MaxStmts]])

Init ==
    /\ conn \in Drivers
    /\ counter = Zero
    /\ tx = "none" /\ txs = 0
    /\ stmts = << >> /\ observed = << >>

-----------------------------------------------------------------------------

Run(k, direct) ==
    /\ Len(stmts) < MaxStmts
    /\ stmts' = Append(stmts, [kind |-> k, direct |-> direct,
                               tx |-> IF tx = "none" THEN 0 ELSE txs])
    /\ UNCHANGED <<conn, tx, txs, observed>>

(* Mutant: counted by the caller and by the callee.                        *)
incStmtsCounterTwice(k) == counter' = [counter EXCEPT ![k] = @ + 2]

(* incExecStmtsCounter, incQueryStmtsCounter                               *)
incStmtsCounter(k) == counter' = [counter EXCEPT ![k] = @ + 1]

(* ExecContext and QueryContext: without the interface they return ErrSkip *)
(* and database/sql prepares the statement.                                *)
StmtContext(k) ==
    /\ conn.direct[k] = "context"
    /\ incStmtsCounter(k)
    /\ Run(k, TRUE)

(* Exec and Query, which also try the older interface.                     *)
Stmt(k) ==
    /\ conn.direct[k] # "none"
    /\ incStmtsCounter(k)
    /\ Run(k, TRUE)

(* Prepare returns the driver's own statement.                             *)
Prepare(k) == Run(k, FALSE) /\ UNCHANGED counter

(* A transaction begins.                                                   *)
Started(wrapper) ==
    /\ tx = "none"
    /\ txs < MaxTxs
    /\ tx' = wrapper
    /\ txs' = txs + 1
    /\ UNCHANGED <<conn, counter, stmts, observed>>

(* BeginTx; without driver.ConnBeginTx it refuses options that are not the *)
(* default and returns the transaction unwrapped.                          *)
BeginTx(default) ==
    /\ conn.beginTx \/ default
    /\ Started(IF conn.beginTx THEN "managed" ELSE "plain")

(* Begin returns the transaction unwrapped.                                *)
Begin == Started("plain")

(* Mutant: one of the counters is not reset.                               *)
cleanupPartial ==
    /\ observed' = Append(observed, [tx |-> txs, upto |-> Len(stmts),
                                     count |-> counter])
    /\ counter' = [counter EXCEPT !["exec"] = 0]

(* managedTx.cleanup: report the counters and reset them.                  *)
cleanup ==
    /\ observed' = Append(observed, [tx |-> txs, upto |-> Len(stmts),
                                     count |-> counter])
    /\ counter' = Zero

(* Commit and Rollback of a managedTx, whether or not the driver's own     *)
(* call succeeds.                                                          *)
EndManaged ==
    /\ tx = "managed"
    /\ cleanup
    /\ tx' = "none"
    /\ UNCHANGED <<conn, txs, stmts>>

(* Commit and Rollback of an unwrapped transaction.                        *)
EndPlain ==
    /\ tx = "plain"
    /\ tx' = "none"
    /\ UNCHANGED <<conn, counter, txs, stmts, observed>>

Next ==
    \/ \E k \in Kinds : StmtContext(k) \/ Stmt(k) \/ Prepare(k)
    \/ \E default \in BOOLEAN : BeginTx(default)
    \/ Begin \/ EndManaged \/ EndPlain

Spec == Init /\ [][Next]_vars

-----------------------------------------------------------------------------
(* Properties                                                              *)

(* Number of statements of kind k given to the driver directly, between    *)
(* two points of the history.                                              *)
Direct(k, after, upto) ==
    Cardinality({n \in after + 1 .. upto :
                    stmts[n].direct /\ stmts[n].kind = k})

LastReport(i) == IF i = 0 THEN 0 ELSE observed[i].upto

(* Number of those that belong to transaction t.                           *)
Own(k, t) ==
    Cardinality({n \in 1..Len(stmts) :
                    /\ stmts[n].direct /\ stmts[n].kind = k
                    /\ stmts[n].tx = t})

(***************************************************************************)
(* No statement of a managedTx is lost, and none is counted twice, through *)
(* failing commits, unwrapped transactions and statements outside of       *)
(* transactions: a report has at least the statements given to the driver  *)
(* directly in its transaction, and no more than ran since the report      *)
(* before it; the counters have at least those of the open transaction and *)
(* no more than ran since the last report (conn.go 90-178, transaction.go  *)
(* 19-48).  The bounds are the ones that counting only "in a transaction"  *)
(* (conn.go 30-31) meets as well; what the code reports is the upper one.  *)
(***************************************************************************)
CountedOnce ==
    \A k \in Kinds :
        /\ \A i \in 1..Len(observed) :
              /\ Own(k, observed[i].tx) <= observed[i].count[k]
              /\ observed[i].count[k]
                   <= Direct(k, LastReport(i - 1), LastReport(i))
        /\ tx = "managed" => Own(k, txs) <= counter[k]
        /\ counter[k] <= Direct(k, LastReport(Len(observed)), Len(stmts))

=============================================================================
