----------------------------- MODULE ConnString -----------------------------
(***************************************************************************)
(* Connection strings (DSNs) and the options a SQL driver was registered   *)
(* with, as driver.go combines them.  A DSN is a record                    *)
(*                                                                         *)
(*   parses   url.ParseRequestURI and url.ParseQuery both accept it        *)
(*   base     everything but the query                                     *)
(*   query    the query, a function from keys to sequences of values       *)
(*   form     "raw" as the configuration wrote it, or "encoded" once       *)
(*            url.Values.Encode has rewritten (sorted, escaped) its query  *)
(*                                                                         *)
(* Options are a function from keys to values.                             *)
(***************************************************************************)
EXTENDS Sequences

(* The empty string mergeConnStringOptions returns next to an error.       *)
EmptyDsn == [parses |-> FALSE, base |-> "", query |-> << >>, form |-> "raw"]

(* values.Set(k, v) for every option: all values of the key are replaced.  *)
SetOptions(query, options) ==
    [k \in DOMAIN query \cup DOMAIN options |->
        IF k \in DOMAIN options THEN <<options[k]>> ELSE query[k]]

(* The pair (dsn, error).  A driver without options takes the DSN verbatim,*)
(* so only a driver with options insists on a DSN that is a URL.           *)
mergeConnStringOptions(dsn, options) ==
    CASE DOMAIN options = {} -> [dsn |-> dsn, err |-> FALSE]
      [] DOMAIN options # {} /\ ~dsn.parses ->
            [dsn |-> EmptyDsn, err |-> TRUE]
      [] OTHER ->
            [dsn |-> [dsn EXCEPT !.query = SetOptions(dsn.query, options),
                                 !.form = "encoded"],
             err |-> FALSE]

=============================================================================
