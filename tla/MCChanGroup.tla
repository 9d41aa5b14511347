---------------------------- MODULE MCChanGroup ----------------------------
(***************************************************************************)
(* Instances of ChanGroup for TLC: connection strings and driver options.  *)
(***************************************************************************)
EXTENDS ChanGroupRefines, TLC

Dsn(parses, base, query) ==
    [parses |-> parses, base |-> base, query |-> query, form |-> "raw"]

(* Two URLs, one of which sets the key the driver's options set, and a     *)
(* string that is no URL, which a driver with options cannot open.         *)
UrlA == Dsn(TRUE, "a", "tls" :> <<"off">>)
UrlB == Dsn(TRUE, "b", "pool" :> <<"4">>)
Text == Dsn(FALSE, "c", << >>)

MCUrls == {UrlA, UrlB}
MCUrlOrText == {UrlA, Text}
MCOptions == "tls" :> "on"

MCSymmetry == Permutations(Conns)

=============================================================================
