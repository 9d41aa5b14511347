---------------------------- MODULE MCManagedTx -----------------------------
(***************************************************************************)
(* Instances of ManagedTx for TLC.                                         *)
(***************************************************************************)
EXTENDS ManagedTx

(* Drivers that treat both kinds alike, and one that does not.             *)
MCDrivers ==
    {d \in DriverKinds : d.direct["exec"] = d.direct["query"]
                         \/ (d.direct["exec"] = "context" /\ d.beginTx)}

=============================================================================
