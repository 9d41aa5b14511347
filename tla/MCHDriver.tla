----------------------------- MODULE MCHDriver ------------------------------
(***************************************************************************)
(* Instances of HDriver for TLC: what the two names ask for.               *)
(***************************************************************************)
EXTENDS HDriver, TLC

CONSTANTS n1, n2, d1, d2, q1, q2

MCDriverOf == n1 :> d1 @@ n2 :> d2
MCQueryOf == n1 :> q1 @@ n2 :> q2

(* Two names that differ in the driver only.                               *)
MCSameQuery == n1 :> q1 @@ n2 :> q1

=============================================================================
