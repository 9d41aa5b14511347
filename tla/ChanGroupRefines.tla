-------------------------- MODULE ChanGroupRefines --------------------------
(***************************************************************************)
(* ChanGroup implements HotReload.  The mapping forgets cg.mu, the lists   *)
(* of connections, the contexts and the loop: the phase of a connection is *)
(* read off its mark, its underlying connection and the pool, and its age  *)
(* off the context that supervises it.                                     *)
(***************************************************************************)
EXTENDS ChanGroup

(* Where HotReload sees a connection.                                      *)
Phase(c) ==
    CASE pool[c] = "none" -> "none"
      [] pool[c] # "none" /\ closed[c] -> "ended"
      [] pool[c] \in {"fresh", "idle", "inuse"} /\ ~closed[c] ->
            IF reset[c] THEN "draining" ELSE "open"
      [] OTHER -> "unwanted"

OpenedWith(v) == Merged(v).dsn

Location == INSTANCE HotReload WITH
    Target   <- OpenedWith,
    NoTarget <- EmptyDsn,
    grace    <- IF forceKill THEN 0 ELSE 1,
    over     <- parentDone,
    changes  <- ctx,
    phase    <- [c \in Conns |-> Phase(c)],
    born     <- cctx,
    uses     <- [c \in Conns |-> IF Phase(c) \in {"none", "ended"}
                                 THEN EmptyDsn ELSE dsn[c]]

(***************************************************************************)
(* A chanGroup and its connections behave, to those who hold connections,  *)
(* as HotReload says: each step of a reload, of Open and of the pool is    *)
(* one of its steps or none, and what must happen in the end does          *)
(* (driver.go 228-422, conn.go 204-268).                                   *)
(***************************************************************************)
ReloadsAsPromised == Location!LiveSpec

=============================================================================
