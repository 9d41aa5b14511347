----------------------------- MODULE PathChksum -----------------------------
(***************************************************************************)
(* The metric that says when the checksum of a watched file last changed   *)
(* (metrics/pathchksum_metrics.go).  The record of a path is read and      *)
(* written by its scraper function, which takes no lock: every scrape of   *)
(* the metrics runs it in a goroutine of its own, and scrapes may overlap. *)
(* Each access to a field of the record is a step.                         *)
(*                                                                         *)
(* A content of the file is named by its checksum, so contents with equal  *)
(* checksums are one; 0 is the checksum of an empty file and also what the *)
(* record holds before the first scrape.                                   *)
(***************************************************************************)
EXTENDS Naturals

CONSTANTS
    Scrapers,   \* goroutines that collect metrics
    Sums,       \* checksums of the contents the file may have
    MaxTime,    \* bound on the clock
    Absent      \* there is no file

ASSUME SumsAssumption == Sums \subseteq Nat /\ Absent \notin Nat
ASSUME TimeAssumption == MaxTime \in Nat \ {0}

VARIABLES
    \* outside
    now,        \* time.Now().Unix()
    file,       \* the file's checksum, or Absent
    wrote,      \* when the file was last written
    \* pathChksum and the pathRecord
    enabled,    \* the environment variable was set
    registered, \* addPath has made the record and registered the scraper
    crc64, lastChanged,
    \* one call of scraperFn
    at,         \* where it is
    newCrc64,   \* the checksum it computed
    stamp,      \* the time it read
    \* history
    seen,       \* when the content it hashed was written
    owed,       \* when the content in crc64 was written
    overlap     \* two calls were under way at the same time

outVars == <<now, file, wrote>>
recVars == <<crc64, lastChanged>>
regVars == <<enabled, registered>>
locVars == <<newCrc64, stamp, seen>>
vars == <<outVars, regVars, recVars, at, locVars, owed, overlap>>

Idle == \A s \in Scrapers : at[s] = "idle"

(* newPathChksum reads the environment.                                    *)
Init ==
    /\ now = 1 /\ wrote = 0 /\ owed = 0
    /\ file \in Sums \cup {Absent}
    /\ enabled \in BOOLEAN /\ registered = FALSE
    /\ crc64 = 0 /\ lastChanged = 0
    /\ at = [s \in Scrapers |-> "idle"]
    /\ newCrc64 = [s \in Scrapers |-> 0]
    /\ stamp = [s \in Scrapers |-> 0]
    /\ seen = [s \in Scrapers |-> 0]
    /\ overlap = FALSE

-----------------------------------------------------------------------------

Clock ==
    /\ now < MaxTime
    /\ now' = now + 1
    /\ UNCHANGED <<file, wrote, regVars, recVars, at, locVars, owed, overlap>>

(* The file is written, made or deleted.                                   *)
Write(v) ==
    /\ v # file
    /\ file' = v
    /\ wrote' = now
    /\ UNCHANGED <<now, regVars, recVars, at, locVars, owed, overlap>>

(* addPath.  It does nothing when the metric is disabled, and a path that  *)
(* is there already is an error that Watch ignores.                        *)
addPath ==
    /\ enabled
    /\ ~registered
    /\ registered' = TRUE
    /\ UNCHANGED <<outVars, enabled, recVars, at, locVars, owed, overlap>>

Goto(s, place) == at' = [at EXCEPT ![s] = place]

(* scraperFn hashes the file, which may fail.                              *)
Hash(s) ==
    /\ registered
    /\ at[s] = "idle"
    /\ overlap' = (overlap \/ ~Idle)
    /\ IF file = Absent
       THEN Goto(s, "return") /\ UNCHANGED <<newCrc64, seen>>
       ELSE /\ Goto(s, "compare")
            /\ newCrc64' = [newCrc64 EXCEPT ![s] = file]
            /\ seen' = [seen EXCEPT ![s] = wrote]
    /\ UNCHANGED <<outVars, regVars, recVars, stamp, owed>>

Compare(s) ==
    /\ at[s] = "compare"
    /\ Goto(s, IF crc64 # newCrc64[s] THEN "store" ELSE "return")
    /\ UNCHANGED <<outVars, regVars, recVars, locVars, owed, overlap>>

(* Mutant: the checksum is compared and not stored.                        *)
StoredCrcNot(s) == UNCHANGED crc64

StoredCrc(s) == crc64' = newCrc64[s]

StoreCrc(s) ==
    /\ at[s] = "store"
    /\ StoredCrc(s)
    /\ owed' = seen[s]
    /\ Goto(s, "clock")
    /\ UNCHANGED <<outVars, regVars, lastChanged, locVars, overlap>>

ReadClock(s) ==
    /\ at[s] = "clock"
    /\ stamp' = [stamp EXCEPT ![s] = now]
    /\ Goto(s, "stamp")
    /\ UNCHANGED <<outVars, regVars, recVars, newCrc64, seen, owed, overlap>>

(* Mutant: only the first change is recorded.                              *)
StampedOnce(s) == IF lastChanged = 0 THEN stamp[s] ELSE lastChanged

Stamped(s) == stamp[s]

StoreTime(s) ==
    /\ at[s] = "stamp"
    /\ lastChanged' = Stamped(s)
    /\ Goto(s, "return")
    /\ UNCHANGED <<outVars, regVars, crc64, locVars, owed, overlap>>

(* It returns lastChanged; its locals are gone.                            *)
Return(s) ==
    /\ at[s] = "return"
    /\ Goto(s, "idle")
    /\ newCrc64' = [newCrc64 EXCEPT ![s] = 0]
    /\ stamp' = [stamp EXCEPT ![s] = 0]
    /\ seen' = [seen EXCEPT ![s] = 0]
    /\ UNCHANGED <<outVars, regVars, recVars, owed, overlap>>

scraperFn(s) ==
    \/ Hash(s) \/ Compare(s) \/ StoreCrc(s)
    \/ ReadClock(s) \/ StoreTime(s) \/ Return(s)

Next ==
    \/ Clock \/ addPath
    \/ \E v \in Sums \cup {Absent} : Write(v)
    \/ \E s \in Scrapers : scraperFn(s)

Spec == Init /\ [][Next]_vars

(* Fairness.  Metrics are scraped again and again, and scrapes end.        *)
FairSpec == Spec /\ \A s \in Scrapers : WF_vars(scraperFn(s))

-----------------------------------------------------------------------------
(* Properties                                                              *)

(***************************************************************************)
(* Between scrapes that did not overlap, the metric is never older than    *)
(* the content it is about, however the file changes while it is hashed,   *)
(* compared and stamped.  Overlapping scrapes lose this: the later one may *)
(* store the earlier time.  In either case a file seen with a content that *)
(* is not empty has a time (pathchksum_metrics.go 118-133).                *)
(***************************************************************************)
NotOlderThanContent ==
    Idle => /\ ~overlap => lastChanged >= owed
            /\ crc64 # 0 => lastChanged # 0

(***************************************************************************)
(* The record comes to hold the checksum of a file that stops changing,    *)
(* also when a scrape that hashed an earlier content stores its checksum   *)
(* late (pathchksum_metrics.go 123-130).                                   *)
(***************************************************************************)
ChecksumFollows ==
    \A v \in Sums :
        <>[](registered /\ file = v) => <>[](crc64 = v)

=============================================================================
