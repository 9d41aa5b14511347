-------------------------- MODULE PathChksumProofs --------------------------
(***************************************************************************)
(* Proofs about PathChksum, for any number of scrapers, any contents of    *)
(* the file and any bound on the clock.                                    *)
(*                                                                         *)
(* NotOlderThanContent speaks of moments without a scrape.  During one,    *)
(* the metric may be older than the content, and the scrape that makes up  *)
(* for it is between its store of the checksum and its store of the time.  *)
(* Without overlap it is the only scrape, so no other one can store an     *)
(* earlier time after it; with overlap it still stores some time.          *)
(***************************************************************************)
EXTENDS PathChksum, TLAPS

Places == {"idle", "compare", "store", "clock", "stamp", "return"}

Types ==
    /\ now \in Nat \ {0} /\ wrote \in Nat /\ owed \in Nat
    /\ file \in Sums \cup {Absent} /\ crc64 \in Nat /\ lastChanged \in Nat
    /\ at \in [Scrapers -> Places]
    /\ newCrc64 \in [Scrapers -> Nat]
    /\ stamp \in [Scrapers -> Nat] /\ seen \in [Scrapers -> Nat]
    /\ overlap \in BOOLEAN

(* No content was written in the future, and the clock is never 0.         *)
TimeInv ==
    /\ wrote <= now /\ owed <= now
    /\ \A s \in Scrapers : /\ seen[s] <= now
                           /\ at[s] = "stamp" => stamp[s] # 0

(* Some scrape has yet to store the time of the change it found.           *)
Stamping == \E s \in Scrapers : at[s] \in {"clock", "stamp"}

(* Until two scrapes overlap there is one at a time.                       *)
AloneInv ==
    ~overlap => \A s, u \in Scrapers :
                    at[s] # "idle" /\ at[u] # "idle" => s = u

(* The time the scrape stores is not before the content.                   *)
OwedInv ==
    ~overlap => /\ \A s \in Scrapers : at[s] = "stamp" => stamp[s] >= owed
                /\ Stamping \/ lastChanged >= owed

TimedInv == crc64 # 0 => Stamping \/ lastChanged # 0

IndInv == Types /\ TimeInv /\ AloneInv /\ OwedInv /\ TimedInv

-----------------------------------------------------------------------------

(* Between scrapes no scrape is storing a time.                            *)
LEMMA WhenIdle == IndInv => NotOlderThanContent
  BY DEF IndInv, OwedInv, TimedInv, Stamping, NotOlderThanContent, Idle

(* Nothing has been scraped (pathchksum_metrics.go 95-116).                *)
LEMMA InitInv == Init => IndInv
  <1> SUFFICES ASSUME Init PROVE IndInv
    OBVIOUS
  <1> USE DEF Init
  <1>1. Types
    <2>1. /\ at \in [Scrapers -> Places]
          /\ newCrc64 \in [Scrapers -> Nat]
          /\ stamp \in [Scrapers -> Nat] /\ seen \in [Scrapers -> Nat]
      BY DEF Places
    <2>2. 0 \in Nat /\ 1 \in Nat \ {0} /\ FALSE \in BOOLEAN
      OBVIOUS
    <2> QED
      BY <2>1, <2>2 DEF Types
  <1>2. TimeInv /\ AloneInv
    BY DEF TimeInv, AloneInv
  <1>3. OwedInv /\ TimedInv
    BY DEF OwedInv, TimedInv
  <1> QED
    BY <1>1, <1>2, <1>3 DEF IndInv

(* The clock, the file and addPath, at any point of a scrape.              *)
LEMMA OutsideInv ==
  ASSUME IndInv,
         Clock \/ addPath \/ \E v \in Sums \cup {Absent} : Write(v)
  PROVE  IndInv'
  <1>1. /\ UNCHANGED <<recVars, at, locVars, owed, overlap>>
        /\ now' \in Nat \ {0} /\ now <= now'
        /\ wrote' \in Nat /\ wrote' <= now'
        /\ file' \in Sums \cup {Absent}
    BY DEF Clock, addPath, Write, outVars, IndInv, Types, TimeInv
  <1>2. Types'
    BY <1>1 DEF IndInv, Types, recVars, locVars
  <1>3. TimeInv'
    BY <1>1 DEF IndInv, Types, TimeInv, recVars, locVars
  <1>4. AloneInv' /\ OwedInv' /\ TimedInv'
    BY <1>1 DEF IndInv, AloneInv, OwedInv, TimedInv, Stamping, recVars,
                locVars
  <1> QED
    BY <1>2, <1>3, <1>4 DEF IndInv

(* A scrape begins; with another one under way they overlap from then on.  *)
LEMMA HashInv ==
  ASSUME NEW s \in Scrapers, IndInv, Hash(s)
  PROVE  IndInv'
  <1>1. PICK p \in {"return", "compare"} : at' = [at EXCEPT ![s] = p]
    BY DEF Hash, Goto
  <1>2. /\ at[s] = "idle" /\ overlap' = (overlap \/ ~Idle)
        /\ UNCHANGED <<now, file, wrote, crc64, lastChanged, stamp, owed>>
    BY DEF Hash, outVars, recVars
  <1>3. /\ newCrc64' \in [Scrapers -> Nat]
        /\ seen' \in [Scrapers -> Nat]
        /\ \A u \in Scrapers : seen'[u] <= now
    BY SumsAssumption DEF Hash, IndInv, Types, TimeInv
  <1>4. Types'
    BY <1>1, <1>2, <1>3 DEF IndInv, Types, Places
  <1>5. TimeInv'
    BY <1>1, <1>2, <1>3 DEF IndInv, Types, TimeInv
  <1>6. AloneInv'
    BY <1>1, <1>2 DEF IndInv, Types, AloneInv, Idle
  <1>7. Stamping' <=> Stamping
    BY <1>1, <1>2 DEF IndInv, Types, Stamping
  <1>8. OwedInv' /\ TimedInv'
    BY <1>1, <1>2, <1>7 DEF IndInv, Types, OwedInv, TimedInv
  <1> QED
    BY <1>4, <1>5, <1>6, <1>8 DEF IndInv

(* It compares, or it returns: neither stores anything.                    *)
LEMMA CompareReturnInv ==
  ASSUME NEW s \in Scrapers, IndInv, Compare(s) \/ Return(s)
  PROVE  IndInv'
  <1>1. PICK p \in {"return", "store", "idle"} :
             /\ at' = [at EXCEPT ![s] = p]
             /\ at[s] \in {"compare", "return"}
    BY DEF Compare, Return, Goto
  <1>2. UNCHANGED <<now, file, wrote, crc64, lastChanged, owed, overlap>>
    BY DEF Compare, Return, outVars, recVars
  <1>3. /\ newCrc64' \in [Scrapers -> Nat]
        /\ seen' \in [Scrapers -> Nat] /\ stamp' \in [Scrapers -> Nat]
        /\ \A u \in Scrapers : seen'[u] <= now
        /\ \A u \in Scrapers \ {s} : stamp'[u] = stamp[u]
    BY DEF Compare, Return, locVars, IndInv, Types, TimeInv
  <1>4. Types'
    BY <1>1, <1>2, <1>3 DEF IndInv, Types, Places
  <1>5. TimeInv'
    BY <1>1, <1>2, <1>3 DEF IndInv, Types, TimeInv
  <1>6. AloneInv'
    BY <1>1, <1>2 DEF IndInv, Types, AloneInv
  <1>7. Stamping' <=> Stamping
    BY <1>1, <1>2 DEF IndInv, Types, Stamping
  <1>8. OwedInv' /\ TimedInv'
    BY <1>1, <1>2, <1>3, <1>7 DEF IndInv, Types, OwedInv, TimedInv
  <1> QED
    BY <1>4, <1>5, <1>6, <1>8 DEF IndInv

(* It stores the new checksum, and now owes a time.                        *)
LEMMA StoreCrcInv ==
  ASSUME NEW s \in Scrapers, IndInv, StoreCrc(s)
  PROVE  IndInv'
  <1>1. /\ at[s] = "store" /\ at' = [at EXCEPT ![s] = "clock"]
        /\ crc64' = newCrc64[s] /\ owed' = seen[s]
        /\ UNCHANGED <<now, file, wrote, lastChanged, newCrc64, stamp, seen,
                       overlap>>
    BY DEF StoreCrc, StoredCrc, Goto, outVars, locVars
  <1>2. Types'
    BY <1>1 DEF IndInv, Types, Places
  <1>3. TimeInv'
    BY <1>1 DEF IndInv, Types, TimeInv
  <1>4. AloneInv'
    BY <1>1 DEF IndInv, Types, AloneInv
  <1>5. Stamping'
    BY <1>1 DEF IndInv, Types, Stamping
  <1>6. ~overlap => \A u \in Scrapers : at'[u] # "stamp"
    BY <1>1 DEF IndInv, Types, AloneInv
  <1>7. OwedInv' /\ TimedInv'
    BY <1>1, <1>5, <1>6 DEF OwedInv, TimedInv
  <1> QED
    BY <1>2, <1>3, <1>4, <1>7 DEF IndInv

(* It reads a clock that is not behind any content.                        *)
LEMMA ReadClockInv ==
  ASSUME NEW s \in Scrapers, IndInv, ReadClock(s)
  PROVE  IndInv'
  <1>1. /\ at[s] = "clock" /\ at' = [at EXCEPT ![s] = "stamp"]
        /\ stamp' = [stamp EXCEPT ![s] = now]
        /\ UNCHANGED <<now, file, wrote, crc64, lastChanged, newCrc64, seen,
                       owed, overlap>>
    BY DEF ReadClock, Goto, outVars, recVars
  <1>2. Types'
    BY <1>1 DEF IndInv, Types, Places
  <1>3. TimeInv'
    BY <1>1 DEF IndInv, Types, TimeInv
  <1>4. AloneInv'
    BY <1>1 DEF IndInv, Types, AloneInv
  <1>5. Stamping'
    BY <1>1 DEF IndInv, Types, Stamping
  <1>6. OwedInv' /\ TimedInv'
    BY <1>1, <1>5 DEF IndInv, Types, TimeInv, OwedInv, TimedInv
  <1> QED
    BY <1>2, <1>3, <1>4, <1>6 DEF IndInv

(* It stores a time that is not 0, and not before the content if it was    *)
(* alone.                                                                  *)
LEMMA StoreTimeInv ==
  ASSUME NEW s \in Scrapers, IndInv, StoreTime(s)
  PROVE  IndInv'
  <1>1. /\ at[s] = "stamp" /\ at' = [at EXCEPT ![s] = "return"]
        /\ lastChanged' = stamp[s]
        /\ UNCHANGED <<now, file, wrote, crc64, newCrc64, stamp, seen, owed,
                       overlap>>
    BY DEF StoreTime, Stamped, Goto, outVars, locVars
  <1>2. Types'
    BY <1>1 DEF IndInv, Types, Places
  <1>3. TimeInv'
    BY <1>1 DEF IndInv, Types, TimeInv
  <1>4. AloneInv'
    BY <1>1 DEF IndInv, Types, AloneInv
  <1>5. OwedInv'
    BY <1>1 DEF IndInv, Types, OwedInv
  <1>6. TimedInv'
    BY <1>1 DEF IndInv, Types, TimeInv, TimedInv
  <1> QED
    BY <1>2, <1>3, <1>4, <1>5, <1>6 DEF IndInv

(* A step that changes nothing.                                            *)
LEMMA StutterInv == IndInv /\ UNCHANGED vars => IndInv'
  BY DEF vars, outVars, regVars, recVars, locVars, IndInv, Types, TimeInv,
         AloneInv, OwedInv, TimedInv, Stamping

(* The metric is not older than the content it is about while scrapes do   *)
(* not overlap, and has a time in any case (pathchksum_metrics.go          *)
(* 118-133).                                                               *)
THEOREM MetricIsRecent == Spec => []NotOlderThanContent
  <1>1. IndInv /\ [Next]_vars => IndInv'
    BY OutsideInv, HashInv, CompareReturnInv, StoreCrcInv, ReadClockInv,
       StoreTimeInv, StutterInv
       DEF Next, scraperFn
  <1> QED
    BY InitInv, WhenIdle, <1>1, PTL DEF Spec

=============================================================================
