----------------------------- MODULE SecretSink -----------------------------
(***************************************************************************)
(* The bounded store that replaces passwords in log messages by random     *)
(* values (internal/secret_sink.go), and the function that uses it         *)
(* (internal/url.go).  Add runs under the mutex of the store, so each call *)
(* is one action; what it reads of the clock before it looks for the       *)
(* oldest pair and what it reads after may differ.                         *)
(***************************************************************************)
EXTENDS Naturals, FiniteSets

CONSTANTS
    Secrets,    \* passwords, the one RedactUrl makes up for a URL without
                \* a password among them
    maxCount,   \* how many pairs the store may hold, 20 in url.go
    MaxTime,    \* bound on the clock
    MaxRandoms, \* bound on the number of random values made
    None        \* nothing shown

ASSUME MaxCountAssumption == maxCount \in Nat
ASSUME SinkBounds == MaxTime \in Nat \ {0} /\ MaxRandoms \in Nat
ASSUME SinkNone == None \notin Nat

VARIABLES
    now,        \* the clock, which may stand still between two readings
    secretStore,\* random value and time of last use of the stored secrets
    randoms,    \* how many random values have been made
    panicked,   \* a nil oldestData was dereferenced
    \* history
    lastUse,    \* time of the last successful Add of each secret, 0: never
    shown       \* what RedactUrl last put in the place of each secret

vars == <<now, secretStore, randoms, panicked, lastUse, shown>>

(* uuid.NewRandom fails: RedactUrl shows this instead.                     *)
redactStr == 0

Stored == DOMAIN secretStore

TypeOK ==
    /\ now \in 1..MaxTime
    /\ Stored \subseteq Secrets
    /\ Cardinality(Stored) <= maxCount
    /\ \A s \in Stored : secretStore[s] \in
            [randomSecret : 1..MaxRandoms, lastUsedTime : 1..now]
    /\ randoms \in 0..MaxRandoms
    /\ panicked \in BOOLEAN
    /\ lastUse \in [Secrets -> 0..now]
    /\ shown \in [Secrets -> 0..MaxRandoms \cup {None}]

Init ==
    /\ now = 1
    /\ secretStore = << >>
    /\ randoms = 0 /\ panicked = FALSE
    /\ lastUse = [s \in Secrets |-> 0]
    /\ shown = [s \in Secrets |-> None]

-----------------------------------------------------------------------------

(* time.Now() some time after the reading now.                             *)
Later == {t \in {now, now + 1} : t <= MaxTime}

(* Add and RedactUrl return the random value r.                            *)
Returned(s, r, t) ==
    /\ now' = t
    /\ shown' = [shown EXCEPT ![s] = r]
    /\ lastUse' = IF r = redactStr THEN lastUse ELSE [lastUse EXCEPT ![s] = t]

(* Mutants: the time of last use is not updated, and a random value is     *)
(* made for every call.                                                    *)
AddFoundUnused(s) ==
    /\ ~panicked
    /\ s \in Stored
    /\ \E t \in Later : Returned(s, secretStore[s].randomSecret, t)
    /\ UNCHANGED <<secretStore, randoms, panicked>>

AddFoundFresh(s) ==
    /\ ~panicked
    /\ s \in Stored
    /\ randoms < MaxRandoms
    /\ randoms' = randoms + 1
    /\ \E t \in Later :
          /\ Returned(s, randoms', t)
          /\ secretStore' = [secretStore EXCEPT ![s].lastUsedTime = t]
    /\ UNCHANGED panicked

(* The secret is stored: its pair is used again.                           *)
AddFound(s) ==
    /\ ~panicked
    /\ s \in Stored
    /\ \E t \in Later :
          /\ Returned(s, secretStore[s].randomSecret, t)
          /\ secretStore' = [secretStore EXCEPT ![s].lastUsedTime = t]
    /\ UNCHANGED <<randoms, panicked>>

(* Mutant: the store is full one pair too late.                            *)
FullLate == Cardinality(Stored) > maxCount

Full == Cardinality(Stored) >= maxCount

(* The pairs the search may find, in the order of the map's iteration:     *)
(* those used first, if that was before now.                               *)
Oldest ==
    {s \in Stored : /\ secretStore[s].lastUsedTime < now
                    /\ \A u \in Stored : secretStore[s].lastUsedTime
                                            <= secretStore[u].lastUsedTime}

(* The store without the pairs of some secrets.                            *)
Without(gone) == [u \in Stored \ gone |-> secretStore[u]]

(* A new secret: make room, and bind it to a random value, or return the   *)
(* error of uuid.NewRandom after room was made.                            *)
AddNew(s) ==
    /\ ~panicked
    /\ s \notin Stored
    /\ \E gone \in IF Full THEN {{u} : u \in Oldest} ELSE {{}}, t \in Later :
          \/ /\ randoms < MaxRandoms
             /\ randoms' = randoms + 1
             /\ secretStore' =
                   [u \in (Stored \ gone) \cup {s} |->
                       IF u = s THEN [randomSecret |-> randoms',
                                      lastUsedTime |-> t]
                       ELSE secretStore[u]]
             /\ Returned(s, randoms', t)
          \/ /\ secretStore' = Without(gone)
             /\ Returned(s, redactStr, t)
             /\ UNCHANGED randoms
    /\ UNCHANGED panicked

(* Mutant: an empty store counts as full.                                  *)
NoOldestEager == Oldest = {}

(* The search finds no pair.                                               *)
NoOldest == Full /\ Oldest = {}

AddPanics(s) ==
    /\ ~panicked
    /\ s \notin Stored
    /\ NoOldest
    /\ panicked' = TRUE
    /\ UNCHANGED <<now, secretStore, randoms, lastUse, shown>>

(* RedactUrl of a URL whose password, or "password" if it has none, is s.  *)
(* A string that is no URL is returned as it is and changes nothing.       *)
RedactUrl(s) == AddFound(s) \/ AddNew(s) \/ AddPanics(s)

Clock ==
    /\ ~panicked
    /\ now < MaxTime
    /\ now' = now + 1
    /\ UNCHANGED <<secretStore, randoms, panicked, lastUse, shown>>

Next == Clock \/ \E s \in Secrets : RedactUrl(s)

Spec == Init /\ [][Next]_vars

-----------------------------------------------------------------------------
(* Properties                                                              *)

(***************************************************************************)
(* "When full, any new secret/random pair added results in deleting the    *)
(* oldest pair" (secret_sink.go 20-23), where using a pair makes it young: *)
(* no secret that is gone was used after one that is stored, whatever the  *)
(* order of the map's iteration, equal clock readings and failures of      *)
(* uuid.NewRandom.                                                         *)
(***************************************************************************)
LeastRecentGoes ==
    \A s \in Secrets \ Stored, u \in Stored : lastUse[s] <= lastUse[u]

(***************************************************************************)
(* The same secret looks the same in all messages for as long as it is     *)
(* stored: what was shown last will be shown again, also of a secret that  *)
(* was gone in between, or for which no random value could be made         *)
(* (secret_sink.go 45-57, url.go 32-41).                                   *)
(***************************************************************************)
Recognisable == \A s \in Stored : shown[s] = secretStore[s].randomSecret

(***************************************************************************)
(* Add dereferences a nil oldestData only when each of maxCount pairs was  *)
(* used at the very time the clock shows: with 20 pairs, only on a clock   *)
(* that stands still over 21 calls (secret_sink.go 60-69).                 *)
(***************************************************************************)
PanicsOnlyOnTies ==
    panicked => /\ Cardinality({s \in Secrets : lastUse[s] = now}) >= maxCount
                /\ Full

=============================================================================
