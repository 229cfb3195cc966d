---- MODULE Locations ----
(***************************************************************************)
(* The map of places that take payments (lib/locations.ts): a round asks   *)
(* BTC Map for what changed since the date kept in Redis, merges it into   *)
(* the stored places, stores them, then stores the new date, and sets the  *)
(* timer of the next round.  A round starts with the server, which may go  *)
(* down at any moment, and rounds do not overlap, so that what a round has *)
(* read of Redis is still there when it uses it.                           *)
(*                                                                         *)
(* A version of a place is the instant of its last change, one a second at *)
(* most; listed places carry the tag, a name, and are not deleted.  Fields *)
(* and the lookup of the owners are left out, except that they may throw.  *)
(***************************************************************************)
EXTENDS Clock

CONSTANTS Places,
          RoundInterval     \* the 60 s of the timer and of the early return

ASSUME LocationsAssumption == RoundInterval \in Nat \ {0}

VARIABLES upstream,     \* per place, [changed, listed], at BTC Map
          locations,    \* per place, the stored version, or NoDate
          since,        \* the stored date, or NoDate
          round,        \* where the loop is
          due,          \* when its timer fires
          fetched,      \* per place, the version the round got, or NoDate
          missed        \* ghost: places whose last change may be lost

locationsVars == <<now, upstream, locations, since, round, due, fetched, missed>>

NoDate == MaxTime + 1

Nothing == [l \in Places |-> NoDate]

Place(t, listed) == [changed |-> t, listed |-> listed]

LocationsInit ==
  /\ ClockInit
  /\ upstream = [l \in Places |-> Place(0, FALSE)]
  /\ locations = Nothing
  /\ since = NoDate
  /\ round = "timer"
  /\ due = 0
  /\ fetched = Nothing
  /\ missed = {}

\* Somebody edits a place.  Once the round has its answer, the edit comes too
\* late for it, and the date it is about to store passes over the edit.
Change(l) ==
  /\ now > upstream[l].changed
  /\ \E listed \in BOOLEAN : upstream' = [upstream EXCEPT ![l] = Place(now, listed)]
  /\ missed' = IF round \in {"store", "since"} THEN missed \union {l} ELSE missed
  /\ UNCHANGED <<now, locations, since, round, due, fetched>>

Sleeps == round' = "timer" /\ due' = now + RoundInterval

Awake == round = "timer" /\ now >= due

JustDone == since # NoDate /\ now - since < RoundInterval

\* getLocations up to its request.  The early return sets no timer.
StartsRound ==
  /\ Awake
  /\ round' = IF JustDone THEN "stopped" ELSE "fetch"
  /\ UNCHANGED <<now, upstream, locations, since, due, fetched, missed>>

Answer ==
  [l \in Places |->
     IF upstream[l].listed /\ (since = NoDate \/ upstream[l].changed >= since)
     THEN upstream[l].changed ELSE NoDate]

Fetches ==
  /\ round = "fetch"
  /\ fetched' = Answer
  /\ round' = "store"
  /\ UNCHANGED <<now, upstream, locations, since, due, missed>>

\* Mutant: of two versions the stored one is kept.
MergedKeepingOld ==
  [l \in Places |-> IF locations[l] = NoDate THEN fetched[l] ELSE locations[l]]

\* dedup: the version with the later date, the fetched one when they agree.
Merged ==
  [l \in Places |->
     IF fetched[l] = NoDate \/ (locations[l] # NoDate /\ locations[l] > fetched[l])
     THEN locations[l] ELSE fetched[l]]

Current(m) == {l \in Places : upstream[l].listed /\ m[l] = upstream[l].changed}

StoresLocations ==
  /\ round = "store"
  /\ locations' = Merged
  /\ missed' = missed \ Current(fetched)
  /\ round' = "since" /\ fetched' = Nothing
  /\ UNCHANGED <<now, upstream, since, due>>

\* The write fails, which s only logs, and the round goes on to the date.
LosesLocations ==
  /\ round = "store"
  /\ missed' = missed \union {l \in Places : fetched[l] # NoDate}
  /\ round' = "since" /\ fetched' = Nothing
  /\ UNCHANGED <<now, upstream, locations, since, due>>

\* The date is that of now, whether or not s manages to store it.
StoresSince ==
  /\ round = "since"
  /\ since' \in {since, now}
  /\ Sleeps
  /\ UNCHANGED <<now, upstream, locations, fetched, missed>>

\* A read of Redis times out, BTC Map fails, or something in its answer throws.
RoundFails ==
  /\ Awake \/ round \in {"fetch", "store"}
  /\ Sleeps
  /\ fetched' = Nothing
  /\ UNCHANGED <<now, upstream, locations, since, missed>>

ServerStops ==
  /\ round # "down"
  /\ round' = "down" /\ fetched' = Nothing
  /\ UNCHANGED <<now, upstream, locations, since, due, missed>>

ServerStarts ==
  /\ round = "down"
  /\ round' = "timer" /\ due' = now
  /\ UNCHANGED <<now, upstream, locations, since, fetched, missed>>

LocationsTick ==
  /\ Tick
  /\ UNCHANGED <<upstream, locations, since, round, due, fetched, missed>>

LocationsNext ==
  \/ \E l \in Places : Change(l)
  \/ StartsRound
  \/ Fetches
  \/ StoresLocations
  \/ LosesLocations
  \/ StoresSince
  \/ RoundFails
  \/ ServerStops
  \/ ServerStarts
  \/ LocationsTick

LocationsSpec == LocationsInit /\ [][LocationsNext]_locationsVars

-----------------------------------------------------------------------------

Dates == Times \union {NoDate}

LocationsTypeOK ==
  /\ now \in Times
  /\ upstream \in [Places -> [changed : 0..now, listed : BOOLEAN]]
  /\ locations \in [Places -> Dates]
  /\ since \in 0..now \union {NoDate}
  /\ round \in {"timer", "fetch", "store", "since", "stopped", "down"}
  /\ due \in Nat
  /\ fetched \in [Places -> Dates]
  /\ missed \subseteq Places

\* A listed place is stored in its present version, or the date lets the next
\* round ask for it: wherever rounds break off and the server goes down, a
\* change is lost only if it was made between the answer to a round and its
\* date, or the write of the places failed and the date went on
\* (locations.ts:19-63).
NoChangeForgotten ==
  \A l \in Places :
    upstream[l].listed /\ l \notin missed =>
      \/ locations[l] = upstream[l].changed
      \/ since = NoDate
      \/ upstream[l].changed >= since

\* The loop does not end while the server runs.  (It does: a server that is
\* started again within a minute of its last round returns early for good.)
LoopGoesOn == round # "stopped"

====
