-------------------------- MODULE EsploraInFlight --------------------------
(***************************************************************************)
(* Single-flight tracking of upstream Esplora reads                        *)
(* (src/lib/esplora/EsploraService.ts: inFlightRequests, pruneInFlight,    *)
(* trackInFlight and the second half of fetchWithRetry and of its text and *)
(* buffer twins).  A request that missed the cache either awaits the       *)
(* promise tracked under its cache key or starts a run of its own.  The    *)
(* map is capped, and entries older than MaxAge are given up.              *)
(*                                                                         *)
(* An attempt's abort timer is cleared when the headers have come: the     *)
(* body, of the answer or of the token asked for before it, comes in its   *)
(* own time or never.  A run that waits for such a body is stalled.        *)
(*                                                                         *)
(* The stretch from the lookup to the insertion has no await, so a request *)
(* joins or leads in one action; a run settles in another, and whoever     *)
(* awaits its promise resumes with it.  What a run does in between is the  *)
(* business of EsploraCache.                                               *)
(***************************************************************************)
EXTENDS Integers, FiniteSets

CONSTANTS
    Requests,    \* concurrent calls of fetchWithRetry
    Keys,        \* cache keys
    MaxEntries,  \* MAX_INFLIGHT_ENTRIES
    MaxAge,      \* MAX_INFLIGHT_AGE_MS
    MaxRun,      \* the longest a run takes whose bodies do not stall
    MaxTime,     \* bound on the clock
    NoEntry      \* what Map.get answers for a key that is not there

Entry == [owner : Requests, startedAt : Nat]

ASSUME InFlightAssumption ==
    /\ IsFiniteSet(Keys)
    /\ MaxEntries \in Nat
    /\ MaxAge \in Nat
    /\ MaxRun \in Nat
    /\ MaxTime \in Nat
    /\ NoEntry \notin Entry

VARIABLES
    now,       \* Date.now()
    entry,     \* inFlightRequests: the run tracked under each key, or NoEntry
    doing,     \* whether a request leads a run, follows one, or neither
    key,       \* the cache key of a request
    awaits,    \* the request whose run a follower awaits
    startedAt, \* when a leader's run began
    stalled    \* the leaders whose run waits for a body that nothing hurries

vars == <<now, entry, doing, key, awaits, startedAt, stalled>>

TypeOK ==
    /\ now \in Nat
    /\ entry \in [Keys -> Entry \cup {NoEntry}]
    /\ doing \in [Requests -> {"idle", "leading", "following"}]
    /\ key \in [Requests -> Keys]
    /\ awaits \in [Requests -> Requests]
    /\ startedAt \in [Requests -> Nat]
    /\ stalled \subseteq Requests

Init ==
    /\ now = 0
    /\ entry = [k \in Keys |-> NoEntry]
    /\ doing = [r \in Requests |-> "idle"]
    /\ key \in {[r \in Requests |-> k] : k \in Keys}
    /\ awaits = [r \in Requests |-> r]
    /\ startedAt = [r \in Requests |-> 0]
    /\ stalled = {}

-----------------------------------------------------------------------------
(* The map *)

Tracked(e) == {k \in Keys : e[k] # NoEntry}

Aged(k) == entry[k] # NoEntry /\ now - entry[k].startedAt > MaxAge

\* pruneInFlight, and the same test made on the key that is looked up.
Pruned == [k \in Keys |-> IF Aged(k) THEN NoEntry ELSE entry[k]]

\* trackInFlight: prune, then insert unless the map is full.
Track(r, k) ==
    IF Cardinality(Tracked(Pruned)) >= MaxEntries
    THEN Pruned
    ELSE [Pruned EXCEPT ![k] = [owner |-> r, startedAt |-> now]]

-----------------------------------------------------------------------------
(* fetchWithRetry, from the lookup in the map on *)

\* A young run of the key is tracked: await its promise.
Join(r, k) ==
    /\ doing[r] = "idle"
    /\ entry[k] # NoEntry /\ ~Aged(k)
    /\ doing' = [doing EXCEPT ![r] = "following"]
    /\ key' = [key EXCEPT ![r] = k]
    /\ awaits' = [awaits EXCEPT ![r] = entry[k].owner]
    /\ UNCHANGED <<now, entry, startedAt, stalled>>

\* Mutant: the run is backdated by the age it may reach.
LeadBackdated(r, k) ==
    /\ doing[r] = "idle"
    /\ entry[k] = NoEntry \/ Aged(k)
    /\ entry' = Track(r, k)
    /\ doing' = [doing EXCEPT ![r] = "leading"]
    /\ key' = [key EXCEPT ![r] = k]
    /\ startedAt' = [startedAt EXCEPT ![r] = now - MaxAge]
    /\ UNCHANGED <<now, awaits, stalled>>

\* No run of the key is tracked, or only an aged one: start one and track it.
Lead(r, k) ==
    /\ doing[r] = "idle"
    /\ entry[k] = NoEntry \/ Aged(k)
    /\ entry' = Track(r, k)
    /\ doing' = [doing EXCEPT ![r] = "leading"]
    /\ key' = [key EXCEPT ![r] = k]
    /\ startedAt' = [startedAt EXCEPT ![r] = now]
    /\ UNCHANGED <<now, awaits, stalled>>

\* A body that the run of r waits for stops coming.
BodyStalls(r) ==
    /\ doing[r] = "leading"
    /\ r \notin stalled
    /\ stalled' = stalled \cup {r}
    /\ UNCHANGED <<now, entry, doing, key, awaits, startedAt>>

\* Mutant: the entry is only deleted where the result is returned, not in a
\* finally; this run throws.
SettleWithoutDelete(r) ==
    /\ doing[r] = "leading"
    /\ doing' = [q \in Requests |->
                   IF q = r \/ (doing[q] = "following" /\ awaits[q] = r)
                   THEN "idle" ELSE doing[q]]
    /\ stalled' = stalled \ {r}
    /\ UNCHANGED <<now, entry, key, awaits, startedAt>>

\* Mutant: only the leader hears of the outcome.
SettleAlone(r) ==
    /\ doing[r] = "leading"
    /\ entry' = [entry EXCEPT ![key[r]] = NoEntry]
    /\ doing' = [doing EXCEPT ![r] = "idle"]
    /\ stalled' = stalled \ {r}
    /\ UNCHANGED <<now, key, awaits, startedAt>>

\* The run of r settles, well or badly: its followers resume with the same
\* outcome, and the leader's finally deletes whatever its key holds.  A
\* stalled run settles too if its body comes after all.
Settle(r) ==
    /\ doing[r] = "leading"
    /\ entry' = [entry EXCEPT ![key[r]] = NoEntry]
    /\ doing' = [q \in Requests |->
                   IF q = r \/ (doing[q] = "following" /\ awaits[q] = r)
                   THEN "idle" ELSE doing[q]]
    /\ stalled' = stalled \ {r}
    /\ UNCHANGED <<now, key, awaits, startedAt>>

\* MaxRun bounds how far time goes while a run that has not stalled is under
\* way: three attempts, each under its timer until the headers have come.
Tick ==
    /\ now < MaxTime
    /\ \A r \in Requests : doing[r] = "leading" /\ r \notin stalled
                            => now < startedAt[r] + MaxRun
    /\ now' = now + 1
    /\ UNCHANGED <<entry, doing, key, awaits, startedAt, stalled>>

Next ==
    \/ \E r \in Requests : \E k \in Keys : Join(r, k) \/ Lead(r, k)
    \/ \E r \in Requests : BodyStalls(r) \/ Settle(r)
    \/ Tick

Spec == Init /\ [][Next]_vars

\* A run ends, by its attempts and their timers, unless a body stalls: of a
\* run that has stalled nothing is assumed.
Fairness == \A r \in Requests : WF_vars(r \notin stalled /\ Settle(r))

FairSpec == Spec /\ Fairness

-----------------------------------------------------------------------------
(* Properties *)

\* Whatever is tracked, given up and skipped, the map never outgrows its cap
\* ("Cap in-flight deduped requests to avoid unbounded memory growth"),
\* although entries are inserted by requests that raced to lead.
MapIsCapped == Cardinality(Tracked(entry)) <= MaxEntries

\* A tracked promise is the promise of a run still under way, for that very
\* key and since that very moment: a later request never gets an answer (or
\* an error) that settled before it asked, whatever the order in which
\* given-up and current runs of the key end.
NeverJoinsSettled ==
    \A k \in Keys : entry[k] # NoEntry =>
        LET o == entry[k].owner IN
        /\ doing[o] = "leading"
        /\ key[o] = k
        /\ startedAt[o] = entry[k].startedAt

\* A follower awaits a run that is under way for the key it asked for.
FollowsLiveRun ==
    \A r \in Requests : doing[r] = "following" =>
        /\ doing[awaits[r]] = "leading"
        /\ key[awaits[r]] = key[r]

\* The map of runs and the requests around it agree, whatever was pruned,
\* given up or deleted by the finally of another run: what is tracked is under
\* way and within the cap, and whoever joined follows a run that is under way.
MapIsSound ==
    /\ MapIsCapped
    /\ NeverJoinsSettled
    /\ FollowsLiveRun

\* No two upstream runs for one key at a time ("Single-flight tracking to
\* prevent duplicate in-flight requests").  It takes runs that do not stall
\* and end before their entry ages, and a map with room for every key.
SingleFlight ==
    \A r, q \in Requests :
        doing[r] = "leading" /\ doing[q] = "leading" /\ key[r] = key[q]
            => r = q

\* The same of runs that are not yet old enough to be given up as stuck:
\* the promise the code makes whatever a run's length.
OneYoungRun ==
    \A r, q \in Requests :
        (/\ doing[r] = "leading" /\ doing[q] = "leading" /\ key[r] = key[q]
         /\ now - startedAt[r] <= MaxAge /\ now - startedAt[q] <= MaxAge)
            => r = q

\* What a leader's run relies on: its entry is there until it settles, which
\* takes runs that do not stall.
LeaderIsTracked ==
    \A r \in Requests : doing[r] = "leading" =>
        /\ entry[key[r]] # NoEntry
        /\ entry[key[r]].owner = r
        /\ startedAt[r] <= now
        /\ now <= startedAt[r] + MaxRun

\* A request that joined another's run is answered when that run ends, even
\* if its entry was given up, its key's entry deleted by another run or the
\* map full meanwhile: a follower waits for ever only for a run that stalls,
\* and then it does.
FollowersAnswered ==
    \A r \in Requests :
        doing[r] = "following" ~> doing[r] = "idle" \/ awaits[r] \in stalled
=============================================================================
