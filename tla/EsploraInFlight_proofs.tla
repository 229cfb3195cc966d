----------------------- MODULE EsploraInFlight_proofs -----------------------
(***************************************************************************)
(* Proofs about single-flight tracking, for any requests, keys and limits. *)
(*                                                                         *)
(* What is tracked is always under way (NeverJoinsSettled), however long   *)
(* runs take and however full the map is; from it, that followers follow   *)
(* live runs.  That no key has two runs needs three assumptions more: no   *)
(* body stalls, runs end before their entry ages, and the map has room for *)
(* every key.  The invariant that carries it is LeaderIsTracked.           *)
(***************************************************************************)
EXTENDS EsploraInFlight, FiniteSetTheorems, TLAPS

LEMMA EntryFields ==
    ASSUME NEW e \in Entry
    PROVE  e.owner \in Requests /\ e.startedAt \in Nat
BY DEF Entry

\* What trackInFlight leaves in the map: some of the old entries, and
\* perhaps the new one.
LEMMA TrackEntries ==
    ASSUME TypeOK, NEW r \in Requests, NEW k \in Keys
    PROVE  /\ Track(r, k) \in [Keys -> Entry \cup {NoEntry}]
           /\ \A j \in Keys :
                \/ Track(r, k)[j] = NoEntry
                \/ Track(r, k)[j] = entry[j]
                \/ j = k /\ Track(r, k)[j] = [owner |-> r, startedAt |-> now]
<1>1. Pruned \in [Keys -> Entry \cup {NoEntry}]
  BY DEF Pruned, TypeOK
<1>2. [owner |-> r, startedAt |-> now] \in Entry
  BY DEF Entry, TypeOK
<1>3. \A j \in Keys : Pruned[j] \in {NoEntry, entry[j]}
  BY DEF Pruned
<1>4. QED  BY <1>1, <1>2, <1>3 DEF Track

-----------------------------------------------------------------------------
(* Type correctness *)

LEMMA TypeInit == Init => TypeOK
BY DEF Init, TypeOK

LEMMA TypeStep == TypeOK /\ [Next]_vars => TypeOK'
<1> SUFFICES ASSUME TypeOK, [Next]_vars
             PROVE  TypeOK'
  OBVIOUS
<1>1. ASSUME NEW r \in Requests, NEW k \in Keys, Join(r, k)
      PROVE  TypeOK'
  <2>1. entry[k] \in Entry
    BY <1>1 DEF Join, TypeOK
  <2>2. entry[k].owner \in Requests
    BY <2>1, EntryFields
  <2>3. QED  BY <1>1, <2>2 DEF Join, TypeOK
<1>2. ASSUME NEW r \in Requests, NEW k \in Keys, Lead(r, k)
      PROVE  TypeOK'
  BY <1>2, TrackEntries DEF Lead, TypeOK
<1>3. ASSUME NEW r \in Requests, Settle(r)
      PROVE  TypeOK'
  BY <1>3 DEF Settle, TypeOK
<1>7. ASSUME NEW r \in Requests, BodyStalls(r)
      PROVE  TypeOK'
  BY <1>7 DEF BodyStalls, TypeOK
<1>4. CASE Tick
  BY <1>4 DEF Tick, TypeOK
<1>5. CASE UNCHANGED vars
  BY <1>5 DEF vars, TypeOK
<1>6. QED  BY <1>1, <1>2, <1>3, <1>4, <1>5, <1>7 DEF Next

\* Every reachable state is well typed.
THEOREM TypeCorrect == Spec => []TypeOK
<1>1. QED  BY TypeInit, TypeStep, PTL DEF Spec

-----------------------------------------------------------------------------
(* What is tracked is under way *)

LEMMA LiveInit == Init => NeverJoinsSettled /\ FollowsLiveRun
BY DEF Init, NeverJoinsSettled, FollowsLiveRun

LEMMA LiveStep ==
    TypeOK /\ NeverJoinsSettled /\ [Next]_vars => NeverJoinsSettled'
<1> SUFFICES ASSUME TypeOK, NeverJoinsSettled, [Next]_vars
             PROVE  NeverJoinsSettled'
  OBVIOUS
<1>1. ASSUME NEW r \in Requests, NEW k \in Keys, Join(r, k)
      PROVE  NeverJoinsSettled'
  <2> SUFFICES ASSUME NEW j \in Keys, entry[j] # NoEntry
               PROVE  /\ doing'[entry[j].owner] = "leading"
                      /\ key'[entry[j].owner] = j
                      /\ startedAt'[entry[j].owner] = entry[j].startedAt
    BY <1>1 DEF Join, NeverJoinsSettled
  <2>1. doing[entry[j].owner] = "leading"
    BY DEF NeverJoinsSettled
  <2>2. entry[j].owner # r
    BY <1>1, <2>1 DEF Join
  <2>3. entry[j].owner \in Requests
    BY EntryFields DEF TypeOK
  <2>4. QED  BY <1>1, <2>1, <2>2, <2>3 DEF Join, NeverJoinsSettled, TypeOK
<1>2. ASSUME NEW r \in Requests, NEW k \in Keys, Lead(r, k)
      PROVE  NeverJoinsSettled'
  <2> SUFFICES ASSUME NEW j \in Keys, entry'[j] # NoEntry
               PROVE  /\ doing'[entry'[j].owner] = "leading"
                      /\ key'[entry'[j].owner] = j
                      /\ startedAt'[entry'[j].owner] = entry'[j].startedAt
    BY DEF NeverJoinsSettled
  <2>0. entry' = Track(r, k)
    BY <1>2 DEF Lead
  <2>1. CASE entry'[j] = entry[j]
    <3>1. doing[entry[j].owner] = "leading"
      BY <2>1 DEF NeverJoinsSettled
    <3>2. entry[j].owner # r
      BY <1>2, <3>1 DEF Lead
    <3>3. entry[j].owner \in Requests
      BY <2>1, EntryFields DEF TypeOK
    <3>4. QED
      BY <1>2, <2>1, <3>1, <3>2, <3>3 DEF Lead, NeverJoinsSettled, TypeOK
  <2>2. CASE j = k /\ entry'[j] = [owner |-> r, startedAt |-> now]
    BY <1>2, <2>2 DEF Lead, TypeOK
  <2>3. QED  BY <2>0, <2>1, <2>2, TrackEntries
<1>3. ASSUME NEW r \in Requests, Settle(r)
      PROVE  NeverJoinsSettled'
  <2> SUFFICES ASSUME NEW j \in Keys, entry'[j] # NoEntry
               PROVE  /\ doing'[entry'[j].owner] = "leading"
                      /\ key'[entry'[j].owner] = j
                      /\ startedAt'[entry'[j].owner] = entry'[j].startedAt
    BY DEF NeverJoinsSettled
  <2>1. j # key[r] /\ entry'[j] = entry[j]
    BY <1>3 DEF Settle, TypeOK
  <2>2. doing[entry[j].owner] = "leading" /\ key[entry[j].owner] = j
    BY <2>1 DEF NeverJoinsSettled
  <2>3. entry[j].owner # r
    BY <2>1, <2>2
  <2>4. entry[j].owner \in Requests
    BY <2>1, EntryFields DEF TypeOK
  <2>5. QED
    BY <1>3, <2>1, <2>2, <2>3, <2>4 DEF Settle, NeverJoinsSettled, TypeOK
<1>7. ASSUME NEW r \in Requests, BodyStalls(r)
      PROVE  NeverJoinsSettled'
  BY <1>7 DEF BodyStalls, NeverJoinsSettled
<1>4. CASE Tick
  BY <1>4 DEF Tick, NeverJoinsSettled
<1>5. CASE UNCHANGED vars
  BY <1>5 DEF vars, NeverJoinsSettled
<1>6. QED  BY <1>1, <1>2, <1>3, <1>4, <1>5, <1>7 DEF Next

LEMMA FollowStep ==
    TypeOK /\ NeverJoinsSettled /\ FollowsLiveRun /\ [Next]_vars
        => FollowsLiveRun'
<1> SUFFICES ASSUME TypeOK, NeverJoinsSettled, FollowsLiveRun, [Next]_vars,
                    NEW q \in Requests, doing'[q] = "following"
             PROVE  /\ doing'[awaits'[q]] = "leading"
                    /\ key'[awaits'[q]] = key'[q]
  BY DEF FollowsLiveRun
<1>1. ASSUME NEW r \in Requests, NEW k \in Keys, Join(r, k)
      PROVE  /\ doing'[awaits'[q]] = "leading"
             /\ key'[awaits'[q]] = key'[q]
  <2>1. CASE q = r
    <3>1. entry[k] \in Entry /\ entry[k] # NoEntry
      BY <1>1 DEF Join, TypeOK
    <3>2. entry[k].owner \in Requests
      BY <3>1, EntryFields
    <3>3. doing[entry[k].owner] = "leading" /\ key[entry[k].owner] = k
      BY <3>1 DEF NeverJoinsSettled
    <3>4. entry[k].owner # r
      BY <1>1, <3>3 DEF Join
    <3>5. QED  BY <1>1, <2>1, <3>2, <3>3, <3>4 DEF Join, TypeOK
  <2>2. CASE q # r
    <3>1. doing[q] = "following"
      BY <1>1, <2>2 DEF Join, TypeOK
    <3>2. doing[awaits[q]] = "leading" /\ awaits[q] # r
      BY <1>1, <3>1 DEF Join, FollowsLiveRun
    <3>3. QED  BY <1>1, <2>2, <3>1, <3>2 DEF Join, FollowsLiveRun, TypeOK
  <2>3. QED  BY <2>1, <2>2
<1>2. ASSUME NEW r \in Requests, NEW k \in Keys, Lead(r, k)
      PROVE  /\ doing'[awaits'[q]] = "leading"
             /\ key'[awaits'[q]] = key'[q]
  <2>1. q # r /\ doing[q] = "following"
    BY <1>2 DEF Lead, TypeOK
  <2>2. doing[awaits[q]] = "leading" /\ awaits[q] # r
    BY <1>2, <2>1 DEF Lead, FollowsLiveRun
  <2>3. QED  BY <1>2, <2>1, <2>2 DEF Lead, FollowsLiveRun, TypeOK
<1>3. ASSUME NEW r \in Requests, Settle(r)
      PROVE  /\ doing'[awaits'[q]] = "leading"
             /\ key'[awaits'[q]] = key'[q]
  <2>1. doing[q] = "following" /\ awaits[q] # r
    BY <1>3 DEF Settle, TypeOK
  <2>2. doing[awaits[q]] = "leading" /\ key[awaits[q]] = key[q]
    BY <2>1 DEF FollowsLiveRun
  <2>3. QED  BY <1>3, <2>1, <2>2 DEF Settle, TypeOK
<1>7. ASSUME NEW r \in Requests, BodyStalls(r)
      PROVE  /\ doing'[awaits'[q]] = "leading"
             /\ key'[awaits'[q]] = key'[q]
  BY <1>7 DEF BodyStalls, FollowsLiveRun
<1>4. CASE Tick
  BY <1>4 DEF Tick, FollowsLiveRun
<1>5. CASE UNCHANGED vars
  BY <1>5 DEF vars, FollowsLiveRun
<1>6. QED  BY <1>1, <1>2, <1>3, <1>4, <1>5, <1>7 DEF Next

\* A request never joins a run that has settled, nor one of another key,
\* whatever was given up, skipped or deleted in between.
THEOREM TrackedRunsAreLive == Spec => []NeverJoinsSettled
<1>1. QED
  BY TypeInit, TypeStep, LiveInit, LiveStep, PTL DEF Spec

\* Whoever follows a run follows one that is under way for its own key.
THEOREM FollowedRunsAreLive == Spec => []FollowsLiveRun
<1>1. QED
  BY TypeInit, TypeStep, LiveInit, LiveStep, FollowStep, PTL DEF Spec

-----------------------------------------------------------------------------
(* The cap *)

LEMMA TrackedFinite ==
    ASSUME NEW e \in [Keys -> Entry \cup {NoEntry}]
    PROVE  IsFiniteSet(Tracked(e)) /\ Cardinality(Tracked(e)) \in Nat
<1>1. Tracked(e) \subseteq Keys
  BY DEF Tracked
<1>2. IsFiniteSet(Tracked(e))
  BY <1>1, FS_Subset, InFlightAssumption
<1>3. QED  BY <1>2, FS_CardinalityType

LEMMA CapStep ==
    TypeOK /\ MapIsCapped /\ [Next]_vars => MapIsCapped'
<1> SUFFICES ASSUME TypeOK, MapIsCapped, [Next]_vars
             PROVE  Cardinality(Tracked(entry')) <= MaxEntries
  BY DEF MapIsCapped
<1>0. entry \in [Keys -> Entry \cup {NoEntry}]
  BY DEF TypeOK
<1>a. ASSUME NEW e \in [Keys -> Entry \cup {NoEntry}],
             Tracked(e) \subseteq Tracked(entry)
      PROVE  Cardinality(Tracked(e)) <= MaxEntries
  <2>1. Cardinality(Tracked(e)) <= Cardinality(Tracked(entry))
    BY <1>0, <1>a, TrackedFinite, FS_Subset
  <2>2. QED
    BY <2>1, <1>0, <1>a, TrackedFinite, InFlightAssumption DEF MapIsCapped
<1>1. ASSUME NEW r \in Requests, NEW k \in Keys, Lead(r, k)
      PROVE  Cardinality(Tracked(entry')) <= MaxEntries
  <2>1. Pruned \in [Keys -> Entry \cup {NoEntry}]
    BY DEF Pruned, TypeOK
  <2>2. Tracked(Pruned) \subseteq Tracked(entry)
    BY DEF Pruned, Tracked
  <2>3. CASE Cardinality(Tracked(Pruned)) >= MaxEntries
    <3>1. entry' = Pruned
      BY <1>1, <2>3 DEF Lead, Track
    <3>2. QED  BY <1>a, <2>1, <2>2, <3>1
  <2>4. CASE ~(Cardinality(Tracked(Pruned)) >= MaxEntries)
    <3>1. entry' = [Pruned EXCEPT ![k] = [owner |-> r, startedAt |-> now]]
      BY <1>1, <2>4 DEF Lead, Track
    <3>2. Tracked(entry') \subseteq Tracked(Pruned) \cup {k}
      BY <2>1, <3>1 DEF Tracked
    <3>3. /\ IsFiniteSet(Tracked(Pruned) \cup {k})
          /\ Cardinality(Tracked(Pruned) \cup {k})
               <= Cardinality(Tracked(Pruned)) + 1
      <4> DEFINE T == Tracked(Pruned)
      <4>1. IsFiniteSet(T) /\ Cardinality(T) \in Nat
        BY <2>1, TrackedFinite
      <4> HIDE DEF T
      <4>2. /\ IsFiniteSet(T \cup {k})
            /\ \/ Cardinality(T \cup {k}) = Cardinality(T)
               \/ Cardinality(T \cup {k}) = Cardinality(T) + 1
        BY <4>1, FS_AddElement
      <4>3. Cardinality(T \cup {k}) <= Cardinality(T) + 1
        BY <4>1, <4>2
      <4>4. QED  BY <4>2, <4>3 DEF T
    <3>4. /\ IsFiniteSet(Tracked(entry'))
          /\ Cardinality(Tracked(entry'))
               <= Cardinality(Tracked(Pruned) \cup {k})
      BY <3>2, <3>3, FS_Subset
    <3>5. /\ Cardinality(Tracked(entry')) \in Nat
          /\ Cardinality(Tracked(Pruned) \cup {k}) \in Nat
          /\ Cardinality(Tracked(Pruned)) \in Nat
      BY <2>1, <3>3, <3>4, TrackedFinite, FS_CardinalityType
    <3>6. Cardinality(Tracked(Pruned)) + 1 <= MaxEntries
      BY <2>4, <3>5, InFlightAssumption
    <3>7. QED  BY <3>3, <3>4, <3>5, <3>6, InFlightAssumption
  <2>5. QED  BY <2>3, <2>4
<1>2. ASSUME NEW r \in Requests, Settle(r)
      PROVE  Cardinality(Tracked(entry')) <= MaxEntries
  <2>1. /\ entry' \in [Keys -> Entry \cup {NoEntry}]
        /\ Tracked(entry') \subseteq Tracked(entry)
    BY <1>2 DEF Settle, Tracked, TypeOK
  <2>2. QED  BY <1>a, <2>1
<1>3. CASE UNCHANGED entry
  BY <1>3 DEF MapIsCapped
<1>4. QED  BY <1>1, <1>2, <1>3 DEF Next, Join, BodyStalls, Tick, vars

LEMMA CapInit == Init => MapIsCapped
<1> SUFFICES ASSUME Init
             PROVE  Cardinality(Tracked(entry)) <= MaxEntries
  BY DEF MapIsCapped
<1>1. Tracked(entry) = {}
  BY DEF Init, Tracked
<1>2. QED  BY <1>1, FS_EmptySet, InFlightAssumption

\* The map of in-flight requests never holds more than MaxEntries entries.
THEOREM MapStaysCapped == Spec => []MapIsCapped
<1>1. QED
  BY TypeInit, TypeStep, CapInit, CapStep, PTL DEF Spec

\* The map and the requests around it agree in every reachable state.
THEOREM MapAndRequestsAgree == Spec => []MapIsSound
<1>1. MapIsCapped /\ NeverJoinsSettled /\ FollowsLiveRun => MapIsSound
  BY DEF MapIsSound
<1>2. QED
  BY <1>1, MapStaysCapped, TrackedRunsAreLive, FollowedRunsAreLive, PTL

-----------------------------------------------------------------------------
(* One run per key *)

FlightInv == TypeOK /\ NeverJoinsSettled /\ LeaderIsTracked

\* A map with room for every key does not refuse a key that is not in it.
LEMMA RoomForKey ==
    ASSUME Cardinality(Keys) <= MaxEntries, NEW k \in Keys,
           NEW e \in [Keys -> Entry \cup {NoEntry}], e[k] = NoEntry
    PROVE  Cardinality(Tracked(e)) < MaxEntries
<1>1. Tracked(e) \subseteq Keys \ {k}
  BY DEF Tracked
<1>2. /\ IsFiniteSet(Keys \ {k})
      /\ Cardinality(Keys \ {k}) = Cardinality(Keys) - 1
  BY InFlightAssumption, FS_RemoveElement
<1>3. Cardinality(Tracked(e)) <= Cardinality(Keys \ {k})
  BY <1>1, <1>2, FS_Subset
<1>4. /\ Cardinality(Keys) \in Nat
      /\ Cardinality(Tracked(e)) \in Nat
  BY InFlightAssumption, FS_CardinalityType, TrackedFinite
<1>5. QED  BY <1>2, <1>3, <1>4, InFlightAssumption

LEMMA FlightStep ==
    ASSUME MaxRun <= MaxAge, Cardinality(Keys) <= MaxEntries
    PROVE  FlightInv /\ stalled = {} /\ [Next]_vars => FlightInv'
<1> SUFFICES ASSUME FlightInv, stalled = {}, [Next]_vars
             PROVE  FlightInv'
  OBVIOUS
<1> USE DEF FlightInv
<1>1. TypeOK' /\ NeverJoinsSettled'
  BY TypeStep, LiveStep
<1>2. ASSUME NEW k \in Keys
      PROVE  ~Aged(k)
  <2> SUFFICES ASSUME entry[k] # NoEntry
               PROVE  now - entry[k].startedAt <= MaxAge
    <3>1. entry[k] # NoEntry => entry[k].startedAt \in Nat
      BY EntryFields DEF TypeOK
    <3>2. QED  BY <3>1, InFlightAssumption DEF Aged, TypeOK
  <2>1. /\ entry[k].owner \in Requests
        /\ entry[k].startedAt \in Nat
    BY EntryFields DEF TypeOK
  <2>2. /\ doing[entry[k].owner] = "leading"
        /\ startedAt[entry[k].owner] = entry[k].startedAt
    BY DEF NeverJoinsSettled
  <2>3. now <= entry[k].startedAt + MaxRun
    BY <2>1, <2>2 DEF LeaderIsTracked
  <2>4. now \in Nat
    BY DEF TypeOK
  <2>5. QED  BY <2>1, <2>3, <2>4, InFlightAssumption
<1>3. Pruned = entry
  BY <1>2 DEF Pruned, TypeOK
<1>4. ASSUME NEW q \in Requests, doing'[q] = "leading"
      PROVE  /\ entry'[key'[q]] # NoEntry
             /\ entry'[key'[q]].owner = q
             /\ startedAt'[q] <= now'
             /\ now' <= startedAt'[q] + MaxRun
  <2>1. ASSUME NEW r \in Requests, NEW k \in Keys, Join(r, k)
        PROVE  /\ entry'[key'[q]] # NoEntry
               /\ entry'[key'[q]].owner = q
               /\ startedAt'[q] <= now'
               /\ now' <= startedAt'[q] + MaxRun
    <3>1. q # r /\ doing[q] = "leading"
      BY <1>4, <2>1 DEF Join, TypeOK
    <3>2. QED  BY <2>1, <3>1 DEF Join, TypeOK, LeaderIsTracked
  <2>2. ASSUME NEW r \in Requests, NEW k \in Keys, Lead(r, k)
        PROVE  /\ entry'[key'[q]] # NoEntry
               /\ entry'[key'[q]].owner = q
               /\ startedAt'[q] <= now'
               /\ now' <= startedAt'[q] + MaxRun
    <3>0. entry[k] = NoEntry /\ entry \in [Keys -> Entry \cup {NoEntry}]
      BY <1>2, <2>2 DEF Lead, TypeOK
    <3>1. Cardinality(Tracked(entry)) < MaxEntries
      BY <3>0, RoomForKey
    <3>2. ~(Cardinality(Tracked(entry)) >= MaxEntries)
      BY <3>0, <3>1, TrackedFinite, InFlightAssumption
    <3>3. entry' = [entry EXCEPT ![k] = [owner |-> r, startedAt |-> now]]
      BY <1>3, <2>2, <3>2 DEF Lead, Track
    <3>4. CASE q = r
      <4>1. key'[q] = k /\ startedAt'[q] = now /\ now' = now
        BY <2>2, <3>4 DEF Lead, TypeOK
      <4>2. entry'[k] = [owner |-> r, startedAt |-> now]
        BY <3>0, <3>3
      <4>3. entry'[k] \in Entry
        BY <4>2 DEF Entry, TypeOK
      <4>4. entry'[k] # NoEntry
        BY <4>3, InFlightAssumption
      <4>5. now \in Nat
        BY DEF TypeOK
      <4>6. QED  BY <3>4, <4>1, <4>2, <4>4, <4>5, InFlightAssumption
    <3>5. CASE q # r
      <4>1. /\ doing[q] = "leading" /\ key'[q] = key[q]
            /\ startedAt'[q] = startedAt[q] /\ now' = now
        BY <1>4, <2>2, <3>5 DEF Lead, TypeOK
      <4>2. key[q] # k
        BY <3>0, <4>1 DEF LeaderIsTracked
      <4>3. entry'[key[q]] = entry[key[q]]
        BY <3>0, <3>3, <4>2 DEF TypeOK
      <4>4. QED  BY <4>1, <4>3 DEF LeaderIsTracked
    <3>6. QED  BY <3>4, <3>5
  <2>3. ASSUME NEW r \in Requests, Settle(r)
        PROVE  /\ entry'[key'[q]] # NoEntry
               /\ entry'[key'[q]].owner = q
               /\ startedAt'[q] <= now'
               /\ now' <= startedAt'[q] + MaxRun
    <3>1. q # r /\ doing[q] = "leading"
      BY <1>4, <2>3 DEF Settle, TypeOK
    <3>2. key[q] # key[r]
      BY <2>3, <3>1 DEF Settle, LeaderIsTracked
    <3>3. entry'[key[q]] = entry[key[q]]
      BY <2>3, <3>2 DEF Settle, TypeOK
    <3>4. QED  BY <2>3, <3>1, <3>3 DEF Settle, LeaderIsTracked
  <2>4. CASE Tick
    <3>1. doing[q] = "leading" /\ now < startedAt[q] + MaxRun
      BY <1>4, <2>4 DEF Tick
    <3>2. startedAt[q] \in Nat /\ now \in Nat /\ startedAt[q] <= now
      BY <3>1 DEF TypeOK, LeaderIsTracked
    <3>3. /\ startedAt[q] <= now + 1
          /\ now + 1 <= startedAt[q] + MaxRun
      BY <3>1, <3>2, InFlightAssumption
    <3>4. QED  BY <2>4, <3>1, <3>3 DEF Tick, LeaderIsTracked
  <2>5. CASE UNCHANGED vars
    BY <1>4, <2>5 DEF vars, LeaderIsTracked
  <2>7. ASSUME NEW r \in Requests, BodyStalls(r)
        PROVE  /\ entry'[key'[q]] # NoEntry
               /\ entry'[key'[q]].owner = q
               /\ startedAt'[q] <= now'
               /\ now' <= startedAt'[q] + MaxRun
    BY <1>4, <2>7 DEF BodyStalls, LeaderIsTracked
  <2>6. QED  BY <2>1, <2>2, <2>3, <2>4, <2>5, <2>7 DEF Next
<1>5. QED  BY <1>1, <1>4 DEF LeaderIsTracked

\* When no body stalls, runs end before their entry ages and the map has
\* room for every key, the upstream never sees two reads of one key at a time.
THEOREM OneRunPerKey ==
    ASSUME MaxRun <= MaxAge, Cardinality(Keys) <= MaxEntries
    PROVE  Spec /\ [](stalled = {}) => []SingleFlight
<1>1. Init => FlightInv
  BY TypeInit, LiveInit DEF FlightInv, Init, LeaderIsTracked
<1>2. FlightInv /\ stalled = {} /\ [Next]_vars => FlightInv'
  BY FlightStep
<1>3. FlightInv => SingleFlight
  BY DEF FlightInv, LeaderIsTracked, SingleFlight
<1>4. QED  BY <1>1, <1>2, <1>3, PTL DEF Spec
=============================================================================
