---- MODULE UserData_proofs ----
(***************************************************************************)
(* Proofs about data in Redis that takes more than one write:              *)
(*   - a user's apps, for any pubkeys and any number of calls.  A change   *)
(*     and a deletion are two commands each; the invariant says what a     *)
(*     call that has done its first may assume about the record and the    *)
(*     index when it does its second;                                      *)
(*   - the map of places, for any places and interval.  The invariant says *)
(*     what a round may assume about the places it has not fetched;        *)
(*   - the keys of an account, for any accounts, names, addresses and      *)
(*     number of requests, whether or not Redis commands fail;             *)
(*   - a merchant's items, for any ids and any number of calls.  The       *)
(*     invariant counts an id a sort has yet to push as listed;            *)
(*   - a user's contacts, for any people, payments and calls.  The         *)
(*     invariant says which payments a call that nothing disturbed has in  *)
(*     hand, and which people the stored list names meanwhile.             *)
(* The last two go through lists.  What such a recursive definition makes  *)
(* of a list of any length is shown by induction, with a set in the place  *)
(* of the predicate (Induction) and a function in the place of the rule    *)
(* (Iterates), since the provers cannot take an operator as a parameter.   *)
(***************************************************************************)
EXTENDS Contacts, Items, Apps, Locations, Accounts, SequenceTheorems, FiniteSetTheorems,
        WellFoundedInduction, TLAPS

-----------------------------------------------------------------------------
(* The apps *)

AppStates ==
  [kind : {"none", "update", "delete"}, at : {"idle", "first", "second"},
   uid : AppUsers, pubkey : Pubkeys \union {NoPubkey}]

\* A change that has stored its record still finds it there.
ChangedIsStored ==
  \A c \in AppCalls :
    AppAt(c, "update", "second") => appCall[c].pubkey \in appRecords \union raced

\* A change and a deletion that both have their second command to do overlap.
OverlapIsRaced ==
  \A c, d \in AppCalls :
    /\ AppAt(c, "update", "second") /\ AppAt(d, "delete", "second")
    /\ appCall[c].pubkey = appCall[d].pubkey
    => appCall[c].pubkey \in raced

\* A deletion that is about to drop the record has left nothing in its user's set.
DroppedIsUnindexed ==
  \A c \in AppCalls :
    AppAt(c, "delete", "second") => appCall[c].pubkey \notin index[appCall[c].uid] \ raced

AppsInv ==
  /\ appCall \in [AppCalls -> AppStates]
  /\ index \in [AppUsers -> SUBSET (Pubkeys \union {NoPubkey})]
  /\ ChangedIsStored
  /\ OverlapIsRaced
  /\ DroppedIsUnindexed
  /\ IndexedIsStored

\* The apps start in their invariant.
LEMMA AppsStart == AppsInit => AppsInv
<1>1. (CHOOSE u \in AppUsers : TRUE) \in AppUsers  BY AppsAssumption
<1>2. QED
  BY <1>1 DEF AppsInit, NoAppCall, AppRequest, AppAt, AppStates, AppsInv, ChangedIsStored,
       OverlapIsRaced, DroppedIsUnindexed, IndexedIsStored

\* A call that begins, or that ends, leaves the second commands to the others.
LEMMA NoSecondKeeps ==
  ASSUME AppsInv, NEW c \in AppCalls, NEW r \in AppStates, r.at # "second",
         appCall' = [appCall EXCEPT ![c] = r],
         appRecords' = appRecords, index' = index, raced' = raced, bereft' = bereft
  PROVE  AppsInv'
<1>1. appCall' \in [AppCalls -> AppStates] /\ appCall'[c] = r
  BY DEF AppsInv
<1>2. \A d \in AppCalls : d # c => appCall'[d] = appCall[d]
  BY DEF AppsInv
<1>3. ChangedIsStored'
  BY <1>1, <1>2 DEF AppsInv, ChangedIsStored, AppAt
<1>4. OverlapIsRaced'
  BY <1>1, <1>2 DEF AppsInv, OverlapIsRaced, AppAt
<1>5. DroppedIsUnindexed'
  BY <1>1, <1>2 DEF AppsInv, DroppedIsUnindexed, AppAt
<1>6. QED  BY <1>1, <1>3, <1>4, <1>5 DEF AppsInv, IndexedIsStored

\* Every step on the apps keeps their invariant.
LEMMA AppsKeep == AppsInv /\ [AppsNext]_appsVars => AppsInv'
<1> SUFFICES ASSUME AppsInv, [AppsNext]_appsVars PROVE AppsInv'
  OBVIOUS
<1>0. NoAppCall \in AppStates /\ NoAppCall.at # "second"
  BY AppsAssumption DEF NoAppCall, AppRequest, AppStates
<1>1. ASSUME NEW c \in AppCalls, NEW u \in AppUsers, NEW k \in Pubkeys,
             UpdateApp(c, u, k) \/ DeleteApp(c, u, k)
      PROVE  AppsInv'
  <2>1. PICK r \in {AppRequest("update", "first", u, k), AppRequest("delete", "first", u, k)} :
          appCall' = [appCall EXCEPT ![c] = r]
    BY <1>1 DEF UpdateApp, DeleteApp, BeginApp
  <2>2. r \in AppStates /\ r.at # "second"
    BY <2>1 DEF AppRequest, AppStates
  <2>3. QED  BY <1>1, <2>1, <2>2, NoSecondKeeps DEF UpdateApp, DeleteApp
<1>2. ASSUME NEW c \in AppCalls, StoreApp(c) \/ StoreAppFails(c)
      PROVE  AppsInv'
  <2> DEFINE k == appCall[c].pubkey
  <2>1. /\ appCall' \in [AppCalls -> AppStates]
        /\ AppAt(c, "update", "second")' /\ appCall'[c].pubkey = k
    BY <1>2 DEF StoreApp, StoreAppFails, SecondStep, MoveApp, AppAt, AppsInv, AppStates
  <2>2. \A d \in AppCalls : d # c => appCall'[d] = appCall[d]
    BY <1>2 DEF StoreApp, StoreAppFails, SecondStep, MoveApp, AppsInv
  <2>3. /\ index' = index /\ appRecords \subseteq appRecords' /\ raced \subseteq raced'
        /\ bereft' = bereft
        /\ k \in appRecords' \union raced'
        /\ UnderWay("delete", "second", k) => k \in raced'
    BY <1>2 DEF StoreApp, StoreAppFails
  <2>4. ChangedIsStored'
    BY <2>1, <2>2, <2>3 DEF AppsInv, ChangedIsStored, AppAt
  <2>5. OverlapIsRaced'
    BY <2>1, <2>2, <2>3 DEF AppsInv, OverlapIsRaced, AppAt, UnderWay
  <2>6. DroppedIsUnindexed'
    BY <2>1, <2>2, <2>3 DEF AppsInv, DroppedIsUnindexed, AppAt
  <2>7. QED
    BY <2>1, <2>3, <2>4, <2>5, <2>6 DEF AppsInv, IndexedIsStored
<1>3. ASSUME NEW c \in AppCalls, IndexApp(c)
      PROVE  AppsInv'
  <2> DEFINE k == appCall[c].pubkey
  <2>1. /\ appCall' \in [AppCalls -> AppStates] /\ appCall'[c].at # "second"
        /\ \A d \in AppCalls : d # c => appCall'[d] = appCall[d]
    BY <1>0, <1>3 DEF IndexApp, EndApp, MoveApp, AppsInv
  <2>2. /\ appRecords' = appRecords /\ raced' = raced /\ bereft' = bereft
        /\ k \in appRecords \union raced
        /\ index' = [index EXCEPT ![appCall[c].uid] = @ \union {k}]
    BY <1>3 DEF IndexApp, AppsInv, ChangedIsStored
  <2>a. k \in Pubkeys \union {NoPubkey} /\ appCall[c].uid \in AppUsers
    BY <1>3 DEF AppsInv, AppStates
  <2>3. UnderWay("delete", "second", k) => k \in raced
    BY <1>3 DEF IndexApp, UnderWay, AppsInv, OverlapIsRaced
  <2>4. ChangedIsStored' /\ OverlapIsRaced'
    BY <2>1, <2>2 DEF AppsInv, ChangedIsStored, OverlapIsRaced, AppAt
  <2>5. index' \in [AppUsers -> SUBSET (Pubkeys \union {NoPubkey})]
        /\ \A u \in AppUsers : index'[u] \subseteq index[u] \union {k}
    BY <2>2, <2>a DEF AppsInv
  <2>6. DroppedIsUnindexed'
    <3> SUFFICES ASSUME NEW d \in AppCalls, AppAt(d, "delete", "second")'
                 PROVE  appCall'[d].pubkey \notin index'[appCall'[d].uid] \ raced'
      BY DEF DroppedIsUnindexed
    <3>1. d # c /\ appCall'[d] = appCall[d] /\ AppAt(d, "delete", "second")
          /\ appCall[d].uid \in AppUsers
      BY <2>1 DEF AppAt, AppsInv, AppStates
    <3>2. CASE appCall[d].pubkey = k  BY <2>2, <2>3, <3>1, <3>2 DEF UnderWay
    <3>3. CASE appCall[d].pubkey # k
      BY <2>2, <2>5, <3>1, <3>3 DEF AppsInv, DroppedIsUnindexed
    <3>4. QED  BY <3>2, <3>3
  <2>7. IndexedIsStored'  BY <2>2, <2>5 DEF AppsInv, IndexedIsStored
  <2>8. QED  BY <2>1, <2>4, <2>5, <2>6, <2>7 DEF AppsInv
<1>4. ASSUME NEW c \in AppCalls, UnindexApp(c)
      PROVE  AppsInv'
  <2> DEFINE k == appCall[c].pubkey
  <2>1. /\ appCall' \in [AppCalls -> AppStates]
        /\ AppAt(c, "delete", "second")' /\ appCall'[c].pubkey = k
    BY <1>4 DEF UnindexApp, SecondStep, MoveApp, AppAt, AppsInv, AppStates
  <2>2. \A d \in AppCalls : d # c => appCall'[d] = appCall[d]
    BY <1>4 DEF UnindexApp, SecondStep, MoveApp, AppsInv
  <2>3. /\ index' = [index EXCEPT ![appCall[c].uid] = @ \ {k}]
        /\ appRecords' = appRecords /\ raced \subseteq raced' /\ bereft' = bereft
        /\ UnderWay("update", "second", k) => k \in raced'
    BY <1>4 DEF UnindexApp
  <2>4. ChangedIsStored'
    BY <2>1, <2>2, <2>3 DEF AppsInv, ChangedIsStored, AppAt
  <2>5. OverlapIsRaced'
    BY <2>1, <2>2, <2>3 DEF AppsInv, OverlapIsRaced, AppAt, UnderWay
  <2>a. appCall[c].uid \in AppUsers /\ appCall'[c].uid = appCall[c].uid
    BY <1>4 DEF UnindexApp, SecondStep, MoveApp, AppsInv, AppStates
  <2>b. /\ index' \in [AppUsers -> SUBSET (Pubkeys \union {NoPubkey})]
        /\ \A u \in AppUsers : index'[u] \subseteq index[u]
        /\ k \notin index'[appCall[c].uid]
    BY <2>3, <2>a DEF AppsInv
  <2>6. DroppedIsUnindexed'
    <3> SUFFICES ASSUME NEW d \in AppCalls, AppAt(d, "delete", "second")'
                 PROVE  appCall'[d].pubkey \notin index'[appCall'[d].uid] \ raced'
      BY DEF DroppedIsUnindexed
    <3>1. CASE d = c  BY <2>1, <2>a, <2>b, <3>1
    <3>2. CASE d # c
      <4>1. appCall'[d] = appCall[d] /\ AppAt(d, "delete", "second") /\ appCall[d].uid \in AppUsers
        BY <2>2, <3>2 DEF AppAt, AppsInv, AppStates
      <4>2. QED  BY <2>3, <2>b, <4>1 DEF AppsInv, DroppedIsUnindexed
    <3>3. QED  BY <3>1, <3>2
  <2>7. IndexedIsStored'  BY <2>3, <2>b DEF AppsInv, IndexedIsStored
  <2>8. QED  BY <2>1, <2>4, <2>5, <2>6, <2>7, <2>b DEF AppsInv
<1>5. ASSUME NEW c \in AppCalls, DropApp(c)
      PROVE  AppsInv'
  <2> DEFINE k == appCall[c].pubkey
  <2>1. /\ appCall' \in [AppCalls -> AppStates] /\ appCall'[c].at # "second"
        /\ \A d \in AppCalls : d # c => appCall'[d] = appCall[d]
    BY <1>0, <1>5 DEF DropApp, EndApp, MoveApp, AppsInv
  <2>2. /\ appRecords' = appRecords \ {k} /\ index' = index /\ raced' = raced
        /\ bereft' = bereft \union KeptByOthers(c)
        /\ k \notin index[appCall[c].uid] \ raced
    BY <1>5 DEF DropApp, AppsInv, DroppedIsUnindexed
  <2>3. UnderWay("update", "second", k) => k \in raced
    BY <1>5 DEF DropApp, UnderWay, AppsInv, OverlapIsRaced
  <2>4. ChangedIsStored'
    BY <2>1, <2>2, <2>3 DEF AppsInv, ChangedIsStored, AppAt, UnderWay
  <2>5. OverlapIsRaced' /\ DroppedIsUnindexed'
    BY <2>1, <2>2 DEF AppsInv, OverlapIsRaced, DroppedIsUnindexed, AppAt
  <2>6. IndexedIsStored'
    <3>1. \A u \in AppUsers : k \in index[u] => k \in raced' \union bereft'
      BY <2>2 DEF KeptByOthers
    <3>2. QED  BY <2>2, <3>1 DEF AppsInv, IndexedIsStored
  <2>7. QED  BY <2>1, <2>2, <2>4, <2>5, <2>6 DEF AppsInv
<1>6. ASSUME NEW c \in AppCalls, AppFails(c)
      PROVE  AppsInv'
  BY <1>0, <1>6, NoSecondKeeps DEF AppFails, EndApp, MoveApp
<1>7. CASE UNCHANGED appsVars
  BY <1>7 DEF appsVars, AppsInv, ChangedIsStored, OverlapIsRaced,
              DroppedIsUnindexed, IndexedIsStored, AppAt
<1>8. QED
  BY <1>1, <1>2, <1>3, <1>4, <1>5, <1>6, <1>7 DEF AppsNext

\* For any users and overlapping calls (users.ts:889-947), a pubkey in a user's set
\* has its record, unless a change of the app overlapped its deletion, a write failed,
\* or another user deleted the app, whose record they share.
THEOREM IndexedAlwaysStored == AppsSpec => []IndexedIsStored
<1>1. AppsInv => IndexedIsStored
  BY DEF AppsInv
<1>2. QED  BY AppsStart, AppsKeep, <1>1, PTL DEF AppsSpec

-----------------------------------------------------------------------------
(* The map of places *)

\* Neither copy of a place is newer than the place.
CopiesAreOld ==
  \A l \in Places :
    /\ locations[l] # NoDate => locations[l] <= upstream[l].changed
    /\ fetched[l] # NoDate => fetched[l] <= upstream[l].changed

\* Before the places are stored, what is not fetched anew is there; once they
\* are, all of it is.
RoundIsComplete ==
  \A l \in Places :
    upstream[l].listed /\ l \notin missed =>
      /\ round = "store" =>
           \/ fetched[l] = upstream[l].changed
           \/ fetched[l] = NoDate /\ locations[l] = upstream[l].changed
      /\ round = "since" => locations[l] = upstream[l].changed

LocationsInv ==
  /\ now \in Times
  /\ upstream \in [Places -> [changed : Times, listed : BOOLEAN]]
  /\ locations \in [Places -> Dates]
  /\ since \in Dates
  /\ since # NoDate => since <= now
  /\ \A l \in Places : upstream[l].changed <= now
  /\ fetched \in [Places -> Dates]
  /\ CopiesAreOld
  /\ RoundIsComplete
  /\ NoChangeForgotten

\* NoDate lies after every time of the run.
LEMMA NoDateIsNoTime == NoDate \in Nat /\ \A t \in Times : t \in Nat /\ t < NoDate
BY MaxTimeAssumption DEF NoDate, Times

\* An empty answer has no date for any place.
LEMMA NothingIsFetched ==
  Nothing \in [Places -> Dates] /\ \A l \in Places : Nothing[l] = NoDate
BY DEF Nothing, Dates

\* The map of places starts in its invariant.
LEMMA LocationsStart == LocationsInit => LocationsInv
<1> SUFFICES ASSUME LocationsInit PROVE LocationsInv
  OBVIOUS
<1>1. now \in Times /\ now = 0
  BY MaxTimeAssumption DEF LocationsInit, ClockInit, Times
<1>2. upstream = [l \in Places |-> Place(0, FALSE)]
  BY DEF LocationsInit
<1>3. upstream \in [Places -> [changed : Times, listed : BOOLEAN]]
  BY <1>1, <1>2 DEF Place
<1>4. \A l \in Places : upstream[l].changed = 0 /\ ~upstream[l].listed
  BY <1>2 DEF Place
<1>5. /\ locations \in [Places -> Dates] /\ fetched \in [Places -> Dates]
      /\ \A l \in Places : locations[l] = NoDate /\ fetched[l] = NoDate
      /\ since = NoDate /\ NoDate \in Dates /\ round = "timer"
  BY NothingIsFetched DEF LocationsInit, Dates
<1>6. \A l \in Places : upstream[l].changed <= now
  BY <1>1, <1>4
<1>7. CopiesAreOld /\ RoundIsComplete /\ NoChangeForgotten
  BY <1>5 DEF CopiesAreOld, RoundIsComplete, NoChangeForgotten
<1>8. QED  BY <1>1, <1>3, <1>5, <1>6, <1>7 DEF LocationsInv

\* A step that changes neither side, and takes the loop to a place where it
\* has promised nothing.
LEMMA RestKeeps ==
  ASSUME LocationsInv, now' = now, upstream' = upstream, locations' = locations,
         since' = since, missed' = missed, fetched' \in {fetched, Nothing},
         round' \notin {"store", "since"}
  PROVE  LocationsInv'
<1>1. fetched' \in [Places -> Dates]
  BY NothingIsFetched DEF LocationsInv
<1>2. CopiesAreOld'
  BY NothingIsFetched DEF LocationsInv, CopiesAreOld, NoDate
<1>3. RoundIsComplete' /\ NoChangeForgotten'
  BY DEF LocationsInv, RoundIsComplete, NoChangeForgotten, NoDate
<1>4. Times' = Times /\ Dates' = Dates /\ NoDate' = NoDate
  BY DEF Times, Dates, NoDate
<1>5. QED  BY <1>1, <1>2, <1>3, <1>4 DEF LocationsInv

\* A change of a place upstream keeps the invariant of the map.
LEMMA ChangeKeeps ==
  ASSUME LocationsInv, NEW l \in Places, Change(l)
  PROVE  LocationsInv'
<1>1. PICK listed \in BOOLEAN : upstream' = [upstream EXCEPT ![l] = Place(now, listed)]
  BY DEF Change
<1>2. /\ now' = now /\ locations' = locations /\ since' = since
      /\ fetched' = fetched /\ round' = round /\ now > upstream[l].changed
      /\ missed \subseteq missed'
      /\ round \in {"store", "since"} => l \in missed'
  BY DEF Change
<1>3. /\ upstream' \in [Places -> [changed : Times, listed : BOOLEAN]]
      /\ upstream'[l].changed = now
      /\ \A m \in Places : m # l => upstream'[m] = upstream[m]
  BY <1>1 DEF LocationsInv, Place
<1>4. /\ now \in Nat
      /\ \A m \in Places : upstream[m].changed \in Nat /\ upstream'[m].changed \in Nat
  BY <1>3, NoDateIsNoTime DEF LocationsInv
<1>5. \A m \in Places : upstream'[m].changed <= now
  BY <1>3, <1>4 DEF LocationsInv
<1>6. CopiesAreOld'
  <2>1. \A m \in Places : locations[m] \in Nat /\ fetched[m] \in Nat
    BY NoDateIsNoTime DEF LocationsInv, Dates
  <2>2. \A m \in Places : upstream[m].changed <= upstream'[m].changed
    BY <1>2, <1>3, <1>4
  <2>3. QED  BY <1>2, <1>4, <2>1, <2>2 DEF LocationsInv, CopiesAreOld, NoDate
<1>7. RoundIsComplete'
  BY <1>2, <1>3 DEF LocationsInv, RoundIsComplete, NoDate
<1>8. NoChangeForgotten'
  BY <1>2, <1>3 DEF LocationsInv, NoChangeForgotten, NoDate
<1>9. QED
  BY <1>2, <1>3, <1>5, <1>6, <1>7, <1>8 DEF LocationsInv, Times, Dates, NoDate

\* So does the answer of btcmap to a round.
LEMMA FetchesKeeps ==
  ASSUME LocationsInv, Fetches
  PROVE  LocationsInv'
<1>1. /\ now' = now /\ upstream' = upstream /\ locations' = locations
      /\ since' = since /\ missed' = missed /\ round' = "store" /\ fetched' = Answer
  BY DEF Fetches
<1>2. Answer \in [Places -> Dates]
  BY DEF Answer, LocationsInv, Dates
<1>3. \A l \in Places : Answer[l] \in {NoDate, upstream[l].changed}
  BY DEF Answer
<1>4. \A l \in Places : upstream[l].listed /\ l \notin missed =>
        \/ Answer[l] = upstream[l].changed
        \/ Answer[l] = NoDate /\ locations[l] = upstream[l].changed
  BY DEF Answer, LocationsInv, NoChangeForgotten
<1>5. CopiesAreOld'
  BY <1>1, <1>3, NoDateIsNoTime DEF LocationsInv, CopiesAreOld, NoDate
<1>6. RoundIsComplete' /\ NoChangeForgotten'
  BY <1>1, <1>4 DEF LocationsInv, RoundIsComplete, NoChangeForgotten, NoDate
<1>7. QED  BY <1>1, <1>2, <1>5, <1>6 DEF LocationsInv, Times, Dates, NoDate

\* So does the write of the places of a round.
LEMMA StoresLocationsKeeps ==
  ASSUME LocationsInv, StoresLocations
  PROVE  LocationsInv'
<1>1. /\ now' = now /\ upstream' = upstream /\ since' = since /\ round = "store"
      /\ round' = "since" /\ fetched' = Nothing /\ locations' = Merged
      /\ missed' = missed \ Current(fetched)
  BY DEF StoresLocations
<1>2. \A l \in Places : Merged[l] \in {fetched[l], locations[l]}
  BY DEF Merged
<1>3. Merged \in [Places -> Dates]
  BY DEF Merged, LocationsInv
<1>4. CopiesAreOld'
  BY <1>1, <1>2, NothingIsFetched DEF LocationsInv, CopiesAreOld, NoDate
<1>5. ASSUME NEW l \in Places, upstream[l].listed, l \notin missed'
      PROVE  Merged[l] = upstream[l].changed
  <2>1. \/ fetched[l] = upstream[l].changed
        \/ fetched[l] = NoDate /\ locations[l] = upstream[l].changed
    BY <1>1, <1>5 DEF Current, LocationsInv, RoundIsComplete
  <2>2. /\ upstream[l].changed \in Nat /\ upstream[l].changed < NoDate
        /\ locations[l] \in Nat
        /\ locations[l] # NoDate => ~(locations[l] > upstream[l].changed)
    BY NoDateIsNoTime DEF LocationsInv, Dates, CopiesAreOld
  <2>3. QED  BY <2>1, <2>2, NoDateIsNoTime DEF Merged
<1>6. RoundIsComplete' /\ NoChangeForgotten'
  BY <1>1, <1>5 DEF RoundIsComplete, NoChangeForgotten
<1>7. QED
  BY <1>1, <1>3, <1>4, <1>6, NothingIsFetched DEF LocationsInv, Times, Dates, NoDate

\* So does that write when Redis refuses it.
LEMMA LosesLocationsKeeps ==
  ASSUME LocationsInv, LosesLocations
  PROVE  LocationsInv'
<1>1. /\ now' = now /\ upstream' = upstream /\ since' = since /\ round = "store"
      /\ round' = "since" /\ fetched' = Nothing /\ locations' = locations
      /\ missed \subseteq missed'
      /\ \A l \in Places : fetched[l] # NoDate => l \in missed'
  BY DEF LosesLocations
<1>2. CopiesAreOld'
  BY <1>1, NothingIsFetched DEF LocationsInv, CopiesAreOld, NoDate
<1>3. ASSUME NEW l \in Places, upstream[l].listed, l \notin missed'
      PROVE  locations[l] = upstream[l].changed
  <2>1. fetched[l] = NoDate /\ l \notin missed
    BY <1>1, <1>3
  <2>2. upstream[l].changed # NoDate
    BY NoDateIsNoTime DEF LocationsInv
  <2>3. QED  BY <1>1, <1>3, <2>1, <2>2 DEF LocationsInv, RoundIsComplete
<1>4. RoundIsComplete' /\ NoChangeForgotten'
  BY <1>1, <1>3 DEF RoundIsComplete, NoChangeForgotten
<1>5. QED
  BY <1>1, <1>2, <1>4, NothingIsFetched DEF LocationsInv, Times, Dates, NoDate

\* So does the write, or the loss, of the date the next round asks from.
LEMMA StoresSinceKeeps ==
  ASSUME LocationsInv, StoresSince
  PROVE  LocationsInv'
<1>1. /\ now' = now /\ upstream' = upstream /\ locations' = locations
      /\ fetched' = fetched /\ missed' = missed /\ round = "since"
      /\ round' = "timer" /\ since' \in {since, now}
  BY DEF StoresSince, Sleeps
<1>2. since' \in Dates /\ (since' # NoDate => since' <= now)
  BY <1>1, NoDateIsNoTime DEF LocationsInv, Dates
<1>3. RoundIsComplete' /\ CopiesAreOld'
  BY <1>1 DEF LocationsInv, RoundIsComplete, CopiesAreOld, NoDate
<1>4. NoChangeForgotten'
  BY <1>1 DEF LocationsInv, RoundIsComplete, NoChangeForgotten
<1>5. QED  BY <1>1, <1>2, <1>3, <1>4 DEF LocationsInv, Times, Dates, NoDate

\* So does the clock.
LEMMA LocationsTickKeeps ==
  ASSUME LocationsInv, LocationsTick
  PROVE  LocationsInv'
<1>1. /\ now \in Nat /\ now' = now + 1 /\ now' \in Times
      /\ upstream' = upstream /\ locations' = locations /\ since' = since
      /\ fetched' = fetched /\ missed' = missed /\ round' = round
  BY MaxTimeAssumption DEF LocationsTick, Tick, LocationsInv, Times
<1>2. since \in Nat /\ \A l \in Places : upstream[l].changed \in Nat
  BY NoDateIsNoTime DEF LocationsInv, Dates
<1>3. /\ since # NoDate => since <= now'
      /\ \A l \in Places : upstream[l].changed <= now'
  BY <1>1, <1>2 DEF LocationsInv
<1>4. CopiesAreOld' /\ RoundIsComplete' /\ NoChangeForgotten'
  BY <1>1 DEF LocationsInv, CopiesAreOld, RoundIsComplete, NoChangeForgotten, NoDate
<1>5. QED  BY <1>1, <1>3, <1>4 DEF LocationsInv, Times, Dates, NoDate

\* Every step of the map of places keeps its invariant.
LEMMA LocationsKeep == LocationsInv /\ [LocationsNext]_locationsVars => LocationsInv'
<1> SUFFICES ASSUME LocationsInv, [LocationsNext]_locationsVars PROVE LocationsInv'
  OBVIOUS
<1>1. CASE StartsRound
  BY <1>1, RestKeeps DEF StartsRound
<1>2. CASE RoundFails
  BY <1>2, RestKeeps DEF RoundFails, Sleeps
<1>3. CASE ServerStops \/ ServerStarts
  BY <1>3, RestKeeps DEF ServerStops, ServerStarts
<1>4. CASE UNCHANGED locationsVars
  BY <1>4 DEF locationsVars, LocationsInv, CopiesAreOld, RoundIsComplete,
              NoChangeForgotten, Times, Dates, NoDate
<1>5. QED
  BY <1>1, <1>2, <1>3, <1>4, ChangeKeeps, FetchesKeeps, StoresLocationsKeeps,
     LosesLocationsKeeps, StoresSinceKeeps, LocationsTickKeeps
  DEF LocationsNext

\* No change of a place is lost by rounds that break off or by restarts, only
\* by an edit between answer and date and by a write that failed, for any
\* places and any interval (locations.ts:19-63).
THEOREM ChangesAreKept == LocationsSpec => []NoChangeForgotten
<1>1. LocationsInv => NoChangeForgotten
  BY DEF LocationsInv
<1>2. QED  BY LocationsStart, LocationsKeep, <1>1, PTL DEF LocationsSpec

-----------------------------------------------------------------------------
(* The accounts *)

\* What a request in state w has in hand, given the records: the account u it is
\* about is there (but for a registration).
Holds(w, u, rec, n, a, recs) ==
    /\ w = "registering" => u \in Ids /\ rec \in Record /\ n \in Names
    /\ w \notin {"idle", "registering"} => u \in Ids /\ recs[u] # None /\ rec \in Record
    /\ w \in {"renaming", "naming"} => n \in Names
    /\ w \in {"requesting", "sending", "verifying", "indexing"} => a \in Emails

InHand == \A r \in Requests : Holds(pc[r], who[r], held[r], wants[r], mailed[r], records)

\* What the steps but for the ghost keep.
Typed ==
    /\ records \in [Ids -> Record \cup {None}]
    /\ nameOf \in [Names -> Ids \cup {None}]
    /\ emailOf \in [Emails -> Ids \cup {None}]
    /\ codes \subseteq Ids \X Emails
    /\ resets \subseteq Ids \X (Emails \cup {None})
    /\ pc \in [Requests -> States]
    /\ who \in [Requests -> Ids \cup {None}]
    /\ held \in [Requests -> Record \cup {None}]
    /\ wants \in [Requests -> Names \cup {None}]
    /\ mailed \in [Requests -> Emails \cup {None}]

HandInv == Typed /\ InHand /\ NamesResolve

\* The inductive invariant.
AccountInv == HandInv /\ spoiled \subseteq Names

TypedKeys ==
    /\ records \in [Ids -> Record \cup {None}]
    /\ nameOf \in [Names -> Ids \cup {None}]
    /\ emailOf \in [Emails -> Ids \cup {None}]
    /\ codes \subseteq Ids \X Emails
    /\ resets \subseteq Ids \X (Emails \cup {None})

\* A request that moves on with a hand that fits its new state keeps the
\* invariant, if no account and no code is lost by its step: the hands of the
\* other requests stay good.
LEMMA HandsStayGood ==
    ASSUME HandInv, NEW r \in Requests,
           NEW w \in States, NEW u \in Ids \cup {None}, NEW rec \in Record \cup {None},
           NEW n \in Names \cup {None}, NEW a \in Emails \cup {None},
           Go(r, w, u, rec, n, a), TypedKeys', Holds(w, u, rec, n, a, records'),
           \A v \in Ids : records[v] # None => records'[v] # None
    PROVE  Typed' /\ InHand'
<1>1. Typed'
  BY DEF HandInv, Typed, TypedKeys, Go
<1>2. ASSUME NEW q \in Requests
      PROVE  Holds(pc'[q], who'[q], held'[q], wants'[q], mailed'[q], records')
  <2>1. CASE q = r
    <3>1. pc'[q] = w /\ who'[q] = u /\ held'[q] = rec /\ wants'[q] = n /\ mailed'[q] = a
      BY <2>1 DEF HandInv, Typed, Go
    <3>2. QED
      BY <3>1 DEF Holds
  <2>2. CASE q # r
    <3>1. /\ pc'[q] = pc[q] /\ who'[q] = who[q] /\ held'[q] = held[q]
          /\ wants'[q] = wants[q] /\ mailed'[q] = mailed[q]
      BY <2>2 DEF HandInv, Typed, Go
    <3>2. Holds(pc[q], who[q], held[q], wants[q], mailed[q], records)
      BY DEF HandInv, InHand
    <3>3. QED
      BY <3>1, <3>2 DEF Holds
  <2>3. QED
    BY <2>1, <2>2
<1>3. QED
  BY <1>1, <1>2 DEF InHand

\* Going idle, with the keys well typed and nothing lost.
LEMMA EndingIsGood ==
    ASSUME HandInv, NEW r \in Requests, End(r), TypedKeys',
           \A v \in Ids : records[v] # None => records'[v] # None
    PROVE  Typed' /\ InHand'
<1>1. Holds("idle", None, None, None, None, records')
  BY DEF Holds
<1>2. "idle" \in States
  BY DEF States
<1>3. QED
  BY <1>1, <1>2, HandsStayGood DEF End

\* Storing a record in hand loses no account.
LEMMA StoringKeepsAccounts ==
    ASSUME HandInv, NEW r \in Requests, who[r] \in Ids, held[r] \in Record,
           Stored(r) \/ records' = [records EXCEPT ![who[r]] = held[r]]
    PROVE  /\ records' \in [Ids -> Record \cup {None}]
           /\ \A v \in Ids : records[v] # None => records'[v] # None
BY AccountsAssumption DEF HandInv, Typed, Stored

\* The indexes stay sound in a step that leaves them alone and loses nothing.
LEMMA IndexesStaySound ==
    ASSUME HandInv, UNCHANGED <<nameOf, emailOf>>,
           \A v \in Ids : records[v] # None => records'[v] # None
    PROVE  NamesResolve' 
BY AccountsAssumption DEF HandInv, Typed, NamesResolve

\* The accounts start in their invariant.
LEMMA Initially == Init => HandInv
<1> SUFFICES ASSUME Init PROVE HandInv
  OBVIOUS
<1>1. Typed
  BY DEF Init, Typed, States
<1>2. InHand
  BY DEF Init, InHand, Holds
<1>3. NamesResolve 
  BY DEF Init, NamesResolve
<1>4. QED
  BY <1>1, <1>2, <1>3 DEF HandInv

\* A step that changes no key and hands on a good hand.
LEMMA MovingOnIsGood ==
    ASSUME HandInv, NEW r \in Requests, UNCHANGED keys,
           NEW w \in States, NEW u \in Ids \cup {None}, NEW rec \in Record \cup {None},
           NEW n \in Names \cup {None}, NEW a \in Emails \cup {None},
           Go(r, w, u, rec, n, a), Holds(w, u, rec, n, a, records)
    PROVE  HandInv'
<1>1. TypedKeys'
  BY DEF HandInv, Typed, TypedKeys, keys
<1>2. Holds(w, u, rec, n, a, records')
  BY DEF Holds, keys
<1>3. Typed' /\ InHand'
  BY <1>1, <1>2, HandsStayGood DEF keys
<1>4. NamesResolve' 
  BY IndexesStaySound DEF keys
<1>5. QED
  BY <1>3, <1>4 DEF HandInv

\* What the invariant says of one request.
LEMMA HandOf ==
    ASSUME HandInv, NEW r \in Requests
    PROVE  /\ Holds(pc[r], who[r], held[r], wants[r], mailed[r], records)
           /\ pc[r] \in States /\ who[r] \in Ids \cup {None}
           /\ held[r] \in Record \cup {None} /\ wants[r] \in Names \cup {None}
           /\ mailed[r] \in Emails \cup {None}
BY DEF HandInv, InHand, Typed

\* Requests that start: they read a record.
LEMMA Beginnings ==
    ASSUME HandInv, NEW r \in Requests, NEW u \in Ids,
           \/ UpdateBegins(r, u) \/ EditBegins(r, u) \/ ResetBegins(r, u)
           \/ \E n \in Names : RegisterChecks(r, u, n)
           \/ \E a \in Emails : RequestChecks(r, u, a) \/ VerifyBegins(r, u, a)
    PROVE  HandInv'
<1>1. records[u] \in Record \cup {None}
  BY DEF HandInv, Typed
<1>2. ASSUME NEW n \in Names, RegisterChecks(r, u, n)
      PROVE  HandInv'
  <2>1. NewRecord(n) \in Record
    BY DEF NewRecord, Record
  <2>2. Holds("registering", u, NewRecord(n), n, None, records)
    BY <2>1 DEF Holds
  <2>3. Go(r, "registering", u, NewRecord(n), n, None) /\ UNCHANGED keys
    BY <1>2 DEF RegisterChecks
  <2>4. QED
    BY <2>1, <2>2, <2>3, MovingOnIsGood DEF States
<1>3. CASE UpdateBegins(r, u)
  <2>1. Holds("checking", u, records[u], None, None, records)
    BY <1>1, <1>3 DEF Holds, UpdateBegins
  <2>2. Go(r, "checking", u, records[u], None, None) /\ UNCHANGED keys
    BY <1>3 DEF UpdateBegins
  <2>3. QED
    BY <1>1, <2>1, <2>2, MovingOnIsGood DEF States
<1>4. CASE EditBegins(r, u)
  <2>1. Holds("storing", u, records[u], None, None, records)
    BY <1>1, <1>4 DEF Holds, EditBegins
  <2>2. Go(r, "storing", u, records[u], None, None) /\ UNCHANGED keys
    BY <1>4 DEF EditBegins
  <2>3. QED
    BY <1>1, <2>1, <2>2, MovingOnIsGood DEF States
<1>5. CASE ResetBegins(r, u)
  <2>1. Holds("clearing", u, records[u], None, None, records)
    BY <1>1, <1>5 DEF Holds, ResetBegins
  <2>2. Go(r, "clearing", u, records[u], None, None) /\ UNCHANGED keys
    BY <1>5 DEF ResetBegins
  <2>3. QED
    BY <1>1, <2>1, <2>2, MovingOnIsGood DEF States
<1>6. ASSUME NEW a \in Emails, RequestChecks(r, u, a)
      PROVE  HandInv'
  <2> DEFINE w == IF a = records[u].email THEN "sending" ELSE "requesting"
             rec == [records[u] EXCEPT !.verified = @ /\ a = records[u].email]
  <2>1. records[u] \in Record
    BY <1>1, <1>6 DEF RequestChecks
  <2>2. (records[u].verified /\ a = records[u].email) \in BOOLEAN
    OBVIOUS
  <2>3. rec \in Record
    BY <2>1, <2>2 DEF Record
  <2>4. w \in {"sending", "requesting"}
    OBVIOUS
  <2>5. Go(r, w, u, rec, None, a) /\ UNCHANGED keys /\ records[u] # None
    BY <1>6 DEF RequestChecks
  <2> HIDE DEF w, rec
  <2>6. Holds(w, u, rec, None, a, records)
    BY <2>3, <2>4, <2>5 DEF Holds
  <2>7. w \in States
    BY <2>4 DEF States
  <2>8. QED
    BY <2>3, <2>5, <2>6, <2>7, MovingOnIsGood
<1>7. ASSUME NEW a \in Emails, VerifyBegins(r, u, a)
      PROVE  HandInv'
  <2> DEFINE rec == [records[u] EXCEPT !.email = a, !.verified = TRUE]
  <2>1. records[u] \in Record
    BY <1>1, <1>7 DEF VerifyBegins
  <2>2. rec \in Record
    BY <2>1 DEF Record
  <2>3. Go(r, "verifying", u, rec, None, a) /\ UNCHANGED keys
        /\ records[u] # None /\ <<u, a>> \in codes
    BY <1>7 DEF VerifyBegins
  <2> HIDE DEF rec
  <2>4. Holds("verifying", u, rec, None, a, records)
    BY <2>2, <2>3 DEF Holds
  <2>5. "verifying" \in States
    BY DEF States
  <2>6. QED
    BY <2>2, <2>3, <2>4, <2>5, MovingOnIsGood
<1>8. QED
  BY <1>2, <1>3, <1>4, <1>5, <1>6, <1>7

\* The name and the flags of an update: no account is touched until it stores.
LEMMA Updates ==
    ASSUME HandInv, NEW r \in Requests,
           \/ \E n \in Names : UpdateChecks(r, n)
           \/ UpdateDeletesName(r) \/ UpdateKeepsName(r) \/ UpdateSetsName(r)
           \/ NameNotSet(r)
    PROVE  HandInv'
<1>1. ASSUME NEW n \in Names, UpdateChecks(r, n)
      PROVE  HandInv'
  <2>1. CASE nameOf[n] # None /\ n # held[r].name
    <3>1. Go(r, "idle", None, None, None, None) /\ UNCHANGED keys
      BY <1>1, <2>1 DEF UpdateChecks, End
    <3>2. Holds("idle", None, None, None, None, records)
      BY DEF Holds
    <3>3. QED
      BY <3>1, <3>2, MovingOnIsGood DEF States
  <2>2. CASE ~(nameOf[n] # None /\ n # held[r].name)
    <3>1. Go(r, "renaming", who[r], held[r], n, None) /\ UNCHANGED keys /\ pc[r] = "checking"
      BY <1>1, <2>2 DEF UpdateChecks
    <3>2. Holds("renaming", who[r], held[r], n, None, records)
      BY <3>1, HandOf DEF Holds
    <3>3. QED
      BY <3>1, <3>2, HandOf, MovingOnIsGood DEF States
  <2>3. QED
    BY <2>1, <2>2
<1>2. CASE UpdateDeletesName(r)
  <2>1. PICK a \in Emails \cup {held[r].email} :
          Go(r, "naming", who[r], [held[r] EXCEPT !.name = wants[r], !.email = a],
             wants[r], None)
    BY <1>2 DEF UpdateDeletesName
  <2> DEFINE rec == [held[r] EXCEPT !.name = wants[r], !.email = a]
  <2>2. /\ who[r] \in Ids /\ records[who[r]] # None
        /\ held[r] \in Record /\ wants[r] \in Names
    BY <1>2, HandOf DEF Holds, UpdateDeletesName
  <2>3. rec \in Record
    BY <2>2 DEF Record
  <2> HIDE DEF rec
  <2>4. Holds("naming", who[r], rec, wants[r], None, records')
    BY <1>2, <2>2, <2>3 DEF Holds, UpdateDeletesName
  <2>5. nameOf' = [nameOf EXCEPT ![held[r].name] = None]
        /\ UNCHANGED <<records, emailOf, codes, resets>>
    BY <1>2 DEF UpdateDeletesName
  <2>6. TypedKeys'
    BY <2>5 DEF HandInv, Typed, TypedKeys
  <2>7. Go(r, "naming", who[r], rec, wants[r], None)
    BY <2>1 DEF rec
  <2>8. Typed' /\ InHand'
    BY <2>2, <2>3, <2>4, <2>5, <2>6, <2>7, HandsStayGood DEF States
  <2>9. NamesResolve' 
    BY <2>5 DEF HandInv, Typed, NamesResolve
  <2>10. QED
    BY <2>8, <2>9 DEF HandInv
<1>3. CASE UpdateKeepsName(r)
  <2>1. PICK a \in Emails \cup {held[r].email} :
          Go(r, "naming", who[r], [held[r] EXCEPT !.email = a], held[r].name, None)
    BY <1>3 DEF UpdateKeepsName
  <2> DEFINE rec == [held[r] EXCEPT !.email = a]
  <2>2. who[r] \in Ids /\ records[who[r]] # None /\ held[r] \in Record
    BY <1>3, HandOf DEF Holds, UpdateKeepsName
  <2>3. rec \in Record /\ held[r].name \in Names
    BY <2>2 DEF Record
  <2>4. Go(r, "naming", who[r], rec, held[r].name, None)
    BY <2>1
  <2> HIDE DEF rec
  <2>5. Holds("naming", who[r], rec, held[r].name, None, records)
    BY <2>2, <2>3 DEF Holds
  <2>6. UNCHANGED keys
    BY <1>3 DEF UpdateKeepsName
  <2>7. QED
    BY <2>2, <2>3, <2>4, <2>5, <2>6, MovingOnIsGood DEF States
<1>4. CASE UpdateSetsName(r) \/ NameNotSet(r)
  <2>1. /\ who[r] \in Ids /\ records[who[r]] # None
        /\ held[r] \in Record /\ wants[r] \in Names
    BY <1>4, HandOf DEF Holds, UpdateSetsName, NameNotSet
  <2>2. /\ nameOf' = [nameOf EXCEPT ![wants[r]] = who[r]] \/ UNCHANGED nameOf
        /\ Go(r, "storing", who[r], held[r], None, None)
        /\ UNCHANGED <<records, emailOf, codes, resets>>
    BY <1>4 DEF UpdateSetsName, NameNotSet, keys
  <2>3. TypedKeys'
    BY <2>1, <2>2 DEF HandInv, Typed, TypedKeys
  <2>4. Holds("storing", who[r], held[r], None, None, records')
    BY <2>1, <2>2 DEF Holds
  <2>5. Typed' /\ InHand'
    BY <2>1, <2>2, <2>3, <2>4, HandsStayGood DEF States
  <2>6. NamesResolve' 
    BY <2>1, <2>2 DEF HandInv, Typed, NamesResolve
  <2>7. QED
    BY <2>5, <2>6 DEF HandInv
<1>5. QED
  BY <1>1, <1>2, <1>3, <1>4

\* Steps that write a record (or try to) and may go on with it in hand.
LEMMA RecordWrites ==
    ASSUME HandInv, NEW r \in Requests,
           \/ RegisterStores(r) \/ Stores(r) \/ ResetStores(r)
           \/ RequestStores(r) \/ VerifyStores(r)
    PROVE  HandInv'
<1>1. /\ who[r] \in Ids /\ held[r] \in Record
      /\ pc[r] \in {"requesting", "verifying"} => mailed[r] \in Emails
      /\ pc[r] = "registering" => wants[r] \in Names
      /\ pc[r] # "registering" => records[who[r]] # None
  BY HandOf DEF Holds, RegisterStores, Stores, ResetStores, RequestStores, VerifyStores
<1>2. Stored(r) \/ records' = [records EXCEPT ![who[r]] = held[r]]
  BY DEF RegisterStores, Stores, ResetStores, RequestStores, VerifyStores
<1>3. /\ records' \in [Ids -> Record \cup {None}]
      /\ \A v \in Ids : records[v] # None => records'[v] # None
  BY <1>1, <1>2, StoringKeepsAccounts
<1>4. CASE RegisterStores(r)
  <2>1. /\ records' = [records EXCEPT ![who[r]] = held[r]]
        /\ nameOf' = [nameOf EXCEPT ![wants[r]] = who[r]]
        /\ End(r) \/ Go(r, "storing", who[r], held[r], None, None)
        /\ UNCHANGED <<emailOf, codes, resets>> /\ pc[r] = "registering"
    BY <1>4 DEF RegisterStores
  <2>2. TypedKeys'
    BY <1>1, <1>3, <2>1 DEF HandInv, Typed, TypedKeys
  <2>3. records'[who[r]] # None
    BY <1>1, <2>1, AccountsAssumption DEF HandInv, Typed
  <2>4. Holds("storing", who[r], held[r], None, None, records')
    BY <1>1, <2>3 DEF Holds
  <2>5. NamesResolve' 
    BY <1>1, <1>3, <2>1, <2>3 DEF HandInv, Typed, NamesResolve
  <2>6. CASE End(r)
    <3>1. Typed' /\ InHand'
      BY <1>3, <2>1, <2>2, <2>6, EndingIsGood
    <3>2. QED
      BY <2>5, <3>1 DEF HandInv
  <2>7. CASE Go(r, "storing", who[r], held[r], None, None)
    <3>1. Typed' /\ InHand'
      BY <1>1, <1>3, <2>1, <2>2, <2>4, <2>7, HandsStayGood DEF States
    <3>2. QED
      BY <2>5, <3>1 DEF HandInv
  <2>8. QED
    BY <2>1, <2>6, <2>7
<1>5. CASE Stores(r) \/ ResetStores(r)
  <2>1. End(r) /\ UNCHANGED <<nameOf, emailOf, codes>> /\ resets' \subseteq resets
    BY <1>5 DEF Stores, ResetStores
  <2>2. TypedKeys'
    BY <1>3, <2>1 DEF HandInv, Typed, TypedKeys
  <2>3. QED
    BY <1>3, <2>1, <2>2, EndingIsGood, IndexesStaySound DEF HandInv
<1>6. CASE RequestStores(r)
  <2>1. /\ Go(r, "sending", who[r], held[r], None, mailed[r])
        /\ UNCHANGED <<nameOf, emailOf, codes, resets>> /\ pc[r] = "requesting"
    BY <1>6 DEF RequestStores
  <2>2. TypedKeys'
    BY <1>3, <2>1 DEF HandInv, Typed, TypedKeys
  <2>3. Holds("sending", who[r], held[r], None, mailed[r], records')
    BY <1>1, <1>3, <2>1 DEF Holds
  <2>4. Typed' /\ InHand'
    BY <1>1, <1>3, <2>1, <2>2, <2>3, HandsStayGood DEF States
  <2>5. QED
    BY <1>3, <2>1, <2>4, IndexesStaySound DEF HandInv
<1>7. CASE VerifyStores(r)
  <2>1. /\ Go(r, "indexing", who[r], held[r], None, mailed[r])
        /\ UNCHANGED <<nameOf, emailOf, codes, resets>> /\ pc[r] = "verifying"
    BY <1>7 DEF VerifyStores
  <2>2. TypedKeys'
    BY <1>3, <2>1 DEF HandInv, Typed, TypedKeys
  <2>3. Holds("indexing", who[r], held[r], None, mailed[r], records')
    BY <1>1, <1>3, <2>1 DEF Holds
  <2>4. Typed' /\ InHand'
    BY <1>1, <1>3, <2>1, <2>2, <2>3, HandsStayGood DEF States
  <2>5. QED
    BY <1>3, <2>1, <2>4, IndexesStaySound DEF HandInv
<1>8. QED
  BY <1>4, <1>5, <1>6, <1>7

\* Steps that end a request, and those that no request makes.
LEMMA OtherSteps ==
    ASSUME HandInv,
           \/ \E r \in Requests : Throws(r) \/ RecordNotStored(r) \/ RequestSends(r) \/ VerifyIndexes(r)
           \/ \E a \in Emails : Forgot(a)
           \/ \E u \in Ids : ResetExpires(u)
    PROVE  HandInv'
<1>1. ASSUME NEW r \in Requests, Throws(r) \/ RecordNotStored(r)
      PROVE  HandInv'
  <2>1. End(r) /\ UNCHANGED keys
    BY <1>1 DEF Throws, RecordNotStored
  <2>2. TypedKeys'
    BY <2>1 DEF HandInv, Typed, TypedKeys, keys
  <2>3. QED
    BY <2>1, <2>2, EndingIsGood, IndexesStaySound DEF HandInv, keys
<1>2. ASSUME NEW r \in Requests, RequestSends(r)
      PROVE  HandInv'
  <2>1. who[r] \in Ids /\ mailed[r] \in Emails
    BY <1>2, HandOf DEF Holds, RequestSends
  <2>2. /\ End(r) /\ UNCHANGED <<records, nameOf, emailOf, resets>>
        /\ codes' = codes \cup {<<who[r], mailed[r]>>} \/ codes' = codes
    BY <1>2 DEF RequestSends
  <2>3. TypedKeys'
    BY <2>1, <2>2 DEF HandInv, Typed, TypedKeys
  <2>4. QED
    BY <2>2, <2>3, EndingIsGood, IndexesStaySound DEF HandInv
<1>3. ASSUME NEW r \in Requests, VerifyIndexes(r)
      PROVE  HandInv'
  <2>1. who[r] \in Ids /\ mailed[r] \in Emails
    BY <1>3, HandOf DEF Holds, VerifyIndexes
  <2>2. /\ End(r) /\ UNCHANGED <<records, nameOf, codes, resets>>
        /\ emailOf' = [emailOf EXCEPT ![mailed[r]] = who[r]] \/ UNCHANGED emailOf
    BY <1>3 DEF VerifyIndexes
  <2>3. TypedKeys'
    BY <2>1, <2>2 DEF HandInv, Typed, TypedKeys
  <2>4. NamesResolve' 
    BY <2>1, <2>2 DEF HandInv, Typed, NamesResolve
  <2>5. QED
    BY <2>2, <2>3, <2>4, EndingIsGood DEF HandInv
<1>4. ASSUME \/ \E a \in Emails : Forgot(a)
             \/ \E u \in Ids : ResetExpires(u)
      PROVE  HandInv'
  <2>1. /\ UNCHANGED <<records, nameOf, emailOf, codes, pc, who, held, wants, mailed>>
        /\ resets' \subseteq Ids \X (Emails \cup {None})
    <3>1. ASSUME NEW a \in Emails, Forgot(a)
          PROVE  resets' \subseteq Ids \X (Emails \cup {None})
      <4>1. emailOf[a] \in Ids /\ records[emailOf[a]] \in Record
        BY <3>1 DEF HandInv, Typed, Forgot
      <4>2. records[emailOf[a]].email \in Emails \cup {None}
        BY <4>1 DEF Record
      <4>3. QED
        BY <3>1, <4>1, <4>2 DEF HandInv, Typed, Forgot
    <3>2. QED
      BY <1>4, <3>1 DEF HandInv, Typed, Forgot, ResetExpires
  <2>2. Typed'
    BY <2>1 DEF HandInv, Typed
  <2>3. InHand' /\ NamesResolve' 
    BY <2>1 DEF HandInv, InHand, Holds, NamesResolve
  <2>4. QED
    BY <2>2, <2>3 DEF HandInv
<1>5. QED
  BY <1>1, <1>2, <1>3, <1>4

\* Every step on the accounts keeps their invariant.
LEMMA EveryStep == HandInv /\ [Next]_vars => HandInv'
<1> SUFFICES ASSUME HandInv, [Next]_vars PROVE HandInv'
  OBVIOUS
<1>1. CASE Next
  <2>1. ASSUME NEW r \in Requests,
               \/ Fails(r) \/ RegisterStores(r) \/ UpdateDeletesName(r)
               \/ UpdateKeepsName(r) \/ UpdateSetsName(r) \/ Stores(r)
               \/ ResetStores(r) \/ RequestStores(r) \/ RequestSends(r)
               \/ VerifyStores(r) \/ VerifyIndexes(r)
               \/ \E n \in Names : UpdateChecks(r, n)
        PROVE  HandInv'
    <3>1. CASE UpdateDeletesName(r) \/ UpdateKeepsName(r) \/ UpdateSetsName(r)
               \/ NameNotSet(r)
               \/ \E n \in Names : UpdateChecks(r, n)
      BY <3>1, Updates
    <3>2. CASE RegisterStores(r) \/ Stores(r) \/ ResetStores(r)
               \/ RequestStores(r) \/ VerifyStores(r)
      BY <3>2, RecordWrites
    <3>3. CASE Throws(r) \/ RecordNotStored(r) \/ RequestSends(r) \/ VerifyIndexes(r)
      BY <3>3, OtherSteps
    <3>4. QED
      BY <2>1, <3>1, <3>2, <3>3 DEF Fails
  <2>2. ASSUME NEW r \in Requests, NEW u \in Ids,
               \/ UpdateBegins(r, u) \/ EditBegins(r, u) \/ ResetBegins(r, u)
               \/ \E n \in Names : RegisterChecks(r, u, n)
               \/ \E a \in Emails : RequestChecks(r, u, a) \/ VerifyBegins(r, u, a)
        PROVE  HandInv'
    BY <2>2, Beginnings
  <2>3. CASE (\E a \in Emails : Forgot(a)) \/ (\E u \in Ids : ResetExpires(u))
    BY <2>3, OtherSteps
  <2>4. QED
    BY <1>1, <2>1, <2>2, <2>3 DEF Next, Goes
<1>2. CASE UNCHANGED vars
  BY <1>2 DEF HandInv, Typed, InHand, Holds, NamesResolve, vars
<1>3. QED
  BY <1>1, <1>2

\* The keys of the accounts, and what each registration, update and confirmation
\* (users.ts, lib/register.ts) holds of them between its commands, always agree.
THEOREM AccountsInvariance == Spec => []AccountInv
<1>1. Init => AccountInv
  BY Initially DEF AccountInv, Init
<1>2. AccountInv /\ [Next]_vars => AccountInv'
  BY EveryStep DEF AccountInv, Next, vars, Disputed, HalfDone, NamesOf
<1>3. QED
  BY <1>1, <1>2, PTL DEF Spec

\* The keys and the requests keep their types.
THEOREM AccountsTypeCorrect == Spec => []TypeOK
<1>1. AccountInv => TypeOK
  BY DEF AccountInv, HandInv, Typed, TypeOK
<1>2. QED
  BY <1>1, AccountsInvariance, PTL

\* user:<username> never leads to a record that is not there, for any number
\* of registrations and renamings that overlap or fail half way.
THEOREM NamesLeadToAccounts == Spec => []NamesResolve
<1>1. AccountInv => NamesResolve
  BY DEF AccountInv, HandInv
<1>2. QED
  BY <1>1, AccountsInvariance, PTL

-----------------------------------------------------------------------------
(* Induction, and recursive definitions *)

\* Induction without an operator for the predicate: sets of numbers stand for it.
Below == {p \in Nat \X Nat : p[1] < p[2]}

\* A set of numbers that is not empty has a least element, because < is well
\* founded.
LEMMA LeastNat ==
    ASSUME NEW T, T \subseteq Nat, T # {}
    PROVE  \E n \in T : \A m \in T : n <= m
  <1>1. IsWellFoundedOn(Below, Nat)
    BY NatLessThanWellFounded DEF OpToRel, Below
  <1>2. PICK n \in T : \A m \in T : ~(<<m, n>> \in Below)
    BY ONLY <1>1, T \subseteq Nat, T # {}, WFMin
  <1>3. ASSUME NEW m \in T PROVE n <= m
    <2>1. m \in Nat /\ n \in Nat  OBVIOUS
    <2>2. m < n => <<m, n>> \in Below  BY <2>1 DEF Below
    <2>3. QED  BY <2>1, <2>2, <1>2
  <1>4. QED  BY <1>3

\* A set that has 0, and has n when it has n - 1, has the numbers up to N.
LEMMA Induction ==
    ASSUME NEW N \in Nat, NEW T, 0 \in T, \A n \in 1..N : n - 1 \in T => n \in T
    PROVE  0..N \subseteq T
  <1> DEFINE Bad == {n \in 0..N : n \notin T}
  <1>1. SUFFICES ASSUME Bad # {} PROVE FALSE  OBVIOUS
  <1>2. PICK n \in Bad : \A m \in Bad : n <= m
    <2>1. Bad \subseteq Nat  OBVIOUS
    <2> HIDE DEF Bad
    <2>2. QED  BY <1>1, <2>1, LeastNat
  <1>3. n # 0 /\ n \in 1..N  BY <1>2
  <1>4. n - 1 \notin Bad  BY <1>2, <1>3
  <1>5. QED  BY <1>3, <1>4, <1>2

\* A recursive definition over 0..N, as what satisfies its equations: its first
\* value, and what step makes of n and of the value before.
Iterations(N, S, first, step) ==
  {f \in [0..N -> S] : f[0] = first /\ \A n \in 1..N : f[n] = step[<<n, f[n - 1]>>]}

\* Such a function exists, so that the one the definition chooses satisfies them.
LEMMA Iterates ==
    ASSUME NEW N \in Nat, NEW S, NEW first \in S, NEW step \in [(1..N) \X S -> S]
    PROVE  Iterations(N, S, first, step) # {}
  <1> DEFINE Runs(f, n) == f[0] = first /\ \A k \in 1..n : f[k] = step[<<k, f[k - 1]>>]
             T == {n \in 0..N : \E f \in [0..n -> S] : Runs(f, n)}
  <1>1. 0 \in T
    <2> DEFINE f == [k \in 0..0 |-> first]
    <2>1. Runs(f, 0)
      <3>1. f[0] = first  OBVIOUS
      <3>2. 1..0 = {}  OBVIOUS
      <3>3. QED  BY <3>1, <3>2
    <2>2. f \in [0..0 -> S]  OBVIOUS
    <2> HIDE DEF f
    <2>3. \E h \in [0..0 -> S] : Runs(h, 0)  BY <2>1, <2>2
    <2>4. QED  BY <2>3
  <1>2. ASSUME NEW n \in 1..N, n - 1 \in T  PROVE n \in T
    <2>1. PICK f \in [0..(n - 1) -> S] : Runs(f, n - 1)  BY <1>2
    <2> DEFINE g == [k \in 0..n |-> IF k = n THEN step[<<n, f[n - 1]>>] ELSE f[k]]
    <2>2. g \in [0..n -> S]  OBVIOUS
    <2>3. ASSUME NEW k \in 1..n PROVE g[k] = step[<<k, g[k - 1]>>]
      <3>1. CASE k = n
        <4>1. n - 1 \in 0..n /\ n - 1 # n /\ n \in 0..n  OBVIOUS
        <4>2. g[n] = step[<<n, f[n - 1]>>] /\ g[n - 1] = f[n - 1]  BY <4>1
        <4>3. QED  BY <3>1, <4>2
      <3>2. CASE k # n
        <4>1. k \in 1..(n - 1) /\ k - 1 \in 0..(n-1) /\ k - 1 # n BY <3>2
        <4>2. QED  BY <4>1, <2>1
      <3>3. QED  BY <3>1, <3>2
    <2>4. g[0] = first  BY <2>1
    <2>5. Runs(g, n)  BY <2>3, <2>4
    <2> HIDE DEF g
    <2>6. \E h \in [0..n -> S] : Runs(h, n)  BY <2>2, <2>5
    <2>7. QED  BY <2>6
  <1>3. 0..N \subseteq T
    <2> HIDE DEF T
    <2>1. QED BY <1>1, <1>2, Induction
  <1>4. N \in T  BY <1>3
  <1>5. QED  BY <1>4 DEF Iterations

-----------------------------------------------------------------------------
(* Lists *)

\* A list with i put before it (lPush) has what it had, and i.
LEMMA ConsSet ==
  ASSUME NEW S, NEW q \in Seq(S), NEW i \in S
  PROVE  <<i>> \o q \in Seq(S) /\ ToSet(<<i>> \o q) = ToSet(q) \union {i}
<1> DEFINE a == <<i>> \o q
<1>1. <<i>> \in Seq(S) /\ Len(<<i>>) = 1 /\ <<i>>[1] = i  OBVIOUS
<1>2. a \in Seq(S) /\ Len(a) = Len(q) + 1 /\ DOMAIN a = 1..(Len(q) + 1)
      /\ DOMAIN q = 1..Len(q) /\ Len(q) \in Nat
  BY <1>1
<1>3. a[1] = i /\ \A n \in 1..Len(q) : a[n + 1] = q[n]
  BY <1>1
<1>4. \A n \in 1..(Len(q) + 1) : n = 1 \/ (n - 1 \in 1..Len(q) /\ a[n] = q[n - 1])
  <2>1. \A n \in 1..(Len(q) + 1) : n # 1 => n - 1 \in 1..Len(q) /\ (n - 1) + 1 = n
    BY <1>2
  <2> HIDE DEF a
  <2>2. QED  BY <2>1, <1>3
<1> HIDE DEF a
<1>5. \A n \in 1..Len(q) : n + 1 \in 1..(Len(q) + 1)  BY <1>2
<1>6. 1 \in 1..(Len(q) + 1)  BY <1>2
<1>7. ToSet(a) = ToSet(q) \union {i}
  <2>1. ToSet(a) \subseteq ToSet(q) \union {i}
    <3>1. ASSUME NEW n \in 1..(Len(q) + 1)  PROVE a[n] \in ToSet(q) \union {i}
      <4>1. CASE n = 1  BY <4>1, <1>3
      <4>2. CASE n # 1  BY <4>2, <3>1, <1>2, <1>4 DEF ToSet
      <4>3. QED  BY <4>1, <4>2
    <3>2. \A x \in ToSet(a) : \E n \in 1..(Len(q) + 1) : x = a[n]  BY <1>2 DEF ToSet
    <3>3. QED  BY <3>1, <3>2
  <2>2. ToSet(q) \union {i} \subseteq ToSet(a)  BY <1>2, <1>3, <1>5, <1>6 DEF ToSet
  <2>3. QED  BY <2>1, <2>2
<1>8. QED  BY <1>2, <1>7 DEF a

\* A list with i put behind it (rPush) has what it had, and i.
LEMMA AppendSet ==
  ASSUME NEW S, NEW q \in Seq(S), NEW i \in S
  PROVE  Append(q, i) \in Seq(S) /\ ToSet(Append(q, i)) = ToSet(q) \union {i}
<1> DEFINE a == Append(q, i)
<1>1. a \in Seq(S) /\ Len(q) \in Nat /\ DOMAIN a = 1..(Len(q) + 1) /\ DOMAIN q = 1..Len(q)
  OBVIOUS
<1>2. a[Len(q) + 1] = i /\ \A n \in 1..Len(q) : a[n] = q[n]  OBVIOUS
<1> HIDE DEF a
<1>3. 1..(Len(q) + 1) = 1..Len(q) \union {Len(q) + 1}  BY <1>1
<1>4. ToSet(a) = ToSet(q) \union {i}  BY <1>1, <1>2, <1>3 DEF ToSet
<1>5. QED  BY <1>1, <1>4 DEF a

\* A list that is not empty has its first element and what its rest has.
LEMMA HeadAndTail ==
  ASSUME NEW S, NEW q \in Seq(S), q # <<>>
  PROVE  /\ Head(q) \in S /\ Tail(q) \in Seq(S)
         /\ ToSet(q) = ToSet(Tail(q)) \union {Head(q)}
<1> DEFINE t == Tail(q)
<1>1. Head(q) \in S /\ Len(q) \in Nat \ {0} /\ Head(q) = q[1] /\ DOMAIN q = 1..Len(q)
      /\ t \in Seq(S) /\ DOMAIN t = 1..(Len(q) - 1)
  OBVIOUS
<1>2. \A n \in 1..(Len(q) - 1) : t[n] = q[n + 1]  OBVIOUS
<1> HIDE DEF t
<1>3. \A n \in 1..Len(q) : n = 1 \/ (n - 1 \in 1..(Len(q) - 1) /\ (n - 1) + 1 = n)  BY <1>1
<1>4. \A n \in 1..(Len(q) - 1) : n + 1 \in 1..Len(q)  BY <1>1
<1>5. 1 \in 1..Len(q)  BY <1>1
<1>6. ToSet(q) = ToSet(t) \union {q[1]}
  <2>1. ToSet(q) \subseteq ToSet(t) \union {q[1]}
    <3>1. \A n \in 1..Len(q) : n = 1 \/ (n - 1 \in 1..(Len(q) - 1) /\ q[n] = t[n - 1])
      BY <1>2, <1>3
    <3>2. QED  BY <1>1, <3>1 DEF ToSet
  <2>2. ToSet(t) \union {q[1]} \subseteq ToSet(q)  BY <1>1, <1>2, <1>4, <1>5 DEF ToSet
  <2>3. QED  BY <2>1, <2>2
<1>7. QED  BY <1>1, <1>6 DEF t

\* The empty list has nothing, and is a list of whatever one likes.
LEMMA EmptyIsListed == ToSet(<<>>) = {} /\ \A S : <<>> \in Seq(S)
BY DEF ToSet

\* A short list of ids is a list of them.
LEMMA ShortSeqs ==
  ASSUME NEW S, NEW T, T \subseteq S, NEW n \in Nat, NEW q \in SeqOf(T, n)
  PROVE  q \in Seq(S) /\ ToSet(q) \subseteq T
<1>1. PICK m \in 0..n : q \in [1..m -> T]  BY DEF SeqOf
<1>2. q \in Seq(S)  BY <1>1
<1>3. DOMAIN q = 1..m /\ \A k \in 1..m : q[k] \in T  BY <1>1
<1>4. QED  BY <1>2, <1>3 DEF ToSet

Keeping(q, i) ==
  CHOOSE k : k = [n \in 0..Len(q) |->
                    IF n = 0 THEN <<>>
                    ELSE IF q[n] = i THEN k[n - 1] ELSE Append(k[n - 1], q[n])]

\* The filter that goes through a list and keeps what is not i is well defined.
LEMMA KeepingSteps ==
  ASSUME NEW S, NEW q \in Seq(S), NEW i
  PROVE  /\ Keeping(q, i)[0] = <<>>
         /\ \A n \in 1..Len(q) :
              Keeping(q, i)[n] = IF q[n] = i THEN Keeping(q, i)[n - 1]
                                 ELSE Append(Keeping(q, i)[n - 1], q[n])
<1> DEFINE N == Len(q)
           kept == Keeping(q, i)
           step == [p \in (1..N) \X Seq(S) |->
                      IF q[p[1]] = i THEN p[2] ELSE Append(p[2], q[p[1]])]
<1>1. N \in Nat /\ \A n \in 1..N : q[n] \in S
  OBVIOUS
<1>2. step \in [(1..N) \X Seq(S) -> Seq(S)]
  BY <1>1
<1>3. kept = [n \in 0..N |-> IF n = 0 THEN <<>>
                ELSE IF q[n] = i THEN kept[n - 1] ELSE Append(kept[n - 1], q[n])]
  <2>1. PICK f : f \in Iterations(N, Seq(S), <<>>, step)
    <3>1. N \in Nat /\ <<>> \in Seq(S) /\ step \in [(1..N) \X Seq(S) -> Seq(S)]
      BY <1>1, <1>2
    <3> HIDE DEF step, N
    <3>2. QED  BY <3>1, Iterates
  <2>2. f \in [0..N -> Seq(S)] /\ f[0] = <<>> /\ \A n \in 1..N : f[n] = step[<<n, f[n - 1]>>]
    <3> HIDE DEF step, N
    <3>1. QED  BY <2>1 DEF Iterations
  <2>3. ASSUME NEW n \in 0..N
        PROVE  f[n] = IF n = 0 THEN <<>>
                      ELSE IF q[n] = i THEN f[n - 1] ELSE Append(f[n - 1], q[n])
    <3>1. CASE n = 0  BY <3>1, <2>2
    <3>2. CASE n # 0
      <4>1. n \in 1..N /\ f[n - 1] \in Seq(S)  BY <3>2, <2>2, <1>1
      <4>2. f[n] = step[<<n, f[n - 1]>>]  BY <4>1, <2>2
      <4>3. step[<<n, f[n - 1]>>] = IF q[n] = i THEN f[n - 1] ELSE Append(f[n - 1], q[n])
        BY <4>1
      <4>4. QED  BY <3>2, <4>2, <4>3
    <3>3. QED  BY <3>1, <3>2
  <2>4. f = [n \in 0..N |-> IF n = 0 THEN <<>>
               ELSE IF q[n] = i THEN f[n - 1] ELSE Append(f[n - 1], q[n])]
    <3> HIDE DEF N
    <3> QED  BY <2>2, <2>3
  <2>5. QED  BY <2>4 DEF Keeping
<1> HIDE DEF kept
<1>4. kept[0] = <<>>  BY <1>1, <1>3
<1>5. ASSUME NEW n \in 1..N
      PROVE  kept[n] = IF q[n] = i THEN kept[n - 1] ELSE Append(kept[n - 1], q[n])
  <2>1. n \in 0..N /\ n # 0  BY <1>1
  <2>2. QED  BY <2>1, <1>3
<1>6. QED  BY <1>4, <1>5 DEF kept

\* Two entries of a are two entries of q in the same order.
Within(a, q, n) ==
  \A x, y \in DOMAIN a : x < y => \E v, w \in 1..n : v < w /\ q[v] = a[x] /\ q[w] = a[y]

\* What it keeps: the same entries but for i, in the same order.
LEMMA KeepingDrops ==
  ASSUME NEW S, NEW q \in Seq(S), NEW i
  PROVE  /\ Keeping(q, i)[Len(q)] \in Seq(S)
         /\ ToSet(Keeping(q, i)[Len(q)]) = ToSet(q) \ {i}
         /\ Within(Keeping(q, i)[Len(q)], q, Len(q))
<1> DEFINE N == Len(q)
           kept == Keeping(q, i)
           Good == {n \in 0..N : /\ kept[n] \in Seq(S)
                                 /\ ToSet(kept[n]) = {q[m] : m \in 1..n} \ {i}
                                 /\ Within(kept[n], q, n)}
<1>1. N \in Nat /\ \A n \in 1..N : q[n] \in S
  OBVIOUS
<1>2. /\ kept[0] = <<>>
      /\ \A n \in 1..N : kept[n] = IF q[n] = i THEN kept[n - 1] ELSE Append(kept[n - 1], q[n])
  BY KeepingSteps
<1> HIDE DEF kept
<1>4. 0 \in Good
  <2>1. 0 \in 0..N /\ {q[m] : m \in 1..0} = {} BY <1>1
  <2>2. <<>> \in Seq(S) /\ ToSet(<<>>) = {} /\ DOMAIN <<>> = {}  BY DEF ToSet
  <2>3. QED  BY <1>2, <2>1, <2>2 DEF Within
<1>5. ASSUME NEW n \in 1..N, n - 1 \in Good  PROVE n \in Good
  <2> DEFINE k == kept[n - 1]
  <2>1. /\ k \in Seq(S) /\ ToSet(k) = {q[m] : m \in 1..(n - 1)} \ {i}
        /\ Within(k, q, n - 1)
    BY <1>5
  <2>2. kept[n] = IF q[n] = i THEN k ELSE Append(k, q[n])
    BY <1>2
  <2> HIDE DEF k
  <2>0. n \in 0..N /\ q[n] \in S /\ n \in Nat \ {0}  BY <1>1
  <2>3. 1..n = 1..(n - 1) \union {n}  BY <1>1
  <2>4. {q[m] : m \in 1..n} = {q[m] : m \in 1..(n - 1)} \union {q[n]}  BY <2>3
  <2>5. Within(k, q, n)  BY <2>1, <2>3 DEF Within
  <2>6. CASE q[n] = i  BY <2>0, <2>1, <2>2, <2>4, <2>5, <2>6
  <2>7. CASE q[n] # i
    <3> DEFINE a == Append(k, q[n])
    <3>1. a \in Seq(S) /\ Len(a) = Len(k) + 1 /\ Len(k) \in Nat
          /\ DOMAIN a = 1..(Len(k) + 1) /\ DOMAIN k = 1..Len(k)
      BY <2>1, <2>0
    <3>2. a[Len(k) + 1] = q[n] /\ \A m \in 1..Len(k) : a[m] = k[m]  BY <2>1, <2>0
    <3> HIDE DEF a
    <3>3. 1..(Len(k) + 1) = 1..Len(k) \union {Len(k) + 1}  BY <3>1
    <3>4. ToSet(a) = ToSet(k) \union {q[n]}  BY <3>1, <3>2, <3>3 DEF ToSet
    <3>5. ASSUME NEW x \in DOMAIN a, NEW y \in DOMAIN a, x < y
          PROVE  \E v, w \in 1..n : v < w /\ q[v] = a[x] /\ q[w] = a[y]
      <4>1. x \in 1..Len(k)  BY <3>1, <3>5
      <4>2. CASE y \in 1..Len(k)  BY <2>5, <3>1, <3>2, <3>5, <4>1, <4>2 DEF Within
      <4>3. CASE y = Len(k) + 1
        <5>1. a[x] \in ToSet(k)  BY <3>1, <3>2, <4>1 DEF ToSet
        <5>2. PICK m \in 1..(n - 1) : q[m] = a[x]  BY <2>1, <5>1
        <5>3. m < n /\ m \in 1..n /\ n \in 1..n  BY <2>0
        <5>4. QED  BY <3>2, <4>3, <5>2, <5>3
      <4>4. y \in 1..Len(k) \/ y = Len(k) + 1  BY <3>1, <3>3
      <4>5. QED  BY <4>2, <4>3, <4>4
    <3>6. Within(a, q, n)  BY <3>5 DEF Within
    <3>7. kept[n] = a  BY <2>2, <2>7 DEF a
    <3>8. QED  BY <2>0, <2>1, <2>4, <2>7, <3>1, <3>4, <3>6, <3>7
  <2>8. QED  BY <2>6, <2>7
<1>6. 0..N \subseteq Good
  <2> HIDE DEF Good, N
  <2>1. N \in Nat  BY <1>1
  <2>2. \A n \in 1..N : n - 1 \in Good => n \in Good  BY <1>5
  <2>3. QED  BY <2>1, <2>2, <1>4, Induction
<1>7. N \in Good
  <2>1. N \in 0..N  BY <1>1
  <2> HIDE DEF Good
  <2>2. QED  BY <2>1, <1>6
<1>8. ToSet(q) = {q[m] : m \in 1..N}  BY DEF ToSet
<1>9. QED  BY <1>7, <1>8 DEF kept

-----------------------------------------------------------------------------
(* The items *)

\* lRem with count 0 takes every occurrence of i from a list, and nothing else.
LEMMA WithoutDrops ==
  ASSUME NEW S, NEW q \in Seq(S), NEW i
  PROVE  Without(q, i) \in Seq(S) /\ ToSet(Without(q, i)) = ToSet(q) \ {i}
<1>1. Without(q, i) = Keeping(q, i)[Len(q)]
  BY DEF Without, Keeping
<1>2. QED
  BY <1>1, KeepingDrops

ItemRequests ==
  [kind : {"none", "create", "list", "del", "sort"},
   at : {"idle", "store", "get", "remove", "answer", "drop", "del", "push"},
   id : AnyItem \union {NoItem}, ids : Seq(AnyItem)]

\* The ids a sort that has deleted the list has yet to push.
ToPush(c) == IF AtItem(c, "sort", "push") THEN ToSet(itemCall[c].ids) ELSE {}

\* The ids that must not be missing from the list, and are not let go.
Owed == drawn \ (excused \union overlooked)

\* Such an id is in the list, or about to be pushed.
DrawnIsListed ==
  \A i \in Owed : i \in ToSet(items) \/ \E c \in ItemCalls : i \in ToPush(c)

\* While nothing let go of it, an id that was drawn has its record, or a call about
\* to store it.
DrawnIsStored == \A i \in drawn \ excused : i \in stored \/ BeingStored(i)

\* What a call has in hand: ids that exist, and for a listing the next one to
\* look at, which is let go once its record was not found; the id whose record a
\* deletion drops is let go too.
CallsKnowTheirIds ==
  \A c \in ItemCalls :
    /\ ToSet(itemCall[c].ids) \subseteq Known
    /\ AtItem(c, "create", "store") => itemCall[c].id \in Known
    /\ AtItem(c, "list", "get") \/ AtItem(c, "list", "remove") => itemCall[c].ids # <<>>
    /\ AtItem(c, "list", "remove") => Head(itemCall[c].ids) \notin Owed
    /\ AtItem(c, "del", "drop") => itemCall[c].id \in excused

ItemsInv ==
  /\ ItemsTypeOK
  /\ itemCall \in [ItemCalls -> ItemRequests]
  /\ ToSet(items) \subseteq Known
  /\ DrawnIsListed
  /\ DrawnIsStored
  /\ CallsKnowTheirIds

\* The ids that calls other than c are about to push, or to store the record of.
PushedByOthers(c) == UNION {ToPush(d) : d \in ItemCalls \ {c}}

StoredByOthers(c) ==
  {itemCall[d].id : d \in {e \in ItemCalls \ {c} : AtItem(e, "create", "store")}}

\* The items start in their invariant.
LEMMA ItemsStart == ItemsInit => ItemsInv
<1> SUFFICES ASSUME ItemsInit PROVE ItemsInv  OBVIOUS
<1>1. NoCall \in ItemRequests /\ NoCall.ids = <<>> /\ NoCall.at = "idle" /\ NoCall.id = NoItem
  BY EmptyIsListed DEF NoCall, ItemRequest, ItemRequests
<1>2. \A c \in ItemCalls : itemCall[c] = NoCall  BY DEF ItemsInit
<1>3. itemCall \in [ItemCalls -> ItemRequests]  BY <1>1 DEF ItemsInit
<1>4. ItemsTypeOK
  BY <1>1, <1>2, EmptyIsListed DEF ItemsInit, ItemsTypeOK
<1>5. CallsKnowTheirIds
  BY <1>1, <1>2, EmptyIsListed DEF CallsKnowTheirIds, AtItem
<1>6. QED
  BY <1>3, <1>4, <1>5, EmptyIsListed
  DEF ItemsInv, ItemsInit, DrawnIsListed, DrawnIsStored, Owed

\* One call goes on with r; what it drew, let go and did to the list keeps the
\* ids accounted for.
LEMMA ItemsStep ==
  ASSUME ItemsInv, NEW c \in ItemCalls, NEW r \in ItemRequests,
         itemCall' = [itemCall EXCEPT ![c] = r],
         items' \in Seq(AnyItem), ToSet(items') \subseteq Known',
         drawn \subseteq drawn', drawn' \subseteq ItemIds, stored' \subseteq AnyItem,
         excused \subseteq excused', excused' \union overlooked' \subseteq AnyItem,
         Owed' \intersect Known \subseteq Owed,
         ToSet(r.ids) \subseteq Known',
         r.kind = "create" /\ r.at = "store" => r.id \in Known',
         r.kind = "list" /\ r.at \in {"get", "remove"} => r.ids # <<>>,
         r.kind = "list" /\ r.at = "remove" => Head(r.ids) \notin Owed',
         r.kind = "del" /\ r.at = "drop" => r.id \in excused',
         \A i \in Owed' :
            \/ i \in ToSet(items') \union PushedByOthers(c)
            \/ r.kind = "sort" /\ r.at = "push" /\ i \in ToSet(r.ids),
         \A i \in drawn' \ excused' :
            \/ i \in stored' \union StoredByOthers(c)
            \/ r.kind = "create" /\ r.at = "store" /\ i = r.id
  PROVE  ItemsInv'
<1>1. itemCall' \in [ItemCalls -> ItemRequests] /\ itemCall'[c] = r
      /\ \A d \in ItemCalls \ {c} : itemCall'[d] = itemCall[d]
  BY DEF ItemsInv
<1>2. ItemsTypeOK'
  <2>1. r.id \in AnyItem \union {NoItem} /\ r.ids \in Seq(AnyItem)  BY DEF ItemRequests
  <2>2. QED  BY <1>1, <2>1 DEF ItemsInv, ItemsTypeOK, AnyItem
<1>3. DrawnIsListed'
  <2>1. ToPush(c)' = IF r.kind = "sort" /\ r.at = "push" THEN ToSet(r.ids) ELSE {}
    BY <1>1 DEF ToPush, AtItem
  <2>2. \A d \in ItemCalls \ {c} : ToPush(d)' = ToPush(d)
    BY <1>1 DEF ToPush, AtItem
  <2>3. QED  BY <2>1, <2>2 DEF DrawnIsListed, PushedByOthers
<1>4. DrawnIsStored'
  BY <1>1 DEF DrawnIsStored, BeingStored, StoredByOthers, AtItem
<1>5. CallsKnowTheirIds'
  <2> SUFFICES ASSUME NEW d \in ItemCalls
               PROVE  (/\ ToSet(itemCall[d].ids) \subseteq Known
                       /\ AtItem(d, "create", "store") => itemCall[d].id \in Known
                       /\ AtItem(d, "list", "get") \/ AtItem(d, "list", "remove")
                            => itemCall[d].ids # <<>>
                       /\ AtItem(d, "list", "remove") => Head(itemCall[d].ids) \notin Owed
                       /\ AtItem(d, "del", "drop") => itemCall[d].id \in excused)'
    BY DEF CallsKnowTheirIds
  <2>1. CASE d = c  BY <2>1, <1>1 DEF AtItem
  <2>2. CASE d # c
    <3>1. itemCall'[d] = itemCall[d] /\ itemCall[d].ids \in Seq(AnyItem) /\ Known \subseteq Known'
      BY <1>1, <2>2 DEF ItemsInv, ItemsTypeOK, Known
    <3>2. /\ ToSet(itemCall[d].ids) \subseteq Known
          /\ AtItem(d, "create", "store") => itemCall[d].id \in Known
          /\ AtItem(d, "list", "get") \/ AtItem(d, "list", "remove") => itemCall[d].ids # <<>>
          /\ AtItem(d, "list", "remove") => Head(itemCall[d].ids) \notin Owed
          /\ AtItem(d, "del", "drop") => itemCall[d].id \in excused
      BY DEF ItemsInv, CallsKnowTheirIds
    <3>3. AtItem(d, "list", "remove") => Head(itemCall[d].ids) \in Known
      BY <3>1, <3>2, HeadAndTail
    <3>4. QED  BY <3>1, <3>2, <3>3 DEF AtItem
  <2>3. QED  BY <2>1, <2>2
<1>6. QED  BY <1>1, <1>2, <1>3, <1>4, <1>5 DEF ItemsInv

\* Every step of a call on the items keeps their invariant.
LEMMA ItemsKeep == ItemsInv /\ [ItemsNext]_itemsVars => ItemsInv'
<1> SUFFICES ASSUME ItemsInv, [ItemsNext]_itemsVars  PROVE ItemsInv'
  OBVIOUS
<1> USE EmptyIsListed
<1>a. /\ items \in Seq(AnyItem) /\ ToSet(items) \subseteq Known
      /\ stored \subseteq AnyItem /\ drawn \subseteq ItemIds /\ Known \subseteq AnyItem
      /\ excused \union overlooked \subseteq AnyItem /\ Owed \subseteq drawn
      /\ itemCall \in [ItemCalls -> ItemRequests]
  BY DEF ItemsInv, ItemsTypeOK, Known, AnyItem, Owed
<1>b. ASSUME NEW c \in ItemCalls
      PROVE  /\ itemCall[c].id \in AnyItem \union {NoItem} /\ itemCall[c].ids \in Seq(AnyItem)
             /\ ToSet(itemCall[c].ids) \subseteq Known
             /\ AtItem(c, "create", "store") => itemCall[c].id \in Known
             /\ AtItem(c, "list", "get") \/ AtItem(c, "list", "remove") => itemCall[c].ids # <<>>
             /\ AtItem(c, "list", "remove") => Head(itemCall[c].ids) \notin Owed
             /\ AtItem(c, "del", "drop") => itemCall[c].id \in excused
  BY <1>a DEF ItemRequests, ItemsInv, CallsKnowTheirIds
<1>c. ASSUME NEW c \in ItemCalls, NEW i \in Owed
      PROVE  i \in ToSet(items) \union PushedByOthers(c) \union ToPush(c)
  BY DEF ItemsInv, DrawnIsListed, PushedByOthers
<1>d. ASSUME NEW c \in ItemCalls, ~AtItem(c, "sort", "push")
      PROVE  Owed \subseteq ToSet(items) \union PushedByOthers(c)
  BY <1>c, <1>d DEF ToPush
<1>g. ASSUME NEW c \in ItemCalls
      PROVE  \A i \in drawn \ excused :
                \/ i \in stored \union StoredByOthers(c)
                \/ AtItem(c, "create", "store") /\ i = itemCall[c].id
  BY DEF ItemsInv, DrawnIsStored, BeingStored, StoredByOthers
<1>n. /\ NoCall \in ItemRequests
      /\ NoCall = [kind |-> "none", at |-> "idle", id |-> NoItem, ids |-> <<>>]
  BY DEF NoCall, ItemRequest, ItemRequests
<1>o. ASSUME drawn' = drawn, excused \subseteq excused', overlooked \subseteq overlooked'
      PROVE  Owed' \subseteq Owed /\ Known' = Known
  BY <1>o DEF Owed, Known
<1> USE DEF ItemRequest, BeginItem, MoveItem, EndItem
\* A call that is idle begins, with no deletion or creation in sight.
<1>p. ASSUME NEW c \in ItemCalls, NEW r \in ItemRequests, itemCall[c] = NoCall,
             itemCall' = [itemCall EXCEPT ![c] = r],
             ToSet(r.ids) \subseteq Known, r.kind = "create" => r.id \in Known,
             r.kind = "list" /\ r.at \in {"get", "remove"} => r.at = "get" /\ r.ids # <<>>,
             r.kind = "sort" => r.at = "del", r.kind # "del",
             UNCHANGED <<items, stored, drawn, excused, overlooked>>
      PROVE  ItemsInv'
  <2>1. Owed' = Owed /\ Known' = Known  BY <1>p DEF Owed, Known
  <2>2. ~AtItem(c, "sort", "push") /\ ~AtItem(c, "create", "store")
    BY <1>n, <1>p DEF AtItem
  <2>3. QED  BY <1>a, <1>d, <1>g, <1>p, <2>1, <2>2, ItemsStep
\* A call that ends without a word to the list is harmless, as long as what it
\* was to store is stored or let go, and what it was to push is let go.
<1>e. ASSUME NEW c \in ItemCalls, EndItem(c), items' = items, drawn' = drawn,
             overlooked' = overlooked, excused \subseteq excused', excused' \subseteq AnyItem,
             AtItem(c, "sort", "push") => ToPush(c) \subseteq excused',
             AtItem(c, "create", "store") => itemCall[c].id \in stored' \union excused',
             stored' \subseteq AnyItem,
             stored \ excused' \subseteq stored'
      PROVE  ItemsInv'
  <2>1. Owed' \subseteq Owed /\ Known' = Known  BY <1>e, <1>o
  <2>2. Owed' \subseteq ToSet(items') \union PushedByOthers(c)
    BY <1>c, <1>e, <2>1 DEF Owed, ToPush
  <2>3. \A i \in drawn' \ excused' : i \in stored' \union StoredByOthers(c)
    BY <1>e, <1>g
  <2>4. QED  BY <1>a, <1>e, <1>n, <2>1, <2>2, <2>3, ItemsStep
<1>0. ASSUME UNCHANGED itemsVars PROVE ItemsInv'
  BY <1>0 DEF itemsVars, ItemsInv, ItemsTypeOK, DrawnIsListed, DrawnIsStored, BeingStored,
              CallsKnowTheirIds, Owed, Known, ToPush, AtItem
<1>1. ASSUME NEW c \in ItemCalls, NEW i \in ItemIds, CreateItem(c, i)  PROVE ItemsInv'
  <2> DEFINE r == [kind |-> "create", at |-> "store", id |-> i, ids |-> <<>>]
  <2>1. r \in ItemRequests /\ itemCall' = [itemCall EXCEPT ![c] = r] /\ itemCall[c] = NoCall
    BY <1>1 DEF CreateItem, ItemRequests, AnyItem
  <2>2. items' \in Seq(AnyItem) /\ ToSet(items') = ToSet(items) \union {i}
    BY <1>1, <1>a, ConsSet DEF CreateItem, AnyItem
  <2>3. drawn' = drawn \union {i} /\ excused' = excused /\ stored' = stored
        /\ overlooked' = overlooked /\ i \notin drawn
    BY <1>1 DEF CreateItem
  <2>4. ~AtItem(c, "sort", "push") /\ ~AtItem(c, "create", "store")
    BY <1>n, <2>1 DEF AtItem
  <2>5. Owed' \subseteq Owed \union {i} /\ Known' = Known \union {i} /\ i \notin Known
    BY <2>3, ItemsAssumption DEF Owed, Known
  <2>6. Owed' \subseteq ToSet(items') \union PushedByOthers(c)
    BY <1>d, <2>2, <2>4, <2>5
  <2>7. \A j \in drawn' \ excused' : j \in stored' \union StoredByOthers(c) \/ j = i
    BY <1>g, <2>3, <2>4
  <2>8. r.ids = <<>> /\ r.kind = "create" /\ r.at = "store" /\ r.id = i  OBVIOUS
  <2> HIDE DEF r
  <2>9. QED  BY <1>a, <2>1, <2>2, <2>3, <2>5, <2>6, <2>7, <2>8, ItemsStep
<1>2. ASSUME NEW c \in ItemCalls, NEW i \in Known, UpdateItem(c, i)  PROVE ItemsInv'
  <2> DEFINE r == [kind |-> "create", at |-> "store", id |-> i, ids |-> <<>>]
  <2>1. r \in ItemRequests /\ itemCall' = [itemCall EXCEPT ![c] = r] /\ itemCall[c] = NoCall
    BY <1>2, <1>a DEF UpdateItem, ItemRequests
  <2>2. UNCHANGED <<items, stored, drawn, excused, overlooked>>
    BY <1>2 DEF UpdateItem
  <2>3. QED  BY <1>p, <2>1, <2>2
<1>3. ASSUME NEW c \in ItemCalls, NEW i \in Known, DeleteItem(c, i)  PROVE ItemsInv'
  <2>1. PICK r \in ItemRequests :
          /\ itemCall' = [itemCall EXCEPT ![c] = r] /\ itemCall[c] = NoCall
          /\ r.kind = "del" /\ r.ids = <<>> /\ r.id = i
          /\ r.at = IF i \in ToSet(items) THEN "drop" ELSE "answer"
    <3>1. itemCall' = [itemCall EXCEPT ![c] = [kind |-> "del",
              at |-> IF i \in ToSet(items) THEN "drop" ELSE "answer", id |-> i, ids |-> <<>>]]
          /\ itemCall[c] = NoCall
      BY <1>3 DEF DeleteItem
    <3>2. [kind |-> "del", at |-> IF i \in ToSet(items) THEN "drop" ELSE "answer",
              id |-> i, ids |-> <<>>] \in ItemRequests
      BY <1>a DEF ItemRequests
    <3>3. QED  BY <3>1, <3>2
  <2>2. items' \in Seq(AnyItem) /\ ToSet(items') = ToSet(items) \ {i}
    BY <1>3, <1>a, WithoutDrops DEF DeleteItem
  <2>3. drawn' = drawn /\ stored' = stored /\ overlooked' = overlooked
        /\ excused' = IF i \in ToSet(items) THEN excused \union {i} ELSE excused
    BY <1>3 DEF DeleteItem
  <2>4. ~AtItem(c, "sort", "push") /\ ~AtItem(c, "create", "store")
    BY <1>n, <2>1 DEF AtItem
  <2>5. Owed' \subseteq Owed /\ Known' = Known /\ Owed' \intersect excused' = {}
    BY <2>3 DEF Owed, Known
  <2>6. Owed' \subseteq ToSet(items') \union PushedByOthers(c)
    BY <1>d, <2>2, <2>3, <2>4, <2>5
  <2>7. \A j \in drawn' \ excused' : j \in stored' \union StoredByOthers(c)
    BY <1>g, <2>3, <2>4
  <2>8. excused \subseteq excused' /\ excused' \union overlooked' \subseteq AnyItem
    BY <1>a, <2>3
  <2>9. QED  BY <1>a, <2>1, <2>2, <2>3, <2>5, <2>6, <2>7, <2>8, ItemsStep
<1>4. ASSUME NEW c \in ItemCalls, StoreItem(c)  PROVE ItemsInv'
  <2>1. itemCall[c].id \in AnyItem /\ ~AtItem(c, "sort", "push")
    BY <1>a, <1>b, <1>4 DEF StoreItem, AtItem
  <2>2. QED  BY <1>a, <1>e, <1>4, <2>1 DEF StoreItem
<1>5. ASSUME NEW c \in ItemCalls, ListItems(c)  PROVE ItemsInv'
  <2>1. PICK r \in ItemRequests : /\ itemCall' = [itemCall EXCEPT ![c] = r] /\ itemCall[c] = NoCall
                                  /\ r.kind = "list" /\ r.ids = items
                                  /\ r.at = IF items = <<>> THEN "answer" ELSE "get"
    <3>1. itemCall' = [itemCall EXCEPT ![c] = [kind |-> "list",
              at |-> IF items = <<>> THEN "answer" ELSE "get", id |-> NoItem, ids |-> items]]
          /\ itemCall[c] = NoCall
      BY <1>5 DEF ListItems
    <3>2. [kind |-> "list", at |-> IF items = <<>> THEN "answer" ELSE "get",
              id |-> NoItem, ids |-> items] \in ItemRequests
      BY <1>a DEF ItemRequests
    <3>3. QED  BY <3>1, <3>2
  <2>2. UNCHANGED <<items, stored, drawn, excused, overlooked>>
    BY <1>5 DEF ListItems
  <2>3. QED  BY <1>a, <1>p, <2>1, <2>2
<1>f. ASSUME NEW c \in ItemCalls, NextListed(c, Tail(itemCall[c].ids)),
             AtItem(c, "list", "get") \/ AtItem(c, "list", "remove"),
             items' \in Seq(AnyItem), ToSet(items') \subseteq ToSet(items),
             ToSet(items) \intersect Owed \subseteq ToSet(items'),
             UNCHANGED <<stored, drawn, excused, overlooked>>
      PROVE  ItemsInv'
  <2> DEFINE q == Tail(itemCall[c].ids)
             r == [kind |-> "list", at |-> IF q = <<>> THEN "answer" ELSE "get", id |-> NoItem, ids |-> q]
  <2>1. q \in Seq(AnyItem) /\ ToSet(q) \subseteq Known
    BY <1>b, <1>f, HeadAndTail
  <2>2. itemCall' = [itemCall EXCEPT ![c] = r]  BY <1>f DEF NextListed
  <2> HIDE DEF q
  <2>3. r \in ItemRequests  BY <2>1 DEF ItemRequests
  <2>4. ~AtItem(c, "sort", "push") /\ ~AtItem(c, "create", "store")  BY <1>f DEF AtItem
  <2>5. Owed' = Owed /\ Known' = Known  BY <1>f DEF Owed, Known
  <2>6. Owed' \subseteq ToSet(items') \union PushedByOthers(c)  BY <1>d, <1>f, <2>4, <2>5
  <2>7. \A j \in drawn' \ excused' : j \in stored' \union StoredByOthers(c)  BY <1>f, <1>g, <2>4
  <2>8. QED  BY <1>a, <1>f, <2>1, <2>2, <2>3, <2>5, <2>6, <2>7, ItemsStep
<1>6. ASSUME NEW c \in ItemCalls, ListFinds(c)  PROVE ItemsInv'
  BY <1>a, <1>f, <1>6 DEF ListFinds
<1>7. ASSUME NEW c \in ItemCalls, ListMisses(c)  PROVE ItemsInv'
  <2> DEFINE r == [itemCall[c] EXCEPT !.at = "remove"]
             h == Head(itemCall[c].ids)
  <2>1. itemCall' = [itemCall EXCEPT ![c] = r] /\ AtItem(c, "list", "get") /\ h \notin stored
        /\ items' = items /\ drawn' = drawn /\ stored' = stored /\ excused' = excused
        /\ overlooked' = overlooked \union {i \in {h} : BeingStored(i)}
    BY <1>7 DEF ListMisses
  <2>2. r \in ItemRequests /\ r.kind = "list" /\ r.at = "remove" /\ r.ids = itemCall[c].ids
        /\ r.id = itemCall[c].id
    BY <1>a, <2>1 DEF ItemRequests, AtItem
  <2>3. h \in AnyItem /\ r.ids # <<>> /\ ToSet(r.ids) \subseteq Known
    BY <1>b, <2>1, <2>2, HeadAndTail
  <2>4. Head(r.ids) = h  BY <2>2
  <2> HIDE DEF r, h
  <2>5. h \in drawn \ excused => BeingStored(h)  BY <2>1 DEF ItemsInv, DrawnIsStored
  <2>6. Owed' \subseteq Owed /\ Known' = Known /\ h \notin Owed'
    BY <2>1, <2>5 DEF Owed, Known
  <2>7. ~AtItem(c, "sort", "push") /\ ~AtItem(c, "create", "store")  BY <2>1 DEF AtItem
  <2>8. \A j \in drawn' \ excused' : j \in stored' \union StoredByOthers(c)  BY <1>g, <2>1, <2>7
  <2>9. QED  BY <1>a, <1>d, <2>1, <2>2, <2>3, <2>4, <2>6, <2>7, <2>8, ItemsStep
<1>8. ASSUME NEW c \in ItemCalls, ListRemoves(c)  PROVE ItemsInv'
  <2>1. AtItem(c, "list", "remove") /\ items' = Without(items, Head(itemCall[c].ids))
        /\ NextListed(c, Tail(itemCall[c].ids)) /\ UNCHANGED <<stored, drawn, excused, overlooked>>
    BY <1>8 DEF ListRemoves
  <2>2. items' \in Seq(AnyItem) /\ ToSet(items') = ToSet(items) \ {Head(itemCall[c].ids)}
    BY <1>a, <2>1, WithoutDrops
  <2>3. Head(itemCall[c].ids) \notin Owed  BY <1>b, <2>1
  <2>4. QED  BY <1>f, <2>1, <2>2, <2>3
<1>9. ASSUME NEW c \in ItemCalls, Listed(c)  PROVE ItemsInv'
  BY <1>a, <1>e, <1>9 DEF Listed, AtItem
<1>10. ASSUME NEW c \in ItemCalls, DropItem(c)  PROVE ItemsInv'
  BY <1>a, <1>b, <1>e, <1>10 DEF DropItem, AtItem
<1>11. ASSUME NEW c \in ItemCalls, NotFound(c)  PROVE ItemsInv'
  BY <1>a, <1>e, <1>11 DEF NotFound, AtItem
<1>12. ASSUME NEW c \in ItemCalls, NEW q \in SeqOf(Known, MaxSorted), SortItems(c, q)
       PROVE  ItemsInv'
  <2> DEFINE r == [kind |-> "sort", at |-> "del", id |-> NoItem, ids |-> q]
  <2>1. q \in Seq(AnyItem) /\ ToSet(q) \subseteq Known
    BY <1>a, ShortSeqs, ItemsAssumption
  <2>2. r \in ItemRequests /\ itemCall' = [itemCall EXCEPT ![c] = r] /\ itemCall[c] = NoCall
    BY <1>12, <2>1 DEF SortItems, ItemRequests
  <2>3. UNCHANGED <<items, stored, drawn, excused, overlooked>>
    BY <1>12 DEF SortItems
  <2>4. QED  BY <1>p, <2>1, <2>2, <2>3
<1>13. ASSUME NEW c \in ItemCalls, SortDeletes(c)  PROVE ItemsInv'
  <2> DEFINE r == [itemCall[c] EXCEPT !.at = "push"]
  <2>1. itemCall' = [itemCall EXCEPT ![c] = r] /\ AtItem(c, "sort", "del")
        /\ items' = <<>> /\ drawn' = drawn /\ stored' = stored /\ overlooked' = overlooked
        /\ excused' = excused \union (ToSet(items) \ ToSet(itemCall[c].ids))
    BY <1>13 DEF SortDeletes
  <2>2. r \in ItemRequests /\ r.kind = "sort" /\ r.at = "push" /\ r.ids = itemCall[c].ids
    BY <1>a, <2>1 DEF ItemRequests, AtItem
  <2> HIDE DEF r
  <2>3. ~AtItem(c, "sort", "push") /\ ~AtItem(c, "create", "store")  BY <2>1 DEF AtItem
  <2>4. Owed' \subseteq Owed \ (ToSet(items) \ ToSet(r.ids)) /\ Known' = Known
    BY <2>1, <2>2 DEF Owed, Known
  <2>5. \A j \in Owed' : j \in ToSet(r.ids) \union PushedByOthers(c)  BY <1>d, <2>3, <2>4
  <2>6. \A j \in drawn' \ excused' : j \in stored' \union StoredByOthers(c)  BY <1>g, <2>1, <2>3
  <2>7. /\ ToSet(items') = {} /\ items' \in Seq(AnyItem) /\ excused \subseteq excused'
        /\ excused' \union overlooked' \subseteq AnyItem /\ ToSet(r.ids) \subseteq Known
    BY <1>a, <1>b, <2>1, <2>2
  <2>8. QED  BY <1>a, <2>1, <2>2, <2>4, <2>5, <2>6, <2>7, ItemsStep
<1>14. ASSUME NEW c \in ItemCalls, SortPushes(c)  PROVE ItemsInv'
  <2> DEFINE r == [itemCall[c] EXCEPT !.ids = Tail(@)]
             h == Head(itemCall[c].ids)
  <2>1. itemCall' = [itemCall EXCEPT ![c] = r] /\ AtItem(c, "sort", "push")
        /\ itemCall[c].ids # <<>> /\ items' = Append(items, h)
        /\ UNCHANGED <<stored, drawn, excused, overlooked>>
    BY <1>14 DEF SortPushes
  <2>2. /\ h \in AnyItem /\ Tail(itemCall[c].ids) \in Seq(AnyItem)
        /\ ToSet(itemCall[c].ids) = ToSet(Tail(itemCall[c].ids)) \union {h}
    BY <1>b, <2>1, HeadAndTail
  <2>3. r \in ItemRequests /\ r.kind = "sort" /\ r.at = "push" /\ r.ids = Tail(itemCall[c].ids)
    BY <1>a, <2>1, <2>2 DEF ItemRequests, AtItem
  <2> HIDE DEF r, h
  <2>4. items' \in Seq(AnyItem) /\ ToSet(items') = ToSet(items) \union {h}
    BY <1>a, <2>1, <2>2, AppendSet
  <2>5. h \in Known /\ ToSet(r.ids) \subseteq Known  BY <1>b, <2>2, <2>3
  <2>6. Owed' = Owed /\ Known' = Known  BY <2>1 DEF Owed, Known
  <2>7. \A j \in Owed' : j \in ToSet(items') \union PushedByOthers(c) \/ j \in ToSet(r.ids)
    BY <1>c, <2>1, <2>2, <2>3, <2>4, <2>6 DEF ToPush
  <2>8. \A j \in drawn' \ excused' : j \in stored' \union StoredByOthers(c)
    BY <1>g, <2>1 DEF AtItem
  <2>9. QED  BY <1>a, <2>1, <2>3, <2>4, <2>5, <2>6, <2>7, <2>8, ItemsStep
<1>15. ASSUME NEW c \in ItemCalls, Sorted(c)  PROVE ItemsInv'
  BY <1>a, <1>e, <1>15 DEF Sorted, AtItem, ToPush
<1>16. ASSUME NEW c \in ItemCalls, BreakOff(c)  PROVE ItemsInv'
  <2>1. excused' = excused \union Forsaken(c) /\ EndItem(c)
        /\ UNCHANGED <<items, stored, drawn, overlooked>>
    BY <1>16 DEF BreakOff
  <2>2. Forsaken(c) \subseteq AnyItem  BY <1>a, <1>b DEF Forsaken
  <2>3. AtItem(c, "sort", "push") => ToPush(c) = Forsaken(c)  BY DEF ToPush, Forsaken
  <2>4. AtItem(c, "create", "store") => itemCall[c].id \in stored \union Forsaken(c)
    BY DEF Forsaken, AtItem
  <2>5. QED  BY <1>a, <1>e, <2>1, <2>2, <2>3, <2>4
<1>17. QED
  BY <1>0, <1>1, <1>2, <1>3, <1>4, <1>5, <1>6, <1>7, <1>8, <1>9, <1>10, <1>11, <1>12,
     <1>13, <1>14, <1>15, <1>16 DEF ItemsNext

\* Whatever calls on the items overlap, and whatever ids their clients send
\* (items.ts:11-81), every id that a creation drew is in the list, was let go for a
\* reason, or is in the hands of a sort that has dropped the list and not pushed it
\* yet; and until its record is there, the call that is to store it is.
THEOREM ItemsInvariance == ItemsSpec => []ItemsInv
BY ItemsStart, ItemsKeep, PTL DEF ItemsSpec

\* For any number of items, any ids and any overlapping calls (items.ts:11-81), an
\* item that a creation drew an id for and that is stored is in its owner's list,
\* unless it was deleted, listed while its record was still to be stored, left out
\* by a sort, or its creation or a sort broke off, once no sort is under way.
THEOREM NoItemIsLost == ItemsSpec => []ItemsListed
<1>1. ItemsInv => ItemsListed
  BY DEF ItemsInv, DrawnIsListed, Owed, ItemsListed, Sorting, ToPush
<1>2. QED  BY <1>1, ItemsInvariance, PTL

-----------------------------------------------------------------------------
(* The contacts *)

Refs == People \union {Nobody}

\* In a the person comes first, then the others in the order they had in q.
Leads(a, q, person) ==
  \A x, y \in DOMAIN a : x < y =>
    /\ a[y] # person
    /\ \/ a[x] = person
       \/ a[x] # person /\ \E v, w \in DOMAIN q : v < w /\ q[v] = a[x] /\ q[w] = a[y]

\* The step of the loop over the new payments (users.ts:578-584) puts the person
\* first, keeps everybody else, in the order they had.
LEMMA PromoteLeads ==
  ASSUME NEW q \in Seq(People), NEW person \in People
  PROVE  /\ Promote(q, person) \in Seq(People)
         /\ ToSet(Promote(q, person)) = ToSet(q) \union {person}
         /\ Leads(Promote(q, person), q, person)
<1> DEFINE o == Keeping(q, person)[Len(q)]
           a == Promote(q, person)
<1>1. o \in Seq(People) /\ ToSet(o) = ToSet(q) \ {person} /\ Within(o, q, Len(q))
  BY KeepingDrops
<1>2. a = <<person>> \o o
  BY ContactsAssumption DEF Promote, Others, Keeping
<1> HIDE DEF o, a
<1>3. a \in Seq(People) /\ ToSet(a) = ToSet(o) \union {person}
  BY <1>1, <1>2, ConsSet
<1>4. Len(o) \in Nat /\ DOMAIN o = 1..Len(o) /\ DOMAIN a = 1..(Len(o) + 1) /\ a[1] = person
  BY <1>1, <1>2
<1>5. \A x \in 2..(Len(o) + 1) : x - 1 \in 1..Len(o) /\ a[x] = o[x - 1]
  BY <1>1, <1>2
<1>6. \A x \in 2..(Len(o) + 1) : a[x] # person
  BY <1>1, <1>4, <1>5 DEF ToSet
<1>7. ASSUME NEW x \in DOMAIN a, NEW y \in DOMAIN a, x < y
      PROVE  /\ a[y] # person
             /\ \/ a[x] = person
                \/ a[x] # person /\ \E v, w \in DOMAIN q : v < w /\ q[v] = a[x] /\ q[w] = a[y]
  <2>1. y \in 2..(Len(o) + 1)  BY <1>4, <1>7
  <2>2. CASE x = 1  BY <1>4, <1>6, <2>1, <2>2
  <2>3. CASE x # 1
    <3>1. x \in 2..(Len(o) + 1) /\ x - 1 < y - 1  BY <1>4, <1>7, <2>3
    <3>a. x - 1 \in DOMAIN o /\ y - 1 \in DOMAIN o  BY <1>4, <1>5, <2>1, <3>1
    <3>2. PICK v, w \in 1..Len(q) : v < w /\ q[v] = o[x - 1] /\ q[w] = o[y - 1]
      BY <1>1, <3>1, <3>a DEF Within
    <3>3. v \in DOMAIN q /\ w \in DOMAIN q  OBVIOUS
    <3>4. QED  BY <1>5, <1>6, <2>1, <3>1, <3>2, <3>3
  <2>4. QED  BY <2>2, <2>3
<1>8. QED  BY <1>1, <1>3, <1>7 DEF Leads, a

Going(list, range) ==
  CHOOSE d : d = [n \in 0..Len(range) |->
                    IF n = 0 THEN list ELSE Promote(d[n - 1], range[Len(range) - n + 1])]

\* The loop over the payments is well defined.
LEMMA GoingSteps ==
  ASSUME NEW list \in Seq(People), NEW range \in Seq(Refs)
  PROVE  /\ Going(list, range)[0] = list
         /\ \A n \in 1..Len(range) :
              Going(list, range)[n] = Promote(Going(list, range)[n - 1], range[Len(range) - n + 1])
<1> DEFINE N == Len(range)
           done == Going(list, range)
           step == [p \in (1..N) \X Seq(People) |-> Promote(p[2], range[N - p[1] + 1])]
<1>1. N \in Nat /\ \A n \in 1..N : range[n] \in Refs
  OBVIOUS
<1>2. step \in [(1..N) \X Seq(People) -> Seq(People)]
  <2>1. ASSUME NEW n \in 1..N, NEW q \in Seq(People)
        PROVE  Promote(q, range[N - n + 1]) \in Seq(People)
    <3>1. N - n + 1 \in 1..N  BY <1>1
    <3>2. range[N - n + 1] = Nobody \/ range[N - n + 1] \in People  BY <1>1, <3>1 DEF Refs
    <3>3. range[N - n + 1] = Nobody => Promote(q, range[N - n + 1]) = q  BY DEF Promote
    <3>4. QED  BY <3>2, <3>3, PromoteLeads
  <2> HIDE DEF N
  <2>2. QED  BY <2>1
<1>3. done = [n \in 0..N |-> IF n = 0 THEN list ELSE Promote(done[n - 1], range[N - n + 1])]
  <2>1. PICK f : f \in Iterations(N, Seq(People), list, step)
    <3>1. N \in Nat  BY <1>1
    <3> HIDE DEF step, N
    <3>2. QED  BY <3>1, <1>2, Iterates
  <2>2. f \in [0..N -> Seq(People)] /\ f[0] = list /\ \A n \in 1..N : f[n] = step[<<n, f[n - 1]>>]
    <3> HIDE DEF step, N
    <3>1. QED  BY <2>1 DEF Iterations
  <2>3. ASSUME NEW n \in 0..N
        PROVE  f[n] = IF n = 0 THEN list ELSE Promote(f[n - 1], range[N - n + 1])
    <3>1. CASE n = 0  BY <3>1, <2>2
    <3>2. CASE n # 0
      <4>1. n \in 1..N /\ f[n - 1] \in Seq(People)  BY <3>2, <2>2, <1>1
      <4>2. f[n] = step[<<n, f[n - 1]>>]  BY <4>1, <2>2
      <4>3. step[<<n, f[n - 1]>>] = Promote(f[n - 1], range[N - n + 1])
        BY <4>1
      <4>4. QED  BY <3>2, <4>2, <4>3
    <3>3. QED  BY <3>1, <3>2
  <2>4. f = [n \in 0..N |-> IF n = 0 THEN list ELSE Promote(f[n - 1], range[N - n + 1])]
    <3> HIDE DEF N
    <3> QED  BY <2>2, <2>3
  <2>5. QED  BY <2>4 DEF Going
<1> HIDE DEF done
<1>4. done[0] = list  BY <1>1, <1>3
<1>5. ASSUME NEW n \in 1..N
      PROVE  done[n] = Promote(done[n - 1], range[N - n + 1])
  <2>1. n \in 0..N /\ n # 0  BY <1>1
  <2>2. QED  BY <2>1, <1>3
<1>6. QED  BY <1>4, <1>5 DEF done

\* p has a payment at or after position i of the range
From(range, i, p) == {x \in i..Len(range) : range[x] = p}

\* In a, after the payments from position i on were gone through: the people
\* of those payments come first, in the order of their latest payment, and
\* then the others in the order they had in q.
Ordered(a, q, range, i) ==
  \A x, y \in DOMAIN a : x < y =>
    \/ \E v \in From(range, i, a[x]) : \A w \in From(range, i, a[y]) : v < w
    \/ /\ From(range, i, a[x]) = {} /\ From(range, i, a[y]) = {}
       /\ \E v, w \in DOMAIN q : v < w /\ q[v] = a[x] /\ q[w] = a[y]

\* Once the loop has taken the whole range, the list has everybody it had and all
\* who are in the range; those who are in the range come first, by their newest
\* payment there.
LEMMA GoingOrders ==
  ASSUME NEW list \in Seq(People), NEW range \in Seq(Refs), NEW call,
         call.list = list, call.range = range
  PROVE  /\ Promoted(call) \in Seq(People)
         /\ ToSet(Promoted(call)) =
              ToSet(list) \union {p \in People : From(range, 1, p) # {}}
         /\ Ordered(Promoted(call), list, range, 1)
<1> DEFINE N == Len(range)
           done == Going(list, range)
           Good == {n \in 0..N :
                      /\ done[n] \in Seq(People)
                      /\ ToSet(done[n]) =
                           ToSet(list) \union {p \in People : From(range, N - n + 1, p) # {}}
                      /\ Ordered(done[n], list, range, N - n + 1)}
<1>1. N \in Nat /\ \A n \in 1..N : range[n] \in Refs
  OBVIOUS
<1>2. /\ done[0] = list
      /\ \A n \in 1..N : done[n] = Promote(done[n - 1], range[N - n + 1])
  BY GoingSteps
<1> HIDE DEF done
<1>3. 0 \in Good
  <2>1. 0 \in 0..N /\ N - 0 + 1 = N + 1 /\ (N + 1)..N = {}  BY <1>1
  <2>2. \A p : From(range, N + 1, p) = {}  BY <2>1 DEF From
  <2>3. Ordered(list, list, range, N + 1)  BY <2>2 DEF Ordered
  <2>4. QED  BY <1>2, <2>1, <2>2, <2>3
<1>4. ASSUME NEW n \in 1..N, n - 1 \in Good  PROVE n \in Good
  <2> DEFINE d == done[n - 1]
             a == done[n]
             i == N - n + 1
  <2>0. n \in 0..N /\ i \in 1..N /\ N - (n - 1) + 1 = i + 1  BY <1>1
  <2>1. /\ d \in Seq(People)
        /\ ToSet(d) = ToSet(list) \union {p \in People : From(range, i + 1, p) # {}}
        /\ Ordered(d, list, range, i + 1)
    BY <1>4, <2>0
  <2>2. a = Promote(d, range[i])  BY <1>2
  <2> HIDE DEF d, a, i
  <2>3. i..N = (i + 1)..N \union {i} /\ i \notin (i + 1)..N  BY <1>1, <2>0
  <2>4. ASSUME NEW p
        PROVE  /\ range[i] # p => From(range, i, p) = From(range, i + 1, p)
               /\ range[i] = p => From(range, i, p) = From(range, i + 1, p) \union {i}
    BY <2>3 DEF From
  <2>5. range[i] \in People \/ range[i] = Nobody  BY <1>1, <2>0 DEF Refs
  <2>6. CASE range[i] = Nobody
    <3>1. a = d  BY <2>2, <2>6 DEF Promote
    <3>2. \A p \in People : From(range, i, p) = From(range, i + 1, p)
      BY <2>4, <2>6, ContactsAssumption
    <3>3. \A x \in DOMAIN d : d[x] \in People  BY <2>1
    <3>4. Ordered(d, list, range, i)  BY <2>1, <3>2, <3>3 DEF Ordered
    <3>5. ToSet(d) = ToSet(list) \union {p \in People : From(range, i, p) # {}}
      BY <2>1, <3>2
    <3>6. QED  BY <2>0, <2>1, <3>1, <3>4, <3>5 DEF a, i
  <2>7. CASE range[i] \in People
    <3> DEFINE person == range[i]
    <3>1. a \in Seq(People) /\ ToSet(a) = ToSet(d) \union {person} /\ Leads(a, d, person)
      BY <2>1, <2>2, <2>7, PromoteLeads
    <3> HIDE DEF person
    <3>2. ToSet(a) = ToSet(list) \union {p \in People : From(range, i, p) # {}}
      <4>1. {p \in People : From(range, i, p) # {}}
              = {p \in People : From(range, i + 1, p) # {}} \union {person}
        <5>1. ASSUME NEW p \in People, p # person
              PROVE  From(range, i, p) = From(range, i + 1, p)
          BY <2>4, <5>1 DEF person
        <5>2. From(range, i, person) # {} /\ person \in People  BY <2>4, <2>7 DEF person
        <5>3. QED  BY <5>1, <5>2
      <4>2. QED  BY <2>1, <3>1, <4>1
    <3>3. ASSUME NEW x \in DOMAIN a, NEW y \in DOMAIN a, x < y
          PROVE  \/ \E v \in From(range, i, a[x]) : \A w \in From(range, i, a[y]) : v < w
                 \/ /\ From(range, i, a[x]) = {} /\ From(range, i, a[y]) = {}
                    /\ \E v, w \in DOMAIN list : v < w /\ list[v] = a[x] /\ list[w] = a[y]
      <4>1. a[y] # person /\ From(range, i, a[y]) = From(range, i + 1, a[y])
        BY <2>4, <3>1, <3>3 DEF Leads, person
      <4>2. CASE a[x] = person
        <5>1. i \in From(range, i, a[x])  BY <2>4, <4>2 DEF person
        <5>2. \A w \in From(range, i + 1, a[y]) : i < w  BY <1>1, <2>0 DEF From
        <5>3. QED  BY <4>1, <5>1, <5>2
      <4>3. CASE a[x] # person
        <5>1. PICK v, w \in DOMAIN d : v < w /\ d[v] = a[x] /\ d[w] = a[y]
          BY <3>1, <3>3, <4>3 DEF Leads
        <5>2. From(range, i, a[x]) = From(range, i + 1, a[x])  BY <2>4, <4>3 DEF person
        <5>3. QED  BY <2>1, <4>1, <5>1, <5>2 DEF Ordered
      <4>4. QED  BY <4>2, <4>3
    <3>4. Ordered(a, list, range, i)  BY <3>3 DEF Ordered
    <3>5. QED  BY <2>0, <3>1, <3>2, <3>4 DEF a, i
  <2>8. QED  BY <2>5, <2>6, <2>7
<1>5. 0..N \subseteq Good
  <2>1. N \in Nat  BY <1>1
  <2>2. \A n \in 1..N : n - 1 \in Good => n \in Good  BY <1>4
  <2> HIDE DEF Good, N
  <2>3. QED  BY <2>1, <2>2, <1>3, Induction
<1>6. N \in Good
  <2>1. N \in 0..N  BY <1>1
  <2> HIDE DEF Good
  <2>2. QED  BY <2>1, <1>5
<1>7. Promoted(call) = done[N]  BY DEF Promoted, Going, done
<1>8. N - N + 1 = 1  BY <1>1
<1>9. QED  BY <1>6, <1>7, <1>8

\* InOrder, for any list of payments in the place of the variable.
PaidIn(paid, p, n) == {i \in DOMAIN paid : i > Len(paid) - n /\ paid[i] = p}

OrderIn(paid, q, n) ==
  /\ ToSet(q) = {p \in People : PaidIn(paid, p, n) # {}}
  /\ \A i, j \in DOMAIN q :
       i < j => \E a \in PaidIn(paid, q[i], n) : \A b \in PaidIn(paid, q[j], n) : a < b

\* The range holds payments without a gap, up to the e-th oldest and from one
\* of the n + 1 oldest on.
Covers(paid, range, e, n) ==
  /\ e <= Len(paid) /\ n <= e
  /\ Len(range) <= e /\ e <= n + Len(range)
  /\ \A i \in 1..Len(range) : range[i] = paid[Len(paid) - e + i]

ContactStates ==
  [at : {"idle", "len", "range", "set", "contacts", "store"}, last : Nat, len : Nat,
   range : Seq(Refs), list : Seq(People)]

\* What a call may rely on while nothing disturbs it.
CallSteady(call) ==
  /\ call.at = "len" => call.last = lastlen
  /\ call.at = "range" =>
       /\ call.last = lastlen /\ Len(payments) <= call.len + 1
       /\ \E n \in {lastlen, lastlen + 1} : n <= call.len /\ OrderIn(payments, contacts, n)
  /\ call.at = "set" =>
       \E e \in {call.len, call.len + 1}, n \in Nat :
         Covers(payments, call.range, e, n) /\ OrderIn(payments, contacts, n)
  /\ call.at = "contacts" =>
       \E e \in {lastlen, lastlen + 1}, n \in Nat :
         Covers(payments, call.range, e, n) /\ OrderIn(payments, contacts, n)
  /\ call.at = "store" =>
       \E e \in {lastlen, lastlen + 1}, n \in Nat :
         Covers(payments, call.range, e, n) /\ OrderIn(payments, call.list, n)

\* The stored contacts are those of the counted payments, or of one more,
\* until a call has counted payments whose people it is about to store.
Counted ==
  (\A c \in ContactCalls : contactCall[c].at \notin {"contacts", "store"}) =>
    \E n \in {lastlen, lastlen + 1} : n <= Len(payments) /\ OrderIn(payments, contacts, n)

Steady ==
  /\ \A c, d \in ContactCalls :
       contactCall[c].at # "idle" /\ contactCall[d].at # "idle" => c = d
  /\ \A c \in ContactCalls : CallSteady(contactCall[c])
  /\ Counted

ContactsTyped ==
  /\ payments \in Seq(Refs)
  /\ contacts \in Seq(People)
  /\ lastlen \in 0..Len(payments)
  /\ contactCall \in [ContactCalls -> ContactStates]
  /\ \A c \in ContactCalls : contactCall[c].len <= Len(payments)
  /\ disturbed \in BOOLEAN

ContactsInv == ContactsTyped /\ (~disturbed => Steady)

\* A payment that comes in moves the others one place back: what a list or a range
\* says of the oldest payments stays true.
LEMMA PaysKeep ==
  ASSUME NEW paid \in Seq(Refs), NEW ref \in Refs
  PROVE  /\ <<ref>> \o paid \in Seq(Refs) /\ Len(<<ref>> \o paid) = Len(paid) + 1
         /\ \A q \in Seq(People), n \in 0..Len(paid) :
              OrderIn(paid, q, n) => OrderIn(<<ref>> \o paid, q, n)
         /\ \A range \in Seq(Refs), e, n \in Nat :
              Covers(paid, range, e, n) => Covers(<<ref>> \o paid, range, e, n)
<1> DEFINE more == <<ref>> \o paid
           L == Len(paid)
<1>1. /\ more \in Seq(Refs) /\ Len(more) = L + 1 /\ L \in Nat
      /\ DOMAIN more = 1..(L + 1) /\ DOMAIN paid = 1..L
  OBVIOUS
<1>2. \A i \in 1..L : more[i + 1] = paid[i]
  OBVIOUS
<1> HIDE DEF more
<1>3. ASSUME NEW q \in Seq(People), NEW n \in 0..L, OrderIn(paid, q, n)
      PROVE  OrderIn(more, q, n)
  <2>1. ASSUME NEW p, NEW i \in PaidIn(paid, p, n)  PROVE i + 1 \in PaidIn(more, p, n)
    BY <1>1, <1>2 DEF PaidIn
  <2>2. ASSUME NEW p, NEW i \in PaidIn(more, p, n)  PROVE i - 1 \in PaidIn(paid, p, n)
    <3>1. i \in 1..(L + 1) /\ i > L + 1 - n /\ more[i] = p  BY <1>1 DEF PaidIn
    <3>2. i - 1 \in 1..L /\ i - 1 > L - n /\ (i - 1) + 1 = i  BY <1>1, <3>1
    <3>3. paid[i - 1] = p  BY <1>2, <3>1, <3>2
    <3>4. QED  BY <1>1, <3>2, <3>3 DEF PaidIn
  <2>3. \A p : PaidIn(more, p, n) # {} <=> PaidIn(paid, p, n) # {}  BY <2>1, <2>2
  <2>4. ASSUME NEW i \in DOMAIN q, NEW j \in DOMAIN q, i < j
        PROVE  \E a \in PaidIn(more, q[i], n) : \A b \in PaidIn(more, q[j], n) : a < b
    <3>1. PICK a \in PaidIn(paid, q[i], n) : \A b \in PaidIn(paid, q[j], n) : a < b
      BY <1>3, <2>4 DEF OrderIn
    <3>2. a + 1 \in PaidIn(more, q[i], n)  BY <2>1
    <3>3. ASSUME NEW b \in PaidIn(more, q[j], n)  PROVE a + 1 < b
      <4>1. a < b - 1  BY <2>2, <3>1
      <4>2. a \in Int /\ b \in Int  BY <1>1 DEF PaidIn
      <4>3. QED  BY <4>1, <4>2
    <3>4. QED  BY <3>2, <3>3
  <2>5. QED  BY <1>3, <2>3, <2>4 DEF OrderIn
<1>4. ASSUME NEW range \in Seq(Refs), NEW e \in Nat, NEW n \in Nat, Covers(paid, range, e, n)
      PROVE  Covers(more, range, e, n)
  <2>1. ASSUME NEW i \in 1..Len(range)  PROVE range[i] = more[Len(more) - e + i]
    <3>1. range[i] = paid[L - e + i] /\ Len(range) <= e /\ e <= L /\ Len(range) \in Nat
      BY <1>4 DEF Covers
    <3>2. L - e + i \in 1..L /\ Len(more) - e + i = (L - e + i) + 1  BY <1>1, <3>1
    <3>3. QED  BY <1>2, <3>1, <3>2
  <2>2. QED  BY <1>1, <1>4, <2>1 DEF Covers
<1>5. QED  BY <1>1, <1>3, <1>4 DEF more

\* A list in the order of the oldest n payments, taken through a range that reaches
\* from there to the oldest e, is in the order of the oldest e.
LEMMA PromotedInOrder ==
  ASSUME NEW paid \in Seq(Refs), NEW list \in Seq(People), NEW range \in Seq(Refs),
         NEW e \in Nat, NEW n \in Nat, NEW call, call.list = list, call.range = range,
         Covers(paid, range, e, n), OrderIn(paid, list, n)
  PROVE  OrderIn(paid, Promoted(call), e)
<1> DEFINE s == Len(paid) - e
           L == Len(paid)
           k == Len(range)
           q == Promoted(call)
<1>1. /\ L \in Nat /\ DOMAIN paid = 1..L /\ k \in Nat
      /\ e <= L /\ n <= e /\ k <= e /\ e <= n + k
      /\ \A i \in 1..k : range[i] = paid[s + i]
  BY DEF Covers
<1>2. /\ q \in Seq(People)
      /\ ToSet(q) = ToSet(list) \union {p \in People : From(range, 1, p) # {}}
      /\ Ordered(q, list, range, 1)
  BY GoingOrders
<1> HIDE DEF q, k, L
<1>3. ASSUME NEW p, NEW v \in From(range, 1, p)  PROVE s + v \in PaidIn(paid, p, e)
  <2>1. v \in 1..k /\ range[v] = p  BY DEF From, k
  <2>2. s + v \in 1..L /\ s + v > L - e  BY <1>1, <2>1 DEF L
  <2>3. QED  BY <1>1, <2>1, <2>2 DEF PaidIn, L
<1>4. ASSUME NEW p, NEW b \in PaidIn(paid, p, e)
      PROVE  b - s \in From(range, 1, p) \/ (b > s + k /\ b \in PaidIn(paid, p, n))
  <2>1. b \in 1..L /\ b > L - e /\ paid[b] = p  BY <1>1 DEF PaidIn, L
  <2>2. CASE b <= s + k
    <3>1. b - s \in 1..k /\ s + (b - s) = b  BY <1>1, <2>1, <2>2 DEF L
    <3>2. QED  BY <1>1, <2>1, <3>1 DEF From, k
  <2>3. CASE b > s + k
    <3>1. b > L - n  BY <1>1, <2>1, <2>3 DEF L
    <3>2. QED  BY <1>1, <2>1, <2>3, <3>1 DEF PaidIn, L
  <2>4. b <= s + k \/ b > s + k  BY <1>1, <2>1 DEF L
  <2>5. QED  BY <2>2, <2>3, <2>4
<1>5. \A p : PaidIn(paid, p, n) \subseteq PaidIn(paid, p, e)
  BY <1>1 DEF PaidIn, L
<1>6. ToSet(q) = {p \in People : PaidIn(paid, p, e) # {}}
  <2>1. ToSet(list) = {p \in People : PaidIn(paid, p, n) # {}}  BY DEF OrderIn
  <2>2. ASSUME NEW p \in People
        PROVE  PaidIn(paid, p, e) # {} <=> PaidIn(paid, p, n) # {} \/ From(range, 1, p) # {}
    BY <1>3, <1>4, <1>5
  <2>3. QED  BY <1>2, <2>1, <2>2
<1>7. ASSUME NEW i \in DOMAIN q, NEW j \in DOMAIN q, i < j
      PROVE  \E a \in PaidIn(paid, q[i], e) : \A b \in PaidIn(paid, q[j], e) : a < b
  <2>1. CASE \E v \in From(range, 1, q[i]) : \A w \in From(range, 1, q[j]) : v < w
    <3>1. PICK v \in From(range, 1, q[i]) : \A w \in From(range, 1, q[j]) : v < w  BY <2>1
    <3>2. v \in 1..k  BY DEF From, k
    <3>3. ASSUME NEW b \in PaidIn(paid, q[j], e)  PROVE s + v < b
      <4>1. b \in Int /\ s \in Int  BY <1>1 DEF PaidIn, L
      <4>2. CASE b - s \in From(range, 1, q[j])
        <5>1. v < b - s  BY <3>1, <4>2
        <5>2. QED  BY <3>2, <4>1, <5>1
      <4>3. CASE b > s + k  BY <1>1, <3>2, <4>1, <4>3
      <4>4. QED  BY <1>4, <4>2, <4>3
    <3>4. QED  BY <1>3, <3>3
  <2>2. CASE /\ From(range, 1, q[i]) = {} /\ From(range, 1, q[j]) = {}
             /\ \E v, w \in DOMAIN list : v < w /\ list[v] = q[i] /\ list[w] = q[j]
    <3>1. PICK a \in PaidIn(paid, q[i], n) : \A b \in PaidIn(paid, q[j], n) : a < b
      BY <2>2 DEF OrderIn
    <3>2. \A b \in PaidIn(paid, q[j], e) : b \in PaidIn(paid, q[j], n)  BY <1>4, <2>2
    <3>3. QED  BY <1>5, <3>1, <3>2
  <2>3. QED  BY <1>2, <1>7, <2>1, <2>2 DEF Ordered
<1>8. QED  BY <1>6, <1>7 DEF OrderIn, q

\* The order of the model is the order on the current payments.
LEMMA InOrderIs == \A q, n : InOrder(q, n) <=> OrderIn(payments, q, n)
BY DEF InOrder, OrderIn, PaidAt, PaidIn

\* The contacts start in their invariant.
LEMMA ContactsStart == ContactsInit => ContactsInv
<1> SUFFICES ASSUME ContactsInit PROVE ContactsInv  OBVIOUS
<1> USE DEF ContactsInit
<1>1. payments = <<>> /\ Len(<<>>) = 0 /\ DOMAIN <<>> = {} /\ ToSet(<<>>) = {}
      /\ \A S : <<>> \in Seq(S)
  BY DEF ToSet
<1>2. IdleCall \in ContactStates /\ IdleCall.at = "idle" /\ IdleCall.len = 0
  BY <1>1 DEF IdleCall, ContactStates
<1>3. contactCall \in [ContactCalls -> ContactStates] /\ \A c \in ContactCalls : contactCall[c] = IdleCall
  BY <1>2
<1>4. ContactsTyped
  <2>1. payments \in Seq(Refs) /\ contacts \in Seq(People) /\ Len(payments) = 0 /\ lastlen = 0
    BY <1>1
  <2>2. \A c \in ContactCalls : contactCall[c].len = 0  BY <1>2, <1>3
  <2>3. lastlen \in 0..Len(payments)  BY <2>1
  <2>4. disturbed \in BOOLEAN  OBVIOUS
  <2>5. \A c \in ContactCalls : contactCall[c].len <= Len(payments)  BY <2>1, <2>2
  <2>6. QED  BY <2>1, <2>3, <2>4, <2>5, <1>3 DEF ContactsTyped
<1>5. OrderIn(payments, contacts, 0)  BY <1>1 DEF OrderIn, PaidIn
<1>6. Steady  BY <1>1, <1>2, <1>3, <1>5 DEF Steady, CallSteady, Counted
<1>7. QED  BY <1>4, <1>6 DEF ContactsInv

\* What is left to show of a step of call c, whose state becomes r, when the
\* others are idle.
LEMMA OneCallSteady ==
  ASSUME ContactsTyped, NEW c \in ContactCalls, NEW r,
         contactCall' = [contactCall EXCEPT ![c] = r],
         \A d \in ContactCalls \ {c} : contactCall[d].at = "idle",
         CallSteady(r)',
         r.at \notin {"contacts", "store"} =>
           \E n \in {lastlen', lastlen' + 1} :
             n <= Len(payments') /\ OrderIn(payments', contacts', n)
  PROVE  Steady'
<1>1. contactCall'[c] = r /\ \A d \in ContactCalls \ {c} : contactCall'[d] = contactCall[d]
  BY DEF ContactsTyped
<1>2. ASSUME NEW d \in ContactCalls  PROVE CallSteady(contactCall[d])'
  <2>1. CASE d = c  BY <1>1, <2>1 DEF CallSteady
  <2>2. CASE d # c
    <3>1. contactCall'[d].at = "idle"  BY <1>1, <2>2
    <3>2. QED  BY <3>1 DEF CallSteady
  <2>3. QED  BY <2>1, <2>2
<1>3. Counted'
  BY <1>1 DEF Counted
<1>4. QED  BY <1>1, <1>2, <1>3 DEF Steady

\* lRange reads the newest payments, no more than there are.
LEMMA NewestIs ==
  ASSUME payments \in Seq(Refs), NEW n \in Int
  PROVE  /\ Newest(n) \in Seq(Refs)
         /\ Len(Newest(n)) = IF n < 0 THEN 0 ELSE IF n < Len(payments) THEN n ELSE Len(payments)
         /\ \A i \in 1..Len(Newest(n)) : Newest(n)[i] = payments[i]
<1> DEFINE m == IF n < Len(payments) THEN n ELSE Len(payments)
<1>1. m \in Int /\ m <= Len(payments) /\ \A i \in 1..m : payments[i] \in Refs
  OBVIOUS
<1>2. Newest(n) = SubSeq(payments, 1, m)  BY DEF Newest
<1> HIDE DEF m
<1>3. /\ SubSeq(payments, 1, m) \in Seq(Refs)
      /\ Len(SubSeq(payments, 1, m)) = IF 1 <= m THEN m - 1 + 1 ELSE 0
      /\ \A i \in 1..(m - 1 + 1) : SubSeq(payments, 1, m)[i] = payments[1 + i - 1]
  BY <1>1, SubSeqProperties
<1>4. Len(payments) \in Nat  OBVIOUS
<1>5. Len(Newest(n)) = IF 1 <= m THEN m ELSE 0  BY <1>1, <1>2, <1>3
<1>6. \A i \in 1..Len(Newest(n)) : i \in 1..(m - 1 + 1) /\ 1 + i - 1 = i  BY <1>1, <1>5
<1>7. QED  BY <1>2, <1>3, <1>4, <1>5, <1>6 DEF m

\* Every step of a call on the contacts keeps their types.
LEMMA ContactsStayTyped == ContactsTyped /\ [ContactsNext]_contactsVars => ContactsTyped'
<1> SUFFICES ASSUME ContactsTyped, [ContactsNext]_contactsVars  PROVE ContactsTyped'
  OBVIOUS
<1>a. /\ payments \in Seq(Refs) /\ contacts \in Seq(People) /\ lastlen \in Nat
      /\ Len(payments) \in Nat /\ lastlen <= Len(payments)
      /\ contactCall \in [ContactCalls -> ContactStates]
      /\ disturbed \in BOOLEAN
  BY DEF ContactsTyped
<1>b. ASSUME NEW c \in ContactCalls
      PROVE  /\ contactCall[c] \in ContactStates /\ contactCall[c].len <= Len(payments)
             /\ contactCall[c].len \in Nat /\ contactCall[c].last \in Nat
             /\ contactCall[c].range \in Seq(Refs) /\ contactCall[c].list \in Seq(People)
  BY DEF ContactsTyped, ContactStates
<1>c. IdleCall \in ContactStates /\ IdleCall.len = 0
  BY DEF IdleCall, ContactStates
\* A step of one call that leaves the payments alone
<1>d. ASSUME NEW c \in ContactCalls, NEW r \in ContactStates, Proceed(c, r),
             payments' = payments, contacts' \in Seq(People), r.len <= Len(payments),
             lastlen' \in {lastlen, contactCall[c].len}, disturbed' \in BOOLEAN
      PROVE  ContactsTyped'
  BY <1>a, <1>b, <1>d DEF ContactsTyped, Proceed
<1>1. ASSUME NEW ref \in Refs, Pay(ref)  PROVE ContactsTyped'
  <2>1. payments' \in Seq(Refs) /\ Len(payments') = Len(payments) + 1
    BY <1>1, <1>a, PaysKeep DEF Pay
  <2>2. disturbed' \in BOOLEAN  BY <1>1 DEF Pay
  <2>3. QED  BY <1>1, <1>a, <1>b, <2>1, <2>2 DEF Pay, ContactsTyped
<1>2. ASSUME NEW c \in ContactCalls, GetLastlen(c)  PROVE ContactsTyped'
  <2> DEFINE r == [contactCall[c] EXCEPT !.at = "len", !.last = lastlen]
  <2>1. r \in ContactStates /\ r.len = contactCall[c].len
    BY <1>a, <1>b DEF ContactStates
  <2>2. Proceed(c, r)  BY <1>2 DEF GetLastlen
  <2> HIDE DEF r
  <2>3. disturbed' \in BOOLEAN  BY <1>2 DEF GetLastlen
  <2>4. QED  BY <1>2, <1>a, <1>b, <1>d, <2>1, <2>2, <2>3 DEF GetLastlen
<1>3. ASSUME NEW c \in ContactCalls, GetLen(c)  PROVE ContactsTyped'
  <2> DEFINE r == [contactCall[c] EXCEPT !.at = "range", !.len = Len(payments)]
  <2>1. r \in ContactStates /\ r.len = Len(payments)
    BY <1>a, <1>b DEF ContactStates
  <2>2. Proceed(c, r)  BY <1>3 DEF GetLen
  <2> HIDE DEF r
  <2>4. QED  BY <1>3, <1>a, <1>b, <1>d, <2>1, <2>2 DEF GetLen
<1>4. ASSUME NEW c \in ContactCalls, GetRange(c)  PROVE ContactsTyped'
  <2> DEFINE q == Newest(contactCall[c].len - contactCall[c].last + 1)
  <2>1. q \in Seq(Refs)
    <3>1. contactCall[c].len - contactCall[c].last + 1 \in Int  BY <1>b
    <3>2. QED  BY <1>a, <3>1, NewestIs
  <2>2. Proceed(c, [contactCall[c] EXCEPT !.at = "set", !.range = q])  BY <1>4 DEF GetRange
  <2> HIDE DEF q
  <2>3. [contactCall[c] EXCEPT !.at = "set", !.range = q] \in ContactStates
        /\ [contactCall[c] EXCEPT !.at = "set", !.range = q].len = contactCall[c].len
    BY <1>b, <2>1 DEF ContactStates
  <2>4. QED  BY <1>4, <1>a, <1>b, <1>d, <2>2, <2>3 DEF GetRange
<1>5. ASSUME NEW c \in ContactCalls, SetLastlen(c)  PROVE ContactsTyped'
  <2> DEFINE r == [contactCall[c] EXCEPT !.at = "contacts"]
  <2>1. r \in ContactStates /\ r.len = contactCall[c].len
    BY <1>a, <1>b DEF ContactStates
  <2>2. Proceed(c, r)  BY <1>5 DEF SetLastlen
  <2> HIDE DEF r
  <2>4. QED  BY <1>5, <1>a, <1>b, <1>d, <2>1, <2>2 DEF SetLastlen
<1>6. ASSUME NEW c \in ContactCalls, GetContacts(c)  PROVE ContactsTyped'
  <2> DEFINE r == [contactCall[c] EXCEPT !.at = "store", !.list = contacts]
  <2>1. r \in ContactStates /\ r.len = contactCall[c].len
    BY <1>a, <1>b DEF ContactStates
  <2>2. Proceed(c, r)  BY <1>6 DEF GetContacts
  <2> HIDE DEF r
  <2>4. QED  BY <1>6, <1>a, <1>b, <1>d, <2>1, <2>2 DEF GetContacts
<1>7. ASSUME NEW c \in ContactCalls, StoreContacts(c)  PROVE ContactsTyped'
  <2>1. Promoted(contactCall[c]) \in Seq(People)  BY <1>b, GoingOrders
  <2>2. QED  BY <1>7, <1>a, <1>b, <1>c, <1>d, <2>1 DEF StoreContacts
<1>8. ASSUME NEW c \in ContactCalls, ContactsFail(c)  PROVE ContactsTyped'
  <2>1. lastlen' \in {lastlen, contactCall[c].len}  BY <1>8 DEF ContactsFail
  <2>2. disturbed' \in BOOLEAN  BY <1>8 DEF ContactsFail
  <2>3. QED  BY <1>8, <1>a, <1>b, <1>c, <1>d, <2>1, <2>2 DEF ContactsFail
<1>9. CASE UNCHANGED contactsVars
  BY <1>9 DEF contactsVars, ContactsTyped
<1>10. QED
  BY <1>1, <1>2, <1>3, <1>4, <1>5, <1>6, <1>7, <1>8, <1>9 DEF ContactsNext, Refs

\* Until two calls overlap, two payments slip in or a call fails late, every step
\* keeps the list, the marker and what the call in hand has read in one order.
LEMMA ContactsStaySteady ==
  ASSUME ContactsTyped, Steady, ~disturbed, [ContactsNext]_contactsVars, ~disturbed'
  PROVE  Steady'
<1>a. /\ payments \in Seq(Refs) /\ contacts \in Seq(People) /\ lastlen \in Nat
      /\ Len(payments) \in Nat /\ lastlen <= Len(payments)
      /\ contactCall \in [ContactCalls -> ContactStates]
  BY DEF ContactsTyped
<1>b. ASSUME NEW c \in ContactCalls
      PROVE  /\ contactCall[c] \in ContactStates /\ contactCall[c].len <= Len(payments)
             /\ contactCall[c].len \in Nat /\ contactCall[c].last \in Nat
             /\ contactCall[c].range \in Seq(Refs) /\ contactCall[c].list \in Seq(People)
             /\ CallSteady(contactCall[c])
  BY DEF ContactsTyped, ContactStates, Steady
\* The others are idle.
<1>c. ASSUME NEW c \in ContactCalls, contactCall[c].at # "idle"
      PROVE  \A d \in ContactCalls \ {c} : contactCall[d].at = "idle"
  BY <1>c DEF Steady
<1>d. ASSUME NEW c \in ContactCalls, contactCall[c].at \notin {"contacts", "store"},
             \A d \in ContactCalls \ {c} : contactCall[d].at = "idle"
      PROVE  \E n \in {lastlen, lastlen + 1} : n <= Len(payments) /\ OrderIn(payments, contacts, n)
  <2>1. \A e \in ContactCalls : contactCall[e].at \notin {"contacts", "store"}
    BY <1>d
  <2>2. QED  BY <2>1 DEF Steady, Counted
<1>e. IdleCall.at = "idle"  BY DEF IdleCall
<1>1. ASSUME NEW ref \in Refs, Pay(ref)  PROVE Steady'
  <2>1. payments' = <<ref>> \o payments /\ UNCHANGED <<lastlen, contacts, contactCall>>
    BY <1>1 DEF Pay
  <2>2. \A c \in ContactCalls : CallAt(c, "range") => ~(Len(payments) > contactCall[c].len)
    <3>1. disturbed' = (disturbed \/ \E c \in ContactCalls :
                           CallAt(c, "range") /\ Len(payments) > contactCall[c].len)
      BY <1>1 DEF Pay
    <3>2. QED  BY <3>1
  <2>3. Len(payments') = Len(payments) + 1
    BY <1>a, <2>1, PaysKeep
  <2>4. \A q \in Seq(People), n \in 0..Len(payments) :
          OrderIn(payments, q, n) => OrderIn(payments', q, n)
    BY <1>a, <2>1, PaysKeep
  <2>5. \A range \in Seq(Refs), e, n \in Nat :
          Covers(payments, range, e, n) => Covers(payments', range, e, n)
    BY <1>a, <2>1, PaysKeep
  <2>6. ASSUME NEW c \in ContactCalls  PROVE CallSteady(contactCall[c])'
    <3> DEFINE call == contactCall[c]
    <3>0. /\ call \in ContactStates /\ call.len <= Len(payments) /\ call.len \in Nat
          /\ call.range \in Seq(Refs) /\ call.list \in Seq(People) /\ CallSteady(call)
          /\ call' = call
      BY <1>b, <2>1
    <3>1. call.at = "range" => Len(payments) <= call.len
      <4>1. CallAt(c, "range") <=> call.at = "range"  BY DEF CallAt
      <4>2. QED  BY <1>a, <2>2, <3>0, <4>1
    <3> HIDE DEF call
    <3>2. call.at = "len" => call.last = lastlen  BY <3>0 DEF CallSteady
    <3>3. ASSUME call.at = "range"
          PROVE  /\ call.last = lastlen /\ Len(payments') <= call.len + 1
                 /\ \E n \in {lastlen, lastlen + 1} :
                      n <= call.len /\ OrderIn(payments', contacts, n)
      <4>1. call.last = lastlen  BY <3>0, <3>3 DEF CallSteady
      <4>2. PICK n \in {lastlen, lastlen + 1} : n <= call.len /\ OrderIn(payments, contacts, n)
        BY <3>0, <3>3 DEF CallSteady
      <4>3. n \in 0..Len(payments)  BY <1>a, <3>0, <4>2
      <4>4. OrderIn(payments', contacts, n)  BY <1>a, <2>4, <4>2, <4>3
      <4>5. Len(payments') <= call.len + 1  BY <1>a, <2>3, <3>0, <3>1, <3>3
      <4>6. QED  BY <4>1, <4>2, <4>4, <4>5
    <3>4. ASSUME NEW e \in Nat, NEW n \in Nat, NEW q \in Seq(People),
                 Covers(payments, call.range, e, n), OrderIn(payments, q, n)
          PROVE  Covers(payments', call.range, e, n) /\ OrderIn(payments', q, n)
      <4>1. Covers(payments', call.range, e, n)  BY <2>5, <3>0, <3>4
      <4>2. n \in 0..Len(payments)
        <5>1. n <= e /\ e <= Len(payments)  BY <3>4 DEF Covers
        <5>2. QED  BY <1>a, <5>1
      <4>3. QED  BY <2>4, <3>4, <4>1, <4>2
    <3>5. ASSUME call.at = "set"
          PROVE  \E e \in {call.len, call.len + 1}, n \in Nat :
                   Covers(payments', call.range, e, n) /\ OrderIn(payments', contacts, n)
      <4>1. PICK e \in {call.len, call.len + 1}, n \in Nat :
              Covers(payments, call.range, e, n) /\ OrderIn(payments, contacts, n)
        BY <3>0, <3>5 DEF CallSteady
      <4>2. e \in Nat  BY <3>0
      <4>3. QED  BY <1>a, <3>4, <4>1, <4>2
    <3>6. ASSUME call.at = "contacts"
          PROVE  \E e \in {lastlen, lastlen + 1}, n \in Nat :
                   Covers(payments', call.range, e, n) /\ OrderIn(payments', contacts, n)
      <4>1. PICK e \in {lastlen, lastlen + 1}, n \in Nat :
              Covers(payments, call.range, e, n) /\ OrderIn(payments, contacts, n)
        BY <3>0, <3>6 DEF CallSteady
      <4>2. e \in Nat  BY <1>a
      <4>3. QED  BY <1>a, <3>4, <4>1, <4>2
    <3>7. ASSUME call.at = "store"
          PROVE  \E e \in {lastlen, lastlen + 1}, n \in Nat :
                   Covers(payments', call.range, e, n) /\ OrderIn(payments', call.list, n)
      <4>1. PICK e \in {lastlen, lastlen + 1}, n \in Nat :
              Covers(payments, call.range, e, n) /\ OrderIn(payments, call.list, n)
        BY <3>0, <3>7 DEF CallSteady
      <4>2. e \in Nat  BY <1>a
      <4>3. QED  BY <3>0, <3>4, <4>1, <4>2
    <3>8. CallSteady(call)'
      BY <2>1, <3>0, <3>2, <3>3, <3>5, <3>6, <3>7 DEF CallSteady
    <3>9. QED  BY <3>8 DEF call
  <2>7. Counted'
    <3> SUFFICES ASSUME (\A c \in ContactCalls : contactCall[c].at \notin {"contacts", "store"})'
                 PROVE  (\E n \in {lastlen, lastlen + 1} :
                           n <= Len(payments) /\ OrderIn(payments, contacts, n))'
      BY DEF Counted
    <3>1. \A c \in ContactCalls : contactCall[c].at \notin {"contacts", "store"}  BY <2>1
    <3>2. PICK n \in {lastlen, lastlen + 1} : n <= Len(payments) /\ OrderIn(payments, contacts, n)
      BY <3>1 DEF Steady, Counted
    <3>3. n \in 0..Len(payments)  BY <1>a, <3>2
    <3>4. OrderIn(payments', contacts, n) /\ n <= Len(payments')
      BY <1>a, <2>3, <2>4, <3>2, <3>3
    <3>5. QED  BY <2>1, <3>2, <3>4
  <2>8. QED  BY <2>1, <2>6, <2>7 DEF Steady
<1>2. ASSUME NEW c \in ContactCalls, GetLastlen(c)  PROVE Steady'
  <2>1. PICK r : r = [contactCall[c] EXCEPT !.at = "len", !.last = lastlen]  OBVIOUS
  <2>2. /\ contactCall' = [contactCall EXCEPT ![c] = r]
        /\ UNCHANGED <<payments, lastlen, contacts>>
    BY <1>2, <2>1 DEF GetLastlen, Proceed
  <2>3. r.at = "len" /\ r.last = lastlen  BY <1>b, <2>1 DEF ContactStates
  <2>4. Quiet
    <3>1. disturbed' = (disturbed \/ ~Quiet)  BY <1>2 DEF GetLastlen
    <3>2. QED  BY <3>1
  <2>5. \A d \in ContactCalls : contactCall[d].at = "idle"  BY <2>4 DEF Quiet, CallAt
  <2>6. CallSteady(r)'  BY <2>2, <2>3 DEF CallSteady
  <2>7. \E n \in {lastlen, lastlen + 1} : n <= Len(payments) /\ OrderIn(payments, contacts, n)
    BY <1>d, <2>5
  <2>8. QED  BY <2>2, <2>5, <2>6, <2>7, OneCallSteady
<1>3. ASSUME NEW c \in ContactCalls, GetLen(c)  PROVE Steady'
  <2>1. PICK r : r = [contactCall[c] EXCEPT !.at = "range", !.len = Len(payments)]  OBVIOUS
  <2>2. /\ contactCall[c].at = "len" /\ contactCall' = [contactCall EXCEPT ![c] = r]
        /\ UNCHANGED <<payments, lastlen, contacts>>
    BY <1>3, <2>1 DEF GetLen, Proceed, CallAt
  <2>3. r.at = "range" /\ r.last = contactCall[c].last /\ r.len = Len(payments)
    BY <1>b, <2>1 DEF ContactStates
  <2>4. \A d \in ContactCalls \ {c} : contactCall[d].at = "idle"  BY <1>c, <2>2
  <2>5. \E n \in {lastlen, lastlen + 1} : n <= Len(payments) /\ OrderIn(payments, contacts, n)
    BY <1>d, <2>2, <2>4
  <2>6. r.last = lastlen  BY <1>b, <2>2, <2>3 DEF CallSteady
  <2>7. Len(payments) <= Len(payments) + 1  BY <1>a
  <2>8. CallSteady(r)'  BY <2>2, <2>3, <2>5, <2>6, <2>7 DEF CallSteady
  <2>9. QED  BY <2>2, <2>4, <2>5, <2>8, OneCallSteady
<1>4. ASSUME NEW c \in ContactCalls, GetRange(c)  PROVE Steady'
  <2> DEFINE L == Len(payments)
             len == contactCall[c].len
             last == contactCall[c].last
  <2>1. PICK q : q = Newest(len - last + 1)  OBVIOUS
  <2>2. PICK r : r = [contactCall[c] EXCEPT !.at = "set", !.range = q]  OBVIOUS
  <2>3. /\ contactCall[c].at = "range" /\ contactCall' = [contactCall EXCEPT ![c] = r]
        /\ UNCHANGED <<payments, lastlen, contacts>>
    BY <1>4, <2>1, <2>2 DEF GetRange, Proceed, CallAt
  <2>4. r.at = "set" /\ r.range = q /\ r.len = len
    BY <1>b, <2>2 DEF ContactStates
  <2>5. \A d \in ContactCalls \ {c} : contactCall[d].at = "idle"  BY <1>c, <2>3
  <2>6. \E n \in {lastlen, lastlen + 1} : n <= Len(payments) /\ OrderIn(payments, contacts, n)
    BY <1>d, <2>3, <2>5
  <2>7. last = lastlen /\ L <= len + 1 /\ len <= L /\ len \in Nat /\ last \in Nat
    BY <1>b, <2>3 DEF CallSteady
  <2>8. PICK n \in {last, last + 1} : n <= len /\ OrderIn(payments, contacts, n)
    BY <1>b, <2>3, <2>7 DEF CallSteady
  <2> HIDE DEF L, len, last
  <2>9. n \in Nat /\ L \in Nat /\ len - last + 1 \in Int /\ L \in {len, len + 1} /\ last <= len
    BY <1>a, <2>7, <2>8 DEF L
  <2>10. /\ Len(q) = IF len - last + 1 < L THEN len - last + 1 ELSE L
         /\ \A i \in 1..Len(q) : q[i] = payments[i]
    <3>1. ~(len - last + 1 < 0)  BY <2>7, <2>9
    <3>2. /\ Len(q) = IF len - last + 1 < 0 THEN 0 ELSE IF len - last + 1 < L THEN len - last + 1 ELSE L
          /\ \A i \in 1..Len(q) : q[i] = payments[i]
      BY <1>a, <2>1, <2>9, NewestIs DEF L
    <3>3. QED  BY <3>1, <3>2
  <2>11. Covers(payments, q, L, n)
    <3>1. L <= Len(payments) /\ n <= L  BY <2>7, <2>8, <2>9 DEF L
    <3>2. Len(q) <= L /\ L <= n + Len(q)  BY <2>7, <2>8, <2>9, <2>10
    <3>3. \A i \in 1..Len(q) : Len(payments) - L + i = i  BY <1>a DEF L
    <3>4. QED  BY <2>10, <3>1, <3>2, <3>3 DEF Covers
  <2>12. CallSteady(r)'  BY <2>3, <2>4, <2>8, <2>9, <2>11 DEF CallSteady
  <2>13. QED  BY <2>3, <2>5, <2>6, <2>12, OneCallSteady
<1>5. ASSUME NEW c \in ContactCalls, SetLastlen(c)  PROVE Steady'
  <2>1. PICK r : r = [contactCall[c] EXCEPT !.at = "contacts"]  OBVIOUS
  <2>2. /\ contactCall[c].at = "set" /\ contactCall' = [contactCall EXCEPT ![c] = r]
        /\ lastlen' = contactCall[c].len /\ UNCHANGED <<payments, contacts>>
    BY <1>5, <2>1 DEF SetLastlen, Proceed, CallAt
  <2>3. r.at = "contacts" /\ r.range = contactCall[c].range
    BY <1>b, <2>1 DEF ContactStates
  <2>4. \A d \in ContactCalls \ {c} : contactCall[d].at = "idle"  BY <1>c, <2>2
  <2>5. \E e \in {lastlen', lastlen' + 1}, n \in Nat :
          Covers(payments, r.range, e, n) /\ OrderIn(payments, contacts, n)
    BY <1>b, <2>2, <2>3 DEF CallSteady
  <2>6. CallSteady(r)'  BY <2>2, <2>3, <2>5 DEF CallSteady
  <2>7. QED  BY <2>2, <2>3, <2>4, <2>6, OneCallSteady
<1>6. ASSUME NEW c \in ContactCalls, GetContacts(c)  PROVE Steady'
  <2>1. PICK r : r = [contactCall[c] EXCEPT !.at = "store", !.list = contacts]  OBVIOUS
  <2>2. /\ contactCall[c].at = "contacts" /\ contactCall' = [contactCall EXCEPT ![c] = r]
        /\ UNCHANGED <<payments, lastlen, contacts>>
    BY <1>6, <2>1 DEF GetContacts, Proceed, CallAt
  <2>3. r.at = "store" /\ r.range = contactCall[c].range /\ r.list = contacts
    BY <1>b, <2>1 DEF ContactStates
  <2>4. \A d \in ContactCalls \ {c} : contactCall[d].at = "idle"  BY <1>c, <2>2
  <2>5. \E e \in {lastlen, lastlen + 1}, n \in Nat :
          Covers(payments, r.range, e, n) /\ OrderIn(payments, r.list, n)
    BY <1>b, <2>2, <2>3 DEF CallSteady
  <2>6. CallSteady(r)'  BY <2>2, <2>3, <2>5 DEF CallSteady
  <2>7. QED  BY <2>2, <2>3, <2>4, <2>6, OneCallSteady
<1>7. ASSUME NEW c \in ContactCalls, StoreContacts(c)  PROVE Steady'
  <2>1. /\ contactCall[c].at = "store" /\ contactCall' = [contactCall EXCEPT ![c] = IdleCall]
        /\ contacts' = Promoted(contactCall[c]) /\ UNCHANGED <<payments, lastlen>>
    BY <1>7 DEF StoreContacts, Proceed, CallAt
  <2>2. \A d \in ContactCalls \ {c} : contactCall[d].at = "idle"  BY <1>c, <2>1
  <2>3. PICK e \in {lastlen, lastlen + 1}, n \in Nat :
          Covers(payments, contactCall[c].range, e, n) /\ OrderIn(payments, contactCall[c].list, n)
    BY <1>b, <2>1 DEF CallSteady
  <2>4. e \in Nat /\ e <= Len(payments)  BY <1>a, <2>3 DEF Covers
  <2>5. OrderIn(payments, contacts', e)
    BY <1>a, <1>b, <2>1, <2>3, <2>4, PromotedInOrder
  <2>6. CallSteady(IdleCall)'  BY <1>e DEF CallSteady, IdleCall
  <2>7. \E m \in {lastlen', lastlen' + 1} : m <= Len(payments') /\ OrderIn(payments', contacts', m)
    BY <2>1, <2>3, <2>4, <2>5
  <2>8. QED  BY <2>1, <2>2, <2>6, <2>7, OneCallSteady
<1>8. ASSUME NEW c \in ContactCalls, ContactsFail(c)  PROVE Steady'
  <2>1. /\ contactCall[c].at # "idle" /\ contactCall' = [contactCall EXCEPT ![c] = IdleCall]
        /\ UNCHANGED <<payments, contacts>>
    BY <1>8 DEF ContactsFail, Proceed, CallAt
  <2>2. /\ lastlen' = lastlen /\ contactCall[c].at \notin {"contacts", "store"}
    <3>1. disturbed' = (disturbed \/ lastlen' # lastlen \/ CallAt(c, "contacts") \/ CallAt(c, "store"))
      BY <1>8 DEF ContactsFail
    <3>2. QED  BY <3>1 DEF CallAt
  <2>3. \A d \in ContactCalls \ {c} : contactCall[d].at = "idle"  BY <1>c, <2>1
  <2>4. CallSteady(IdleCall)'  BY <1>e DEF CallSteady, IdleCall
  <2>5. \E m \in {lastlen', lastlen' + 1} : m <= Len(payments') /\ OrderIn(payments', contacts', m)
    BY <1>d, <2>1, <2>2, <2>3
  <2>6. QED  BY <2>1, <2>3, <2>4, <2>5, OneCallSteady
<1>9. CASE UNCHANGED contactsVars
  BY <1>9 DEF contactsVars, Steady, CallSteady, Counted
<1>10. QED
  BY <1>1, <1>2, <1>3, <1>4, <1>5, <1>6, <1>7, <1>8, <1>9 DEF ContactsNext, Refs

\* Every step keeps the invariant of the contacts.
LEMMA ContactsKeep == ContactsInv /\ [ContactsNext]_contactsVars => ContactsInv'
<1> SUFFICES ASSUME ContactsInv, [ContactsNext]_contactsVars  PROVE ContactsInv'
  OBVIOUS
<1>1. ContactsTyped'  BY ContactsStayTyped DEF ContactsInv
<1>2. disturbed => disturbed'
  BY DEF ContactsNext, contactsVars, Pay, GetLastlen, GetLen, GetRange, SetLastlen, GetContacts,
         StoreContacts, ContactsFail
<1>3. ~disturbed' => Steady'
  BY <1>2, ContactsStaySteady DEF ContactsInv
<1>4. QED  BY <1>1, <1>3 DEF ContactsInv

\* Until one of those disturbs them, the list, the marker and what the call in hand
\* has read (users.ts:561-587) all speak of the same payments, in one order.
THEOREM ContactsInvariance == ContactsSpec => []ContactsInv
BY ContactsStart, ContactsKeep, PTL DEF ContactsSpec

\* For any number of people, of payments and of calls, the contacts stored bit by
\* bit (users.ts:561-587) are, when no call is under way, what the counted payments
\* say, or those and the next one; unless two calls overlapped, two payments came
\* between the length and the range, or a call failed after its count was stored.
THEOREM ContactsStayExact == ContactsSpec => []ContactsExact
<1>1. ContactsInv => ContactsExact
  <2> SUFFICES ASSUME ContactsInv, Quiet, ~disturbed
               PROVE  InOrder(contacts, lastlen) \/ InOrder(contacts, lastlen + 1)
    BY DEF ContactsExact
  <2>1. \A c \in ContactCalls : contactCall[c].at = "idle"  BY DEF Quiet, CallAt
  <2>2. PICK n \in {lastlen, lastlen + 1} : OrderIn(payments, contacts, n)
    BY <2>1 DEF ContactsInv, Steady, Counted
  <2>3. QED  BY <2>2, InOrderIs
<1>2. QED  BY <1>1, ContactsInvariance, PTL

====
