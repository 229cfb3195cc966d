---- MODULE Apps ----
(***************************************************************************)
(* Users' connected apps (routes/users.ts): a record under app:<pubkey>,   *)
(* and for each user the set of its pubkeys.  Creating or changing an app stores  *)
(* the record and then adds the pubkey to the set; deleting it takes the   *)
(* pubkey out of the set and then drops the record.  Reading the apps      *)
(* changes nothing; it takes the set, then every record, and fails on a    *)
(* pubkey without one.                                                     *)
(*                                                                         *)
(* The record belongs to the pubkey, the sets to the users.  Changing and  *)
(* deleting first look for the app's owner, but under the bare pubkey,     *)
(* where nothing is stored: the look decides nothing, and is left out, so  *)
(* that a user's deletion drops the record whose pubkey another user keeps. *)
(***************************************************************************)
EXTENDS Naturals

CONSTANTS AppUsers,
          Pubkeys,
          NoPubkey,
          AppCalls,     \* slots for the calls under way
          MaxAppCalls   \* bound: calls in a run

ASSUME AppsAssumption == NoPubkey \notin Pubkeys /\ AppUsers # {}

VARIABLES appRecords,   \* the pubkeys with a record
          index,        \* per user, its set of pubkeys
          appCall,      \* per slot, [kind, at, uid, pubkey]
          appCalls,     \* calls begun so far
          raced,        \* ghost: pubkeys changed while they were being deleted
          bereft        \* ghost: pubkeys one user kept while another deleted them

appsVars == <<appRecords, index, appCall, appCalls, raced, bereft>>

AppRequest(k, p, u, pubkey) == [kind |-> k, at |-> p, uid |-> u, pubkey |-> pubkey]

NoAppCall == AppRequest("none", "idle", CHOOSE u \in AppUsers : TRUE, NoPubkey)

AppsInit ==
  /\ appRecords = {}
  /\ index = [u \in AppUsers |-> {}]
  /\ appCall = [c \in AppCalls |-> NoAppCall]
  /\ appCalls = 0
  /\ raced = {}
  /\ bereft = {}

AppAt(c, k, p) == appCall[c].kind = k /\ appCall[c].at = p

\* Some call of kind k has come to p for the pubkey.
UnderWay(k, p, pubkey) == \E c \in AppCalls : AppAt(c, k, p) /\ appCall[c].pubkey = pubkey

BeginApp(c, k, u, pubkey) ==
  /\ appCall[c] = NoAppCall /\ appCalls < MaxAppCalls
  /\ appCalls' = appCalls + 1
  /\ appCall' = [appCall EXCEPT ![c] = AppRequest(k, "first", u, pubkey)]

MoveApp(c, r) == appCall' = [appCall EXCEPT ![c] = r] /\ UNCHANGED appCalls

SecondStep(c) == MoveApp(c, [appCall[c] EXCEPT !.at = "second"])

EndApp(c) == MoveApp(c, NoAppCall)

\* A new account's own app, or updateApp.
UpdateApp(c, u, pubkey) ==
  /\ BeginApp(c, "update", u, pubkey)
  /\ UNCHANGED <<appRecords, index, raced, bereft>>

StoreApp(c) ==
  /\ AppAt(c, "update", "first")
  /\ appRecords' = appRecords \union {appCall[c].pubkey}
  /\ raced' = raced \union {p \in {appCall[c].pubkey} : UnderWay("delete", "second", p)}
  /\ SecondStep(c)
  /\ UNCHANGED <<index, bereft>>

\* The write fails: s logs it, and the handler goes on.  The pubkey is then
\* added to the set without a record, unless it has one already.
StoreAppFails(c) ==
  /\ AppAt(c, "update", "first")
  /\ raced' = raced \union {appCall[c].pubkey}
  /\ SecondStep(c)
  /\ UNCHANGED <<appRecords, index, bereft>>

IndexApp(c) ==
  /\ AppAt(c, "update", "second")
  /\ index' = [index EXCEPT ![appCall[c].uid] = @ \union {appCall[c].pubkey}]
  /\ EndApp(c)
  /\ UNCHANGED <<appRecords, raced, bereft>>

DeleteApp(c, u, pubkey) ==
  /\ BeginApp(c, "delete", u, pubkey)
  /\ UNCHANGED <<appRecords, index, raced, bereft>>

\* The call's pubkey, when a user other than its own keeps it.
KeptByOthers(c) ==
  {p \in {appCall[c].pubkey} : \E u \in AppUsers \ {appCall[c].uid} : p \in index[u]}

\* Mutant: the record goes before the index.
DropAppFirst(c) ==
  /\ AppAt(c, "delete", "first")
  /\ appRecords' = appRecords \ {appCall[c].pubkey}
  /\ raced' = raced \union {p \in {appCall[c].pubkey} : UnderWay("update", "second", p)}
  /\ bereft' = bereft \union KeptByOthers(c)
  /\ SecondStep(c)
  /\ UNCHANGED index

UnindexApp(c) ==
  /\ AppAt(c, "delete", "first")
  /\ index' = [index EXCEPT ![appCall[c].uid] = @ \ {appCall[c].pubkey}]
  /\ raced' = raced \union {p \in {appCall[c].pubkey} : UnderWay("update", "second", p)}
  /\ SecondStep(c)
  /\ UNCHANGED <<appRecords, bereft>>

DropApp(c) ==
  /\ AppAt(c, "delete", "second")
  /\ appRecords' = appRecords \ {appCall[c].pubkey}
  /\ bereft' = bereft \union KeptByOthers(c)
  /\ EndApp(c)
  /\ UNCHANGED <<index, raced>>

\* A command times out, and the call ends there.
AppFails(c) ==
  /\ appCall[c] # NoAppCall
  /\ EndApp(c)
  /\ UNCHANGED <<appRecords, index, raced, bereft>>

AppsNext ==
  \E c \in AppCalls :
    \/ \E u \in AppUsers, pubkey \in Pubkeys : UpdateApp(c, u, pubkey) \/ DeleteApp(c, u, pubkey)
    \/ StoreApp(c)
    \/ StoreAppFails(c)
    \/ IndexApp(c)
    \/ UnindexApp(c)
    \/ DropApp(c)
    \/ AppFails(c)

AppsSpec == AppsInit /\ [][AppsNext]_appsVars

-----------------------------------------------------------------------------

AppsTypeOK ==
  /\ appRecords \subseteq Pubkeys
  /\ index \in [AppUsers -> SUBSET Pubkeys]
  /\ \A c \in AppCalls : /\ appCall[c].kind \in {"none", "update", "delete"}
                         /\ appCall[c].at \in {"idle", "first", "second"}
                         /\ appCall[c].uid \in AppUsers
                         /\ appCall[c].pubkey \in Pubkeys \union {NoPubkey}
  /\ appCalls \in 0..MaxAppCalls
  /\ raced \union bereft \subseteq Pubkeys

\* A pubkey in a user's set without a record, which makes every reading of that
\* user's apps fail from then on, comes about only when a change of the app
\* overlapped its deletion, when the record's write failed, or when another user
\* deleted the app: a user's own changes and deletions, overlapping or broken
\* off halfway in either order, are harmless (users.ts:889-947).
IndexedIsStored == \A u \in AppUsers : index[u] \ (raced \union bereft) \subseteq appRecords

\* A user's app keeps its record while other users change and delete apps
\* (users.ts:889-947).  The code does not see to it: the owner is looked for
\* under the bare pubkey, and the record is dropped for everyone.
OwnAppsKept == \A u \in AppUsers : index[u] \ raced \subseteq appRecords

====
