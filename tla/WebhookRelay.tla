---------------------------- MODULE WebhookRelay ----------------------------
(***************************************************************************)
(* Relaying a Breez webhook to the payee's browser                         *)
(* (src/routes/webhook.ts, src/lib/sockets.ts).  notify stores the call,   *)
(* emits an event to the browser and polls Redis once a second for the     *)
(* answer that the browser posts to respond; after Polls polls it gives    *)
(* up.  Both handlers store a key and set its expiry in a second command;   *)
(* a SET that fails is logged and the handler goes on, and the EXPIRE is    *)
(* waited for without a timer.                                              *)
(*                                                                         *)
(* One call of notify per id.  Posts come from whoever has learnt the id    *)
(* since its event was emitted, more than once, early or late.              *)
(***************************************************************************)
EXTENDS Integers

CONSTANTS
    Calls,     \* calls of notify, named by their requestId
    Polls,     \* the 30 rounds of the loop
    RespTtl,   \* the 60 seconds an answer is kept
    MaxPosts,  \* bound on the posts for a call
    MaxTime    \* bound on the clock

ASSUME RelayAssumption ==
    /\ Polls \in Nat \ {0} /\ MaxPosts \in Nat /\ MaxTime \in Nat
    /\ RespTtl \in Nat /\ RespTtl > 1   \* longer than the sleep between two polls

VARIABLES
    now,       \* seconds
    pc,        \* where a call of notify is
    rounds,    \* polls it has made
    wakeAt,    \* when its sleep ends
    requests,  \* webhook:<id> keys: no key, without expiry, with one
    answers,   \* webhook:<id>:response keys, with their expiry
    posts,     \* calls of respond made for an id
    unset,     \* posts between their two commands
    told,      \* ghost: ids whose event was handed to a listener
    ready,     \* ghost: ids whose answer was stored when a poll was still due
    posted     \* ghost: ids whose answer was posted then, stored or not

ghosts == <<ready, posted>>
relayVars == <<now, pc, rounds, wakeAt, requests, answers, posts, unset, told, ghosts>>

Forever == -1                 \* a key without expiry
NoAnswer == [usable |-> FALSE, exp |-> 0]

RelayTypeOK ==
    /\ now \in Nat
    /\ pc \in [Calls -> {"new", "expire", "poll", "sleep", "answered", "timeout", "failed"}]
    /\ rounds \in [Calls -> 0..Polls]
    /\ wakeAt \in [Calls -> Nat]
    /\ requests \in [Calls -> {"none", "kept", "expiring"}]
    /\ answers \in [Calls -> [usable : BOOLEAN, exp : Int]]
    /\ posts \in [Calls -> 0..MaxPosts]
    /\ unset \in [Calls -> 0..MaxPosts]
    /\ told \subseteq Calls
    /\ ready \subseteq Calls
    /\ posted \subseteq Calls

RelayInit ==
    /\ now = 0
    /\ pc = [c \in Calls |-> "new"]
    /\ rounds = [c \in Calls |-> 0]
    /\ wakeAt = [c \in Calls |-> 0]
    /\ requests = [c \in Calls |-> "none"]
    /\ answers = [c \in Calls |-> NoAnswer]
    /\ posts = [c \in Calls |-> 0]
    /\ unset = [c \in Calls |-> 0]
    /\ told = {} /\ ready = {} /\ posted = {}

Go(c, where) == pc' = [pc EXCEPT ![c] = where]

-----------------------------------------------------------------------------
(* notify *)

\* s: a SET that fails is logged, and the handler goes on.
Store(c) ==
    /\ pc[c] = "new"
    /\ requests' = [requests EXCEPT ![c] = "kept"] \/ requests' = requests
    /\ Go(c, "expire")
    /\ UNCHANGED <<now, rounds, wakeAt, answers, posts, unset, told, ghosts>>

\* sockets.emit calls EventEmitter.emit with the user's id as event name;
\* this is who has registered a listener for one.
Listeners(c) == {}

\* expire, then the event.  If Redis refuses, the key stays as it is.
ExpireAndEmit(c) ==
    /\ pc[c] = "expire"
    /\ \/ /\ requests' = [requests EXCEPT ![c] = IF @ = "kept" THEN "expiring" ELSE @]
          /\ told' = IF Listeners(c) # {} THEN told \cup {c} ELSE told
          /\ Go(c, "poll")
       \/ Go(c, "failed") /\ UNCHANGED <<requests, told>>
    /\ UNCHANGED <<now, rounds, wakeAt, answers, posts, unset, ghosts>>

\* An answer that JavaScript takes for true.
Answered(c) ==
    /\ answers[c].usable
    /\ answers[c].exp = Forever \/ now < answers[c].exp

\* Mutant: the answer is looked for after the last sleep is decided on.
PollMissesLast(c) ==
    /\ pc[c] = "poll"
    /\ rounds' = [rounds EXCEPT ![c] = @ + 1]
    /\ IF Answered(c) /\ rounds[c] < Polls - 1
       THEN Go(c, "answered") /\ UNCHANGED wakeAt
       ELSE Go(c, "sleep") /\ wakeAt' = [wakeAt EXCEPT ![c] = now + 1]
    /\ UNCHANGED <<now, requests, answers, posts, unset, told, ghosts>>

Poll(c) ==
    /\ pc[c] = "poll"
    /\ rounds' = [rounds EXCEPT ![c] = @ + 1]
    /\ IF Answered(c)
       THEN Go(c, "answered") /\ UNCHANGED wakeAt
       ELSE Go(c, "sleep") /\ wakeAt' = [wakeAt EXCEPT ![c] = now + 1]
    /\ UNCHANGED <<now, requests, answers, posts, unset, told, ghosts>>

PollFails(c) ==
    /\ pc[c] = "poll"
    /\ Go(c, "failed")
    /\ UNCHANGED <<now, rounds, wakeAt, requests, answers, posts, unset, told, ghosts>>

\* Mutant: the last round is not left.
WakeAlways(c) ==
    /\ pc[c] = "sleep" /\ now >= wakeAt[c]
    /\ rounds[c] < Polls
    /\ Go(c, "poll")
    /\ UNCHANGED <<now, rounds, wakeAt, requests, answers, posts, unset, told, ghosts>>

\* After the last round there is one more sleep, and no more poll.
Wake(c) ==
    /\ pc[c] = "sleep" /\ now >= wakeAt[c]
    /\ Go(c, IF rounds[c] < Polls THEN "poll" ELSE "timeout")
    /\ UNCHANGED <<now, rounds, wakeAt, requests, answers, posts, unset, told, ghosts>>

-----------------------------------------------------------------------------
(* respond *)

PollDue(c) ==
    \/ pc[c] = "poll"
    \/ pc[c] = "sleep" /\ rounds[c] < Polls

InTime(c, usable, ids) == IF usable /\ PollDue(c) THEN ids \cup {c} ELSE ids \ {c}

\* s: SET drops the expiry of an earlier answer.  A SET that fails leaves the
\* earlier answer, and the post goes on all the same.
PostStores(c, usable) ==
    /\ pc[c] \notin {"new", "expire"}
    /\ posts[c] < MaxPosts
    /\ posts' = [posts EXCEPT ![c] = @ + 1]
    /\ unset' = [unset EXCEPT ![c] = @ + 1]
    /\ \/ /\ answers' = [answers EXCEPT ![c] = [usable |-> usable, exp |-> Forever]]
          /\ ready' = InTime(c, usable, ready)
       \/ UNCHANGED <<answers, ready>>
    /\ posted' = InTime(c, usable, posted)
    /\ UNCHANGED <<now, pc, rounds, wakeAt, requests, told>>

\* expire: of the key as it now stands, if there is one.
PostExpires(c) ==
    /\ unset[c] > 0
    /\ unset' = [unset EXCEPT ![c] = @ - 1]
    /\ answers' = [answers EXCEPT ![c].exp =
                     IF @ = Forever \/ now < @ THEN now + RespTtl ELSE @]
    /\ UNCHANGED <<now, pc, rounds, wakeAt, requests, posts, told, ghosts>>

\* Redis refuses the expiry.
PostFails(c) ==
    /\ unset[c] > 0
    /\ unset' = [unset EXCEPT ![c] = @ - 1]
    /\ UNCHANGED <<now, pc, rounds, wakeAt, requests, answers, posts, told, ghosts>>

\* A poll that is due is made within the second.
Tick ==
    /\ now < MaxTime
    /\ \A c \in Calls : /\ pc[c] # "poll"
                        /\ pc[c] = "sleep" => now < wakeAt[c]
    /\ now' = now + 1
    /\ UNCHANGED <<pc, rounds, wakeAt, requests, answers, posts, unset, told, ghosts>>

\* The end of the time that is considered.
TimeIsUp == now = MaxTime /\ UNCHANGED relayVars

RelayNext ==
    \/ \E c \in Calls :
          \/ Store(c) \/ ExpireAndEmit(c) \/ Poll(c) \/ PollFails(c) \/ Wake(c)
          \/ \E usable \in BOOLEAN : PostStores(c, usable)
          \/ PostExpires(c) \/ PostFails(c)
    \/ Tick \/ TimeIsUp

RelaySpec == RelayInit /\ [][RelayNext]_relayVars

\* A poll is answered or times out, timers fire, time passes.  That the EXPIRE
\* of a call is answered is not assumed: nothing bounds it.
RelayFairness ==
    /\ WF_relayVars(Tick)
    /\ \A c \in Calls : WF_relayVars(Poll(c) \/ PollFails(c) \/ Wake(c))

RelayFairSpec == RelaySpec /\ RelayFairness

-----------------------------------------------------------------------------
(* Properties *)

\* An answer that was stored while a poll was still to come is not lost to
\* the timeout, whatever the order of the posts, the SETs that fail, the expiry
\* commands and the polls: the payer is told "User offline or timeout" only if
\* the last word of the browser that Redis took came too late.
NoAnswerMissed ==
    \A c \in Calls : pc[c] = "timeout" => c \notin ready

\* The same of an answer that was posted then, stored or not: the browser is
\* told "ok" either way.
PostedIsFound ==
    \A c \in Calls : pc[c] = "timeout" => c \notin posted

\* The payer's service is answered, with the browser's answer or with 408,
\* within Polls seconds of the first poll (unless the modelled time is up).
\* Before that poll the call waits for its EXPIRE, however long it takes.
CallsEnd ==
    \A c \in Calls :
        pc[c] = "poll" ~> pc[c] \in {"answered", "timeout", "failed"} \/ now = MaxTime

\* "Send WebSocket event to browser": every call that polls has told the
\* browser what to answer.
BrowserIsTold ==
    \A c \in Calls : pc[c] \in {"poll", "sleep", "answered", "timeout"} => c \in told

\* "Store webhook request in Redis with 5 min expiry": a call that has ended
\* leaves no key without expiry behind.
KeysExpire ==
    \A c \in Calls :
        pc[c] \in {"answered", "timeout", "failed"} => requests[c] # "kept"
=============================================================================
