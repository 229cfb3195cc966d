--------------------------- MODULE Sockets_proofs ---------------------------
(***************************************************************************)
(* Proofs about what reaches a browser:                                    *)
(*   - the WebSocket connections, for any number of connections, users and *)
(*     awaiting logins.  Each safety property is inductive by itself once  *)
(*     it is known that a connection id not yet used has no trace in the   *)
(*     manager's state (FreshIsUntouched);                                 *)
(*   - the webhook relay, for any number of calls, polls and posts.  The   *)
(*     invariant says until when an answer lives for which a poll is due.  *)
(***************************************************************************)
EXTENDS WebSocketManager, WebhookRelay, FiniteSetTheorems, TLAPS

\* A connection id that no socket has used has left no trace.
FreshIsUntouched ==
    \A c \in Conns : ws[c] = "unused" =>
        /\ userId[c] = Pending
        /\ \A u \in Users : logins[c][u] = 0

SocketInv == TypeOK /\ FreshIsUntouched

-----------------------------------------------------------------------------
(* What the helpers do *)

LEMMA ClosingType ==
    ASSUME TypeOK, NEW D \in SUBSET Conns
    PROVE  /\ Closing(D) \in [Conns -> {"unused", "open", "closing", "closed"}]
           /\ \A c \in Conns : Closing(D)[c] = "unused" <=> ws[c] = "unused"
           /\ \A c \in Conns : Closing(D)[c] = "closed" <=> ws[c] = "closed"
BY DEF Closing, TypeOK

LEMMA UnindexedType ==
    ASSUME NEW index \in [Users -> SUBSET Conns], NEW D \in SUBSET Conns
    PROVE  /\ Unindexed(index, D) \in [Users -> SUBSET Conns]
           /\ \A u \in Users : Unindexed(index, D)[u] \subseteq index[u]
           /\ \A u \in Users : \A c \in index[u] :
                 c \notin D => c \in Unindexed(index, D)[u]
BY DEF Unindexed

\* A round of the heartbeat disconnects some connections of the map.
LEMMA HeartbeatDisconnects ==
    ASSUME TypeOK, Heartbeat
    PROVE  /\ \E D \in SUBSET Conns : Disconnect(D)
           /\ UNCHANGED <<ws, userId, timer, overdue, silence, logins, running>>
<1>1. PICK refused \in SUBSET Conns :
        Disconnect((IF 2 * Cardinality(connections) > PoolSize
                    THEN Aggressive ELSE {}) \cup Silent \cup refused)
  BY DEF Heartbeat, TypeOK
<1>2. Aggressive \subseteq Conns /\ Silent \subseteq Conns
  BY DEF Aggressive, Silent, TypeOK
<1>3. QED  BY <1>1, <1>2 DEF Heartbeat

\* A round of the clean-up removes Silent from everything, and perhaps some
\* zombies from the map and one index.
LEMMA CleanupRemoves ==
    ASSUME TypeOK, Cleanup
    PROVE  \E Z \in SUBSET Conns :
             /\ Silent \in SUBSET Conns
             /\ ws' = Closing(Silent)
             /\ connections' = connections \ (Silent \cup Z)
             /\ userConns' = Unindexed(userConns, Silent \cup Z)
             /\ sockets' = Unindexed(sockets, Silent)
             /\ UNCHANGED <<userId, timer, overdue, silence, logins, running>>
<1>0. Silent \in SUBSET Conns
  BY DEF Silent, TypeOK
<1> DEFINE left == connections \ Silent
           Z == IF 10 * Cardinality(left) > PoolSize
                THEN {c \in left : ws[c] \in {"closing", "closed"}}
                ELSE {}
<1>1. Z \in SUBSET Conns
  BY DEF TypeOK
<1>2. /\ ws' = Closing(Silent)
      /\ connections' = left \ Z
      /\ userConns' = Unindexed(userConns, Silent \cup Z)
      /\ sockets' = Unindexed(sockets, Silent)
      /\ UNCHANGED <<userId, timer, overdue, silence, logins, running>>
  BY DEF Cleanup
<1>3. connections' = connections \ (Silent \cup Z)
  BY <1>2
<1> HIDE DEF Z
<1>4. QED  BY <1>0, <1>1, <1>2, <1>3

-----------------------------------------------------------------------------
(* Types, and ids not yet used *)

LEMMA SocketInit == Init => SocketInv
BY DEF Init, SocketInv, TypeOK, FreshIsUntouched

LEMMA SocketStep == SocketInv /\ [Next]_vars => SocketInv'
<1> SUFFICES ASSUME TypeOK, FreshIsUntouched, [Next]_vars
             PROVE  TypeOK' /\ FreshIsUntouched'
  BY DEF SocketInv
<1>1. ASSUME NEW c \in Conns,
             Accept(c) \/ Message(c) \/ Pong(c) \/ Age(c)
      PROVE  TypeOK' /\ FreshIsUntouched'
  <2>1. CASE Accept(c)
    <3>1. TypeOK'
      BY <2>1 DEF Accept, TypeOK
    <3>2. FreshIsUntouched'
      BY <2>1 DEF Accept, TypeOK, FreshIsUntouched
    <3>3. QED  BY <3>1, <3>2
  <2>2. CASE Message(c) \/ Pong(c)
    <3>1. TypeOK'
      BY <2>2 DEF Message, Pong, Hears, TypeOK
    <3>2. FreshIsUntouched'
      BY <2>2 DEF Message, Pong, Hears, TypeOK, FreshIsUntouched
    <3>3. QED  BY <3>1, <3>2
  <2>3. CASE Age(c)
    <3>1. TypeOK'
      BY <2>3 DEF Age, TypeOK
    <3>2. FreshIsUntouched'
      BY <2>3 DEF Age, TypeOK, FreshIsUntouched
    <3>3. QED  BY <3>1, <3>2
  <2>4. QED  BY <1>1, <2>1, <2>2, <2>3
<1>2. ASSUME NEW c \in Conns, AuthTimeout(c)
      PROVE  TypeOK' /\ FreshIsUntouched'
  BY <1>2, ClosingType DEF AuthTimeout, TypeOK, FreshIsUntouched
<1>3. ASSUME NEW c \in Conns, CloseEvent(c)
      PROVE  TypeOK' /\ FreshIsUntouched'
  <2>1. TypeOK'
    <3>1. {c} \in SUBSET Conns
      OBVIOUS
    <3>2. userConns' = Unindexed(userConns, {c}) /\ sockets' = Unindexed(sockets, {c})
      BY <1>3 DEF CloseEvent, Disconnect
    <3>3. userConns' \in [Users -> SUBSET Conns] /\ sockets' \in [Users -> SUBSET Conns]
      BY <3>1, <3>2, UnindexedType DEF TypeOK
    <3>4. QED  BY <1>3, <3>3 DEF CloseEvent, Disconnect, TypeOK
  <2>2. FreshIsUntouched'
    BY <1>3, UnindexedType DEF CloseEvent, Disconnect, TypeOK, FreshIsUntouched
  <2>3. QED  BY <2>1, <2>2
<1>4. ASSUME NEW c \in Conns, ErrorEvent(c)
      PROVE  TypeOK' /\ FreshIsUntouched'
  BY <1>4, UnindexedType DEF ErrorEvent, Disconnect, TypeOK, FreshIsUntouched
<1>5. ASSUME NEW c \in Conns, NEW u \in Users, Login(c, u)
      PROVE  TypeOK' /\ FreshIsUntouched'
  BY <1>5 DEF Login, Hears, TypeOK, FreshIsUntouched
<1>6. ASSUME NEW c \in Conns, NEW u \in Users, Authenticate(c, u)
      PROVE  TypeOK' /\ FreshIsUntouched'
  <2>1. ws[c] # "unused"
    BY <1>6 DEF Authenticate, LoginReturns, FreshIsUntouched
  <2>2. QED
    BY <1>6, <2>1
    DEF Authenticate, LoginReturns, TypeOK, FreshIsUntouched
<1>7. ASSUME NEW c \in Conns, NEW u \in Users, Reject(c, u)
      PROVE  TypeOK' /\ FreshIsUntouched'
  <2>1. ws[c] # "unused"
    BY <1>7 DEF Reject, LoginReturns, FreshIsUntouched
  <2>2. logins' \in [Conns -> [Users -> Nat]]
    BY <1>7 DEF Reject, LoginReturns, TypeOK
  <2>3. \A d \in Conns : ws[d] = "unused" => logins'[d] = logins[d]
    BY <1>7, <2>1 DEF Reject, LoginReturns, TypeOK
  <2>4. TypeOK'
    BY <1>7, <2>2, ClosingType DEF Reject, TypeOK
  <2>5. FreshIsUntouched'
    BY <1>7, <2>3, ClosingType DEF Reject, FreshIsUntouched
  <2>6. QED  BY <2>4, <2>5
<1>8. CASE Heartbeat
  <2>1. PICK D \in SUBSET Conns :
          /\ Disconnect(D)
          /\ UNCHANGED <<ws, userId, timer, overdue, silence, logins, running>>
    BY <1>8, HeartbeatDisconnects
  <2>2. QED
    BY <2>1, UnindexedType DEF Disconnect, TypeOK, FreshIsUntouched
<1>9. CASE Cleanup
  <2>1. PICK Z \in SUBSET Conns :
          /\ Silent \in SUBSET Conns
          /\ ws' = Closing(Silent)
          /\ connections' = connections \ (Silent \cup Z)
          /\ userConns' = Unindexed(userConns, Silent \cup Z)
          /\ sockets' = Unindexed(sockets, Silent)
          /\ UNCHANGED <<userId, timer, overdue, silence, logins, running>>
    BY <1>9, CleanupRemoves
  <2>2. /\ userConns' \in [Users -> SUBSET Conns]
        /\ sockets' \in [Users -> SUBSET Conns]
    <3>1. Silent \cup Z \in SUBSET Conns
      BY <2>1
    <3>2. QED  BY <2>1, <3>1, UnindexedType DEF TypeOK
  <2>3. /\ ws' \in [Conns -> {"unused", "open", "closing", "closed"}]
        /\ \A c \in Conns : ws'[c] = "unused" <=> ws[c] = "unused"
    BY <2>1, ClosingType
  <2>4. TypeOK'
    BY <2>1, <2>2, <2>3 DEF TypeOK
  <2>5. FreshIsUntouched'
    BY <2>1, <2>3 DEF FreshIsUntouched
  <2>6. QED  BY <2>4, <2>5
<1>10. CASE Shutdown
  BY <1>10, ClosingType DEF Shutdown, TypeOK, FreshIsUntouched
<1>11. CASE UNCHANGED vars
  BY <1>11 DEF vars, TypeOK, FreshIsUntouched
<1>12. QED
  BY <1>1, <1>2, <1>3, <1>4, <1>5, <1>6, <1>7, <1>8, <1>9, <1>10, <1>11
  DEF Next

\* Every reachable state is well typed.
THEOREM TypeCorrect == Spec => []TypeOK
<1>1. SocketInv => TypeOK
  BY DEF SocketInv
<1>2. QED  BY SocketInit, SocketStep, <1>1, PTL DEF Spec

-----------------------------------------------------------------------------
(* Indexes, timers and sockets *)

\* What is left in the map after a disconnection was not disconnected, and
\* keeps its place in the indexes.
LEMMA DisconnectKeeps ==
    ASSUME TypeOK, AuthenticatedIsIndexed,
           NEW D \in SUBSET Conns, NEW E \in SUBSET D,
           NEW c \in connections \ D, userId[c] # Pending
    PROVE  /\ c \in Unindexed(userConns, D)[userId[c]]
           /\ c \in Unindexed(sockets, E)[userId[c]]
<1>1. userId[c] \in Users
  BY DEF TypeOK
<1>2. QED  BY <1>1 DEF AuthenticatedIsIndexed, Unindexed

LEMMA IndexStep ==
    SocketInv /\ AuthenticatedIsIndexed /\ [Next]_vars
        => AuthenticatedIsIndexed'
<1> SUFFICES ASSUME SocketInv, AuthenticatedIsIndexed, [Next]_vars
             PROVE  AuthenticatedIsIndexed'
  OBVIOUS
<1> USE DEF SocketInv
<1>1. ASSUME NEW c \in Conns,
             \/ Accept(c) \/ Message(c) \/ Pong(c) \/ Age(c)
             \/ AuthTimeout(c) \/ \E u \in Users : Login(c, u) \/ Reject(c, u)
      PROVE  AuthenticatedIsIndexed'
  BY <1>1
  DEF Accept, Message, Pong, Age, AuthTimeout, Login, Reject, TypeOK,
      FreshIsUntouched, AuthenticatedIsIndexed
<1>2. ASSUME NEW c \in Conns, CloseEvent(c) \/ ErrorEvent(c)
      PROVE  AuthenticatedIsIndexed'
  <2>1. Disconnect({c}) /\ userId' = userId
    BY <1>2 DEF CloseEvent, ErrorEvent
  <2>2. QED
    BY <2>1, DisconnectKeeps DEF Disconnect, AuthenticatedIsIndexed
<1>3. ASSUME NEW c \in Conns, NEW u \in Users, Authenticate(c, u)
      PROVE  AuthenticatedIsIndexed'
  BY <1>3 DEF Authenticate, TypeOK, AuthenticatedIsIndexed
<1>4. CASE Heartbeat
  <2>1. PICK D \in SUBSET Conns :
          Disconnect(D) /\ UNCHANGED userId
    BY <1>4, HeartbeatDisconnects
  <2>2. QED
    BY <2>1, DisconnectKeeps DEF Disconnect, AuthenticatedIsIndexed
<1>5. CASE Cleanup
  <2>1. PICK Z \in SUBSET Conns :
          /\ Silent \in SUBSET Conns
          /\ connections' = connections \ (Silent \cup Z)
          /\ userConns' = Unindexed(userConns, Silent \cup Z)
          /\ sockets' = Unindexed(sockets, Silent)
          /\ userId' = userId
    BY <1>5, CleanupRemoves
  <2>2. Silent \cup Z \in SUBSET Conns /\ Silent \in SUBSET (Silent \cup Z)
    BY <2>1
  <2>3. QED
    BY <2>1, <2>2, DisconnectKeeps DEF AuthenticatedIsIndexed
<1>6. CASE Shutdown
  BY <1>6 DEF Shutdown, AuthenticatedIsIndexed
<1>7. CASE UNCHANGED vars
  BY <1>7 DEF vars, AuthenticatedIsIndexed
<1>8. QED
  BY <1>1, <1>2, <1>3, <1>4, <1>5, <1>6, <1>7 DEF Next

\* Every connection in the map that is authenticated is in both indexes of
\* its user.
THEOREM IndexesAgree == Spec => []AuthenticatedIsIndexed
<1>1. Init => AuthenticatedIsIndexed
  BY DEF Init, AuthenticatedIsIndexed
<1>2. QED  BY <1>1, SocketInit, SocketStep, IndexStep, PTL DEF Spec

LEMMA TimerStep ==
    SocketInv /\ PendingIsTimed /\ MappedIsNotClosed /\ [Next]_vars
        => PendingIsTimed' /\ MappedIsNotClosed'
<1> SUFFICES ASSUME SocketInv, PendingIsTimed, MappedIsNotClosed, [Next]_vars
             PROVE  PendingIsTimed' /\ MappedIsNotClosed'
  OBVIOUS
<1> USE DEF SocketInv, PendingIsTimed, MappedIsNotClosed
<1>1. ASSUME NEW c \in Conns,
             \/ Accept(c) \/ Message(c) \/ Pong(c) \/ Age(c)
             \/ CloseEvent(c) \/ ErrorEvent(c)
             \/ \E u \in Users : Login(c, u)
      PROVE  PendingIsTimed' /\ MappedIsNotClosed'
  BY <1>1
  DEF Accept, Message, Pong, Age, CloseEvent, ErrorEvent, Login, Disconnect,
      TypeOK
<1>2. ASSUME NEW c \in Conns,
             AuthTimeout(c) \/ \E u \in Users : Reject(c, u)
      PROVE  PendingIsTimed' /\ MappedIsNotClosed'
  BY <1>2 DEF AuthTimeout, Reject, Closing, TypeOK
<1>3. ASSUME NEW c \in Conns, NEW u \in Users, Authenticate(c, u)
      PROVE  PendingIsTimed' /\ MappedIsNotClosed'
  <2>1. u # Pending
    BY SocketAssumption
  <2>2. QED  BY <1>3, <2>1 DEF Authenticate, TypeOK
<1>4. CASE Heartbeat
  BY <1>4, HeartbeatDisconnects DEF Disconnect
<1>5. CASE Cleanup
  BY <1>5, CleanupRemoves DEF Closing, TypeOK
<1>6. CASE Shutdown
  BY <1>6 DEF Shutdown
<1>7. CASE UNCHANGED vars
  BY <1>7 DEF vars
<1>8. QED
  BY <1>1, <1>2, <1>3, <1>4, <1>5, <1>6, <1>7 DEF Next

LEMMA TimerInit == Init => PendingIsTimed /\ MappedIsNotClosed
BY DEF Init, PendingIsTimed, MappedIsNotClosed

\* No order of logins, failures and socket events leaves a connection
\* pending without the timer that will end it.
THEOREM PendingHasTimer == Spec => []PendingIsTimed
<1>1. QED  BY SocketInit, SocketStep, TimerInit, TimerStep, PTL DEF Spec

\* The map holds no connection whose close event has passed.
THEOREM MapHasNoClosedSocket == Spec => []MappedIsNotClosed
<1>1. QED  BY SocketInit, SocketStep, TimerInit, TimerStep, PTL DEF Spec

\* The map, the indexes, the timers and the sockets agree in every reachable
\* state.
THEOREM TablesStayInStep == Spec => []TablesAgree
<1>1. AuthenticatedIsIndexed /\ PendingIsTimed /\ MappedIsNotClosed
          => TablesAgree
  BY DEF TablesAgree
<1>2. QED
  BY <1>1, IndexesAgree, PendingHasTimer, MapHasNoClosedSocket, PTL

-----------------------------------------------------------------------------
(* The limit *)

\* An index that only shrinks stays within the limit.
LEMMA SmallerIndex ==
    ASSUME TypeOK, LimitRespected, NEW index \in [Users -> SUBSET Conns],
           \A u \in Users : index[u] \subseteq userConns[u]
    PROVE  \A u \in Users : Cardinality(index[u]) <= MaxPerUser
<1> SUFFICES ASSUME NEW u \in Users
             PROVE  Cardinality(index[u]) <= MaxPerUser
  OBVIOUS
<1>1. IsFiniteSet(userConns[u])
  BY FS_Subset, SocketAssumption DEF TypeOK
<1>2. /\ IsFiniteSet(index[u])
      /\ Cardinality(index[u]) <= Cardinality(userConns[u])
  BY <1>1, FS_Subset
<1>3. Cardinality(index[u]) \in Nat /\ Cardinality(userConns[u]) \in Nat
  BY <1>1, <1>2, FS_CardinalityType
<1>4. Cardinality(userConns[u]) <= MaxPerUser
  BY DEF LimitRespected
<1>5. QED  BY <1>2, <1>3, <1>4, SocketAssumption

LEMMA LimitStep ==
    SocketInv /\ LimitRespected /\ [Next]_vars => LimitRespected'
<1> SUFFICES ASSUME TypeOK, LimitRespected, [Next]_vars
             PROVE  \A u \in Users : Cardinality(userConns'[u]) <= MaxPerUser
  BY DEF SocketInv, LimitRespected
<1>1. ASSUME NEW D \in SUBSET Conns, userConns' = Unindexed(userConns, D)
      PROVE  \A u \in Users : Cardinality(userConns'[u]) <= MaxPerUser
  BY <1>1, SmallerIndex, UnindexedType DEF TypeOK
<1>2. CASE UNCHANGED userConns
  BY <1>2 DEF LimitRespected
<1>3. ASSUME NEW c \in Conns, CloseEvent(c) \/ ErrorEvent(c)
      PROVE  \A u \in Users : Cardinality(userConns'[u]) <= MaxPerUser
  <2>1. userConns' = Unindexed(userConns, {c})
    BY <1>3 DEF CloseEvent, ErrorEvent, Disconnect
  <2>2. {c} \in SUBSET Conns
    OBVIOUS
  <2>3. QED  BY <1>1, <2>1, <2>2
<1>4. ASSUME NEW c \in Conns, NEW v \in Users, Authenticate(c, v),
             NEW u \in Users
      PROVE  Cardinality(userConns'[u]) <= MaxPerUser
  <2>1. CASE u # v
    BY <1>4, <2>1 DEF Authenticate, TypeOK, LimitRespected
  <2>2. CASE u = v
    <3> DEFINE S == userConns[v]
    <3>1. IsFiniteSet(S) /\ Cardinality(S) \in Nat
      BY FS_Subset, FS_CardinalityType, SocketAssumption DEF TypeOK
    <3>2. userConns'[u] = S \cup {c} /\ Cardinality(S) < MaxPerUser
      BY <1>4, <2>2 DEF Authenticate, CanConnect, TypeOK
    <3> HIDE DEF S
    <3>3. \/ Cardinality(S \cup {c}) = Cardinality(S)
          \/ Cardinality(S \cup {c}) = Cardinality(S) + 1
      BY <3>1, FS_AddElement
    <3>4. QED  BY <3>1, <3>2, <3>3, SocketAssumption
  <2>3. QED  BY <2>1, <2>2
<1>5. CASE Heartbeat
  <2>1. PICK D \in SUBSET Conns : userConns' = Unindexed(userConns, D)
    BY <1>5, HeartbeatDisconnects DEF Disconnect
  <2>2. QED  BY <1>1, <2>1
<1>6. CASE Cleanup
  <2>1. PICK Z \in SUBSET Conns :
          Silent \in SUBSET Conns /\ userConns' = Unindexed(userConns, Silent \cup Z)
    BY <1>6, CleanupRemoves
  <2>2. QED  BY <1>1, <2>1
<1>7. CASE Shutdown
  BY <1>7, SmallerIndex DEF Shutdown, TypeOK
<1>8. QED
  BY <1>2, <1>3, <1>4, <1>5, <1>6, <1>7
  DEF Next, Accept, Message, AuthTimeout, Pong, Age, Login, Reject, vars

\* No user ever has more than MaxPerUser connections indexed.
THEOREM LimitHolds == Spec => []LimitRespected
<1>1. Init => LimitRespected
  BY FS_EmptySet, SocketAssumption DEF Init, LimitRespected
<1>2. QED  BY <1>1, SocketInit, SocketStep, LimitStep, PTL DEF Spec, SocketInv

-----------------------------------------------------------------------------
(* The webhook relay *)

\* The instant at which the poll that is due looks for c's answer.
NextLook(c) == IF pc[c] = "sleep" THEN wakeAt[c] ELSE now

\* The poll that is due finds c's answer.
WillBeFound(c) ==
    /\ PollDue(c)
    /\ answers[c].usable
    /\ answers[c].exp = Forever \/ NextLook(c) < answers[c].exp

CallInv(c) ==
    /\ pc[c] \in {"new", "expire", "poll"} => rounds[c] < Polls
    /\ unset[c] <= posts[c]
    /\ pc[c] = "sleep" => now <= wakeAt[c] /\ wakeAt[c] <= now + 1
    /\ c \in ready => pc[c] \in {"answered", "failed"} \/ WillBeFound(c)

RelayInv == RelayTypeOK /\ \A c \in Calls : CallInv(c)

LEMMA RelayStarts == RelayInit => RelayInv
BY RelayAssumption DEF RelayInit, RelayInv, RelayTypeOK, CallInv, NoAnswer

\* What a step of c has to show, as it leaves the other calls alone.
LEMMA OneCallSteps ==
    ASSUME RelayInv, NEW c \in Calls, RelayTypeOK', now' = now,
           \A d \in Calls \ {c} :
             /\ pc'[d] = pc[d] /\ rounds'[d] = rounds[d] /\ wakeAt'[d] = wakeAt[d]
             /\ answers'[d] = answers[d] /\ posts'[d] = posts[d]
             /\ unset'[d] = unset[d] /\ (d \in ready' <=> d \in ready),
           CallInv(c)'
    PROVE  RelayInv'
  <1>1. ASSUME NEW d \in Calls, d # c PROVE CallInv(d)'
    BY <1>1 DEF RelayInv, CallInv, WillBeFound, PollDue, NextLook, ghosts
  <1>2. QED  BY <1>1 DEF RelayInv

LEMMA RelayKeeps == RelayInv /\ [RelayNext]_relayVars => RelayInv'
  <1> SUFFICES ASSUME RelayInv, [RelayNext]_relayVars PROVE RelayInv'
    OBVIOUS
  <1> USE RelayAssumption
  <1>0. RelayTypeOK /\ now \in Nat /\ \A c \in Calls : CallInv(c)
    BY DEF RelayInv, RelayTypeOK
  <1>1. ASSUME NEW c \in Calls, Store(c) \/ ExpireAndEmit(c) \/ PollFails(c)
        PROVE  RelayInv'
    <2>1. RelayTypeOK'
      BY <1>0, <1>1 DEF Store, ExpireAndEmit, PollFails, Go, Listeners, RelayTypeOK, ghosts
    <2>2. CallInv(c)'
      BY <1>0, <1>1 DEF Store, ExpireAndEmit, PollFails, Go, RelayTypeOK, CallInv,
                        WillBeFound, PollDue, NextLook, ghosts
    <2>3. QED
      BY <1>1, <2>1, <2>2, OneCallSteps
        DEF Store, ExpireAndEmit, PollFails, Go, RelayTypeOK, RelayInv, ghosts
  <1>2. ASSUME NEW c \in Calls, Poll(c)
        PROVE  RelayInv'
    <2>1. rounds[c] + 1 \in 0..Polls
      BY <1>0, <1>2 DEF Poll, RelayTypeOK, CallInv
    <2>2. RelayTypeOK'
      BY <1>0, <1>2, <2>1 DEF Poll, Go, RelayTypeOK, ghosts
    <2>3. CallInv(c)'
      BY <1>0, <1>2
        DEF Poll, Go, Answered, RelayTypeOK, CallInv, WillBeFound, PollDue, NextLook,
            ghosts
    <2>4. QED
      BY <1>2, <2>2, <2>3, OneCallSteps DEF Poll, Go, RelayTypeOK, RelayInv, ghosts
  <1>3. ASSUME NEW c \in Calls, Wake(c)
        PROVE  RelayInv'
    <2>1. RelayTypeOK'
      BY <1>0, <1>3 DEF Wake, Go, RelayTypeOK, ghosts
    <2>2. CallInv(c)'
      BY <1>0, <1>3 DEF Wake, Go, RelayTypeOK, CallInv, WillBeFound, PollDue, NextLook, ghosts
    <2>3. QED
      BY <1>3, <2>1, <2>2, OneCallSteps DEF Wake, Go, RelayTypeOK, RelayInv, ghosts
  <1>4. ASSUME NEW c \in Calls, NEW usable \in BOOLEAN, PostStores(c, usable)
        PROVE  RelayInv'
    <2>1. posts[c] + 1 \in 0..MaxPosts /\ unset[c] + 1 \in 0..MaxPosts
      BY <1>0, <1>4 DEF PostStores, RelayTypeOK, CallInv
    <2>2. [usable |-> usable, exp |-> Forever] \in [usable : BOOLEAN, exp : Int]
      BY DEF Forever
    <2>3. RelayTypeOK'
      <3>1. answers' \in [Calls -> [usable : BOOLEAN, exp : Int]]
        BY <1>0, <1>4, <2>2 DEF PostStores, RelayTypeOK
      <3>2. ready' \subseteq Calls /\ posted' \subseteq Calls
        BY <1>0, <1>4 DEF PostStores, InTime, RelayTypeOK
      <3>3. QED  BY <1>0, <1>4, <2>1, <3>1, <3>2 DEF PostStores, RelayTypeOK
    <2>4. CallInv(c)'
      BY <1>0, <1>4
        DEF PostStores, InTime, RelayTypeOK, CallInv, WillBeFound, PollDue, NextLook,
            ghosts
    <2>5. QED
      BY <1>4, <2>3, <2>4, OneCallSteps DEF PostStores, InTime, RelayTypeOK, RelayInv
  <1>5. ASSUME NEW c \in Calls, PostExpires(c)
        PROVE  RelayInv'
    <2>1. /\ answers[c] \in [usable : BOOLEAN, exp : Int]
          /\ answers'[c].usable = answers[c].usable
          /\ answers'[c].exp = IF answers[c].exp = Forever \/ now < answers[c].exp
                               THEN now + RespTtl ELSE answers[c].exp
      BY <1>0, <1>5 DEF PostExpires, RelayTypeOK, ghosts
    <2>2. RelayTypeOK'
      BY <1>0, <1>5, <2>1 DEF PostExpires, RelayTypeOK, ghosts
    <2>3. CallInv(c)'
      BY <1>0, <1>5, <2>1
        DEF PostExpires, RelayTypeOK, CallInv, WillBeFound, PollDue, NextLook, ghosts
    <2>4. QED
      BY <1>5, <2>2, <2>3, OneCallSteps DEF PostExpires, RelayTypeOK, RelayInv, ghosts
  <1>6. ASSUME NEW c \in Calls, PostFails(c)
        PROVE  RelayInv'
    <2>1. RelayTypeOK'
      BY <1>0, <1>6 DEF PostFails, RelayTypeOK, ghosts
    <2>2. CallInv(c)'
      BY <1>0, <1>6 DEF PostFails, RelayTypeOK, CallInv, WillBeFound, PollDue, NextLook, ghosts
    <2>3. QED
      BY <1>6, <2>1, <2>2, OneCallSteps DEF PostFails, RelayTypeOK, RelayInv, ghosts
  <1>7. ASSUME Tick PROVE RelayInv'
    <2>1. ASSUME NEW c \in Calls PROVE CallInv(c)'
      BY <1>0, <1>7, <2>1 DEF Tick, RelayTypeOK, CallInv, WillBeFound, PollDue, NextLook, ghosts
    <2>2. QED  BY <1>0, <1>7, <2>1 DEF Tick, RelayTypeOK, RelayInv, ghosts
  <1>8. CASE UNCHANGED relayVars
    BY <1>0, <1>8
      DEF relayVars, RelayInv, RelayTypeOK, CallInv, WillBeFound, PollDue, NextLook,
          ghosts
  <1>9. QED
    BY <1>1, <1>2, <1>3, <1>4, <1>5, <1>6, <1>7, <1>8 DEF RelayNext, TimeIsUp

\* An answer stored while a poll was still to come reaches the payer, in
\* whatever order posts, SETs that fail, expiry commands and polls interleave,
\* for any number of calls, posts and polls (webhook.ts:26-62, db.ts:166-173).
THEOREM NoAnswerIsMissed == RelaySpec => []NoAnswerMissed
  <1>1. RelayInv => NoAnswerMissed
    BY DEF RelayInv, CallInv, WillBeFound, PollDue, NoAnswerMissed
  <1>2. QED  BY RelayStarts, RelayKeeps, <1>1, PTL DEF RelaySpec

\* The keys in Redis, the polls made and the posts keep their types.
THEOREM RelayTypeCorrect == RelaySpec => []RelayTypeOK
  <1>1. RelayInv => RelayTypeOK
    BY DEF RelayInv
  <1>2. QED  BY RelayStarts, RelayKeeps, <1>1, PTL DEF RelaySpec
=============================================================================
