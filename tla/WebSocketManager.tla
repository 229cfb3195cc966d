------------------------- MODULE WebSocketManager -------------------------
(***************************************************************************)
(* The WebSocket connections of the server                                 *)
(* (src/lib/websocket/WebSocketManager.ts).  A socket is accepted before   *)
(* it is authenticated: it stands in `connections` as "pending" until a    *)
(* login or heartbeat message has carried a token through two awaits       *)
(* (jwt.verify, getUser), and a timer removes it if none has.  A user's    *)
(* connections are also indexed in `userConnections`, whose size is the    *)
(* limit of connections per user, and in the older store.sockets.          *)
(*                                                                         *)
(* The two awaits are one here: nothing shared is read between them.  A    *)
(* connection object outlives its place in the map in the hands of the     *)
(* logins that await, so userId is kept for every connection.  Ages are    *)
(* kept as the thresholds they have passed.                                *)
(***************************************************************************)
EXTENDS Integers, FiniteSets

CONSTANTS
    Conns,       \* connection ids; each is used once
    Users,
    Pending,     \* the userId of a connection not yet authenticated
    MaxPerUser,  \* MAX_CONNECTIONS_PER_USER
    PoolSize,    \* connectionPool's maxConnections
    MaxLogins    \* bound on the logins of a connection that await at once

ASSUME SocketAssumption ==
    /\ IsFiniteSet(Conns)
    /\ Pending \notin Users
    /\ MaxPerUser \in Nat
    /\ PoolSize \in Nat
    /\ MaxLogins \in Nat

VARIABLES
    ws,           \* readyState of the socket of a connection
    connections,  \* the connections in the map of that name
    userId,       \* connection.userId
    userConns,    \* userConnections
    sockets,      \* store.sockets
    timer,        \* connections whose authTimeout is armed
    overdue,      \* connections older than the 3 seconds of authTimeout
    silence,      \* how long ago lastActivity is
    logins,       \* calls of authenticateConnection that await, per user named
    running       \* the heartbeat and cleanup intervals are set

vars == <<ws, connections, userId, userConns, sockets, timer, overdue,
          silence, logins, running>>

TypeOK ==
    /\ ws \in [Conns -> {"unused", "open", "closing", "closed"}]
    /\ connections \subseteq Conns
    /\ userId \in [Conns -> Users \cup {Pending}]
    /\ userConns \in [Users -> SUBSET Conns]
    /\ sockets \in [Users -> SUBSET Conns]
    /\ timer \subseteq Conns
    /\ overdue \subseteq Conns
    /\ silence \in [Conns -> {"recent", "minute", "timeout"}]
    /\ logins \in [Conns -> [Users -> Nat]]
    /\ running \in BOOLEAN

Init ==
    /\ ws = [c \in Conns |-> "unused"]
    /\ connections = {}
    /\ userId = [c \in Conns |-> Pending]
    /\ userConns = [u \in Users |-> {}]
    /\ sockets = [u \in Users |-> {}]
    /\ timer = {}
    /\ overdue = {}
    /\ silence = [c \in Conns |-> "recent"]
    /\ logins = [c \in Conns |-> [u \in Users |-> 0]]
    /\ running = TRUE

-----------------------------------------------------------------------------
(* Helpers *)

\* handleDisconnect of each connection of D: it leaves the map and, if it
\* was authenticated, the indexes of its user.  One that is not in the map
\* is left alone.
Unindexed(index, D) ==
    [u \in Users |-> index[u] \ {c \in D \cap connections : userId[c] = u}]

Disconnect(D) ==
    /\ connections' = connections \ D
    /\ userConns' = Unindexed(userConns, D)
    /\ sockets' = Unindexed(sockets, D)

\* ws.close: the socket starts the closing handshake.
Closing(D) ==
    [c \in Conns |-> IF c \in D /\ ws[c] = "open" THEN "closing" ELSE ws[c]]

\* canConnect
CanConnect(u) == Cardinality(userConns[u]) < MaxPerUser

\* handleMessage runs for what the socket delivers while the connection is
\* in the map.
Hears(c) == c \in connections /\ ws[c] \in {"open", "closing"}

-----------------------------------------------------------------------------
(* handleConnection *)

Accept(c) ==
    /\ ws[c] = "unused"
    /\ ws' = [ws EXCEPT ![c] = "open"]
    /\ connections' = connections \cup {c}
    /\ timer' = timer \cup {c}
    /\ UNCHANGED <<userId, userConns, sockets, overdue, silence, logins, running>>

\* Mutant: the timer is cleared as soon as a login is seen.
LoginDisarms(c, u) ==
    /\ Hears(c)
    /\ userId[c] = Pending
    /\ logins[c][u] < MaxLogins
    /\ logins' = [logins EXCEPT ![c][u] = @ + 1]
    /\ timer' = timer \ {c}
    /\ UNCHANGED <<ws, connections, userId, userConns, sockets, overdue,
                   silence, running>>

\* A login or heartbeat message with a token, on a pending connection.
\* Nothing stops a second one while the first awaits.
Login(c, u) ==
    /\ Hears(c)
    /\ userId[c] = Pending
    /\ logins[c][u] < MaxLogins
    /\ logins' = [logins EXCEPT ![c][u] = @ + 1]
    /\ UNCHANGED <<ws, connections, userId, userConns, sockets, timer,
                   overdue, silence, running>>

\* Any other message: over the rate limit it is answered with an error,
\* otherwise it counts as activity.
Message(c) ==
    /\ Hears(c)
    /\ userId[c] # Pending
    /\ silence[c] # "recent"
    /\ silence' = [silence EXCEPT ![c] = "recent"]
    /\ UNCHANGED <<ws, connections, userId, userConns, sockets, timer,
                   overdue, logins, running>>

\* authTimeout fires.  The connection is not in the indexes: it is pending.
AuthTimeout(c) ==
    /\ c \in timer /\ c \in overdue
    /\ timer' = timer \ {c}
    /\ IF c \in connections /\ userId[c] = Pending
       THEN /\ ws' = Closing({c})
            /\ connections' = connections \ {c}
       ELSE UNCHANGED <<ws, connections>>
    /\ UNCHANGED <<userId, userConns, sockets, overdue, silence, logins, running>>

-----------------------------------------------------------------------------
(* authenticateConnection, after its awaits, and the handler's next lines *)

\* Mutant: an answer is taken for a login that was not asked for.
LoginReturnsUnasked(c, u) ==
    /\ logins' = [logins EXCEPT ![c][u] = @ - 1]

LoginReturns(c, u) ==
    /\ logins[c][u] > 0
    /\ logins' = [logins EXCEPT ![c][u] = @ - 1]

\* Mutant: the size is compared with <=.
AuthenticateOverLimit(c, u) ==
    /\ LoginReturns(c, u)
    /\ Cardinality(userConns[u]) <= MaxPerUser
    /\ userId' = [userId EXCEPT ![c] = u]
    /\ userConns' = [userConns EXCEPT ![u] = @ \cup {c}]
    /\ sockets' = [sockets EXCEPT ![u] = @ \cup {c}]
    /\ timer' = timer \ {c}
    /\ UNCHANGED <<ws, connections, overdue, silence, running>>

\* Mutant: the connection is told of its user but not indexed.
AuthenticateUnindexed(c, u) ==
    /\ LoginReturns(c, u)
    /\ CanConnect(u)
    /\ userId' = [userId EXCEPT ![c] = u]
    /\ sockets' = [sockets EXCEPT ![u] = @ \cup {c}]
    /\ timer' = timer \ {c}
    /\ UNCHANGED <<ws, connections, userConns, overdue, silence, running>>

\* The token is good and the user under the limit.  The connection is the
\* object looked up before the awaits: whether it is still in the map, or
\* still pending, is not asked again.
Authenticate(c, u) ==
    /\ LoginReturns(c, u)
    /\ CanConnect(u)
    /\ userId' = [userId EXCEPT ![c] = u]
    /\ userConns' = [userConns EXCEPT ![u] = @ \cup {c}]
    /\ sockets' = [sockets EXCEPT ![u] = @ \cup {c}]
    /\ timer' = timer \ {c}
    /\ UNCHANGED <<ws, connections, overdue, silence, running>>

\* The token is bad, its user unknown, the database down, or the user at the
\* limit: the socket is closed and the map alone forgets the connection.
Reject(c, u) ==
    /\ LoginReturns(c, u)
    /\ ws' = Closing({c})
    /\ connections' = connections \ {c}
    /\ UNCHANGED <<userId, userConns, sockets, timer, overdue, silence, running>>

-----------------------------------------------------------------------------
(* The socket's own events *)

\* The peer closes or vanishes, or a closing handshake ends.
CloseEvent(c) ==
    /\ ws[c] \in {"open", "closing"}
    /\ ws' = [ws EXCEPT ![c] = "closed"]
    /\ timer' = timer \ {c}
    /\ Disconnect({c})
    /\ UNCHANGED <<userId, overdue, silence, logins, running>>

\* The error event of a socket; its close event is still to come.
ErrorEvent(c) ==
    /\ ws[c] \in {"open", "closing"}
    /\ c \in connections
    /\ Disconnect({c})
    /\ UNCHANGED <<ws, userId, timer, overdue, silence, logins, running>>

\* A pong counts as activity, also before the login.
Pong(c) ==
    /\ Hears(c)
    /\ silence[c] # "recent"
    /\ silence' = [silence EXCEPT ![c] = "recent"]
    /\ UNCHANGED <<ws, connections, userId, userConns, sockets, timer,
                   overdue, logins, running>>

-----------------------------------------------------------------------------
(* The intervals *)

Silent == {c \in connections : silence[c] = "timeout"}

\* aggressiveCleanup: what it removes.
Aggressive ==
    {c \in connections :
        \/ userId[c] = Pending /\ c \in overdue
        \/ silence[c] # "recent"
        \/ ws[c] # "open"}

\* Connections found silent are disconnected but their sockets stay open; an
\* open socket may refuse the ping.
Heartbeat ==
    /\ running
    /\ LET highLoad == 2 * Cardinality(connections) > PoolSize
           swept == IF highLoad THEN Aggressive ELSE {}
           left == connections \ swept IN
       \E refused \in SUBSET {c \in left \ Silent : ws[c] = "open"} :
          /\ Disconnect(swept \cup Silent \cup refused)
          /\ swept \cup Silent \cup refused # {}
    /\ UNCHANGED <<ws, userId, timer, overdue, silence, logins, running>>

\* cleanup closes and disconnects what is silent; past a tenth of the pool
\* cleanupZombieConnections then drops dead sockets from the map and from
\* userConnections, and leaves store.sockets as it is.
Cleanup ==
    /\ running
    /\ LET left == connections \ Silent
           zombies == IF 10 * Cardinality(left) > PoolSize
                      THEN {c \in left : ws[c] \in {"closing", "closed"}}
                      ELSE {} IN
       /\ Silent \cup zombies # {}
       /\ ws' = Closing(Silent)
       /\ connections' = left \ zombies
       /\ userConns' = Unindexed(userConns, Silent \cup zombies)
       /\ sockets' = Unindexed(sockets, Silent)
    /\ UNCHANGED <<userId, timer, overdue, silence, logins, running>>

Shutdown ==
    /\ running
    /\ running' = FALSE
    /\ ws' = Closing(connections)
    /\ connections' = {}
    /\ userConns' = [u \in Users |-> {}]
    /\ sockets' = [u \in Users |-> {}]
    /\ UNCHANGED <<userId, timer, overdue, silence, logins>>

\* Time passes: the 3 seconds of the login, a minute and two of silence.
Age(c) ==
    /\ c \in connections \cup timer
    /\ \/ /\ c \notin overdue
          /\ overdue' = overdue \cup {c}
          /\ UNCHANGED silence
       \/ /\ c \in overdue /\ silence[c] # "timeout"
          /\ silence' = [silence EXCEPT ![c] =
                            IF @ = "recent" THEN "minute" ELSE "timeout"]
          /\ UNCHANGED overdue
    /\ UNCHANGED <<ws, connections, userId, userConns, sockets, timer, logins,
                   running>>

Next ==
    \/ \E c \in Conns :
          \/ Accept(c) \/ Message(c) \/ AuthTimeout(c)
          \/ CloseEvent(c) \/ ErrorEvent(c) \/ Pong(c) \/ Age(c)
          \/ \E u \in Users : Login(c, u) \/ Authenticate(c, u) \/ Reject(c, u)
    \/ Heartbeat \/ Cleanup \/ Shutdown

Spec == Init /\ [][Next]_vars

\* Timers fire and a closing handshake ends; that a login returns, or that a
\* peer closes, is not assumed.
Fairness ==
    \A c \in Conns :
        /\ WF_vars(Age(c))
        /\ WF_vars(AuthTimeout(c))
        /\ WF_vars(ws[c] = "closing" /\ CloseEvent(c))

FairSpec == Spec /\ Fairness

-----------------------------------------------------------------------------
(* Properties *)

\* A user never has more than MaxPerUser connections indexed, however many
\* logins of however many sockets await at once: the size is read and the
\* connection added with no await between.
LimitRespected ==
    \A u \in Users : Cardinality(userConns[u]) <= MaxPerUser

\* Whatever removed, rejected or timed out around it, a connection that is
\* in the map and authenticated is indexed under its user in both indexes:
\* sendToUser reaches every live connection of a user, and handleDisconnect
\* will find what it has to remove.
AuthenticatedIsIndexed ==
    \A c \in connections : userId[c] # Pending =>
        c \in userConns[userId[c]] /\ c \in sockets[userId[c]]

\* A connection still pending has its timer armed: there is no order of
\* logins, failures and close events that leaves it pending for good.
PendingIsTimed ==
    \A c \in connections : userId[c] = Pending => c \in timer

\* The map and the sockets: a connection in the map has a socket that is not
\* yet closed, so the close event still to come will remove it.
MappedIsNotClosed == \A c \in connections : ws[c] \in {"open", "closing"}

\* The connection map, the two indexes, the timers and the sockets agree,
\* however logins, timeouts, heartbeats, clean-ups and socket events
\* interleave.
TablesAgree ==
    /\ AuthenticatedIsIndexed
    /\ PendingIsTimed
    /\ MappedIsNotClosed

\* Every accepted connection is soon authenticated or out of the map.
PendingResolved ==
    \A c \in Conns :
        c \in connections /\ userId[c] = Pending
            ~> c \notin connections \/ userId[c] # Pending

\* What the timeout, the zombie and the aggressive clean-ups are for ("to
\* prevent zombie connection accumulation"): a user's quota is not taken by
\* a connection whose socket is closed.
NoZombieConnections ==
    \A u \in Users : \A c \in userConns[u] : ws[c] # "closed"
=============================================================================
