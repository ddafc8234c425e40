------------------------------ MODULE LogStream ------------------------------
(***************************************************************************)
(* The log stream: the connection of a page to the WebSocket server        *)
(* (websocket/websocket-server.ts).  The page's store opens it, repeats    *)
(* it when it is lost and queues what it cannot send (frontend             *)
(* lib/stores/websocket-enhanced.svelte.ts); the page of a task subscribes *)
(* through it (lib/hooks/use-task-websocket-enhanced.svelte.ts), and so    *)
(* does the list of all tasks (lib/stores/task.svelte.ts).                 *)
(*                                                                         *)
(* Each direction of a connection is a queue; the page, the server and the *)
(* network learn of its end at different times.                            *)
(***************************************************************************)
EXTENDS Integers, Sequences

CONSTANTS
  Watchable,     \* tasks with a page
  AllTasks,      \* "*"
  NoTask,
  MaxLinks,      \* bound on the connections: each connect() makes one
  MaxConnects,   \* bound on connect() by the layout, its provider, the file tree
  MaxShows,      \* bound on visits to the page of a task
  MaxWsFaults,   \* bound on losses, delays and restarts of the server
  MaxReconnectAttempts,
  MaxQueueSize   \* config.maxQueueSize

Link   == 1 .. MaxLinks
NoLink == 0

ASSUME LogStreamAssumption ==
  /\ AllTasks \notin Watchable /\ NoTask \notin Watchable \cup {AllTasks}
  /\ MaxLinks \in Nat /\ MaxConnects \in Nat /\ MaxShows \in Nat /\ MaxWsFaults \in Nat
  /\ MaxReconnectAttempts \in Nat \ {0} /\ MaxQueueSize \in Nat

VARIABLES
  current,          \* this.socket
  connected,        \* status = 'connected'
  isAuthenticated,
  authenticating,   \* authenticate() waits for the auth store
  reconnectTimer, reconnectAttempts,
  messageQueue,
  shown,            \* the task whose page is open
  starHandler,      \* the list of tasks waits for its first auth:success
  pageEnd,          \* readyState: "none", "connecting", "open", then "clean" or
                    \* "unclean" until the close event, and "over"
  serverEnd,        \* "none", "open", "closing", "closed"
  dead,             \* connections the network no longer carries
  clients, authenticated, subscriptions, authTimeout,  \* of the server
  toServer,         \* messages on their way
  successes,        \* auth:success messages on their way back
  keyGood,          \* the key of the page is one the server knows
  gaveUp,           \* the last connection was closed cleanly by the server
  opened, connects, shows, wsFaults

wsPage    == <<current, connected, isAuthenticated, authenticating,
               reconnectTimer, reconnectAttempts, messageQueue, shown, starHandler>>
wsServer  == <<serverEnd, clients, authenticated, subscriptions, authTimeout>>
wsNetwork == <<pageEnd, dead, toServer, successes>>
wsRest    == <<keyGood, gaveUp, opened, connects, shows, wsFaults>>
wsVars    == <<wsPage, wsServer, wsNetwork, wsRest>>

Auth           == <<"auth">>
Subscribe(t)   == <<"subscribe", t>>
Unsubscribe(t) == <<"unsubscribe", t>>

LogStreamInit ==
  /\ current = NoLink /\ connected = FALSE /\ isAuthenticated = FALSE
  /\ authenticating = FALSE
  /\ reconnectTimer = FALSE /\ reconnectAttempts = 0
  /\ messageQueue = <<>> /\ shown = NoTask /\ starHandler = TRUE
  /\ pageEnd = [l \in Link |-> "none"] /\ serverEnd = [l \in Link |-> "none"]
  /\ dead = {} /\ clients = {} /\ authenticated = {} /\ authTimeout = {}
  /\ subscriptions = [l \in Link |-> {}]
  /\ toServer = [l \in Link |-> <<>>] /\ successes = [l \in Link |-> 0]
  /\ keyGood \in BOOLEAN /\ gaveUp = FALSE
  /\ opened = 0 /\ connects = 0 /\ shows = 0 /\ wsFaults = 0

WsFault == wsFaults < MaxWsFaults /\ wsFaults' = wsFaults + 1

-----------------------------------------------------------------------------
(* The page *)

\* Messages on a connection that is lost or closed at its end are gone.
Posted(l, messages) ==
  IF l \in dead \/ serverEnd[l] = "closed" THEN toServer
  ELSE [toServer EXCEPT ![l] = @ \o messages]

\* The queue takes messages while it has room.
Queued(messages) ==
  LET all == messageQueue \o messages IN
  IF Len(all) <= MaxQueueSize THEN all ELSE SubSeq(all, 1, MaxQueueSize)

\* send: over the connection if it is open, else into the queue.
Send(messages) ==
  IF current # NoLink /\ pageEnd[current] = "open"
  THEN toServer' = Posted(current, messages) /\ UNCHANGED messageQueue
  ELSE messageQueue' = Queued(messages) /\ UNCHANGED toServer

\* disconnect, which connect calls first, starts the count of attempts anew: the
\* limit and the growing delay never apply.
AttemptsAfterConnect == 0

\* The status is no longer connected.  The hook's effect is torn down with the
\* status from before: its unsubscribe is queued.
HookTornDown ==
  IF connected /\ shown # NoTask THEN <<Unsubscribe(shown)>> ELSE <<>>

\* connect does nothing if the connection is open.
AlreadyConnected == current # NoLink /\ pageEnd[current] = "open"

\* connect: one that is not yet open is left alone without its handlers.
ConnectNow ==
  IF AlreadyConnected
  THEN UNCHANGED <<current, connected, isAuthenticated, messageQueue,
                   reconnectTimer, reconnectAttempts, pageEnd, gaveUp, opened>>
  ELSE /\ opened < MaxLinks
       /\ opened' = opened + 1 /\ current' = opened + 1
       /\ pageEnd' = [pageEnd EXCEPT ![opened + 1] = "connecting"]
       /\ connected' = FALSE /\ isAuthenticated' = FALSE
       /\ reconnectTimer' = FALSE /\ reconnectAttempts' = AttemptsAfterConnect
       /\ messageQueue' = Queued(HookTornDown)
       /\ gaveUp' = FALSE

\* The layout, its provider after 100 ms and the file tree connect.
Connect ==
  /\ connects < MaxConnects
  /\ connects' = connects + 1
  /\ ConnectNow
  /\ UNCHANGED <<authenticating, shown, starHandler, wsServer,
                 dead, toServer, successes, keyGood, shows, wsFaults>>

ReconnectFires ==
  /\ reconnectTimer
  /\ ConnectNow
  /\ UNCHANGED <<authenticating, shown, starHandler, wsServer,
                 dead, toServer, successes, keyGood, connects, shows, wsFaults>>

\* The connection is made: handleConnection, and handleOpen unless abandoned.  The
\* hook's effect comes before authenticate goes on; the server refuses what it sends.
Opens(l) ==
  /\ pageEnd[l] = "connecting"
  /\ pageEnd' = [pageEnd EXCEPT ![l] = "open"]
  /\ serverEnd' = [serverEnd EXCEPT ![l] = "open"]
  /\ clients' = clients \cup {l} /\ authTimeout' = authTimeout \cup {l}
  /\ IF l = current
     THEN /\ connected' = TRUE /\ reconnectAttempts' = 0
          /\ authenticating' = TRUE
          /\ toServer' = IF shown = NoTask THEN toServer
                         ELSE [toServer EXCEPT ![l] = <<Subscribe(shown)>>]
     ELSE UNCHANGED <<connected, reconnectAttempts, authenticating, toServer>>
  /\ UNCHANGED <<current, isAuthenticated, reconnectTimer, messageQueue, shown,
                 starHandler, authenticated, subscriptions, dead, successes, wsRest>>

\* authenticate goes on, on whatever the connection is by then.
Authenticate ==
  /\ authenticating
  /\ authenticating' = FALSE
  /\ Send(<<Auth>>)
  /\ UNCHANGED <<current, connected, isAuthenticated, reconnectTimer,
                 reconnectAttempts, shown, starHandler, wsServer, pageEnd, dead,
                 successes, wsRest>>

\* The page of t is opened, from a page without one, or is left.
Show(t) ==
  /\ shown = NoTask /\ shows < MaxShows
  /\ shown' = t /\ shows' = shows + 1
  /\ IF connected THEN Send(<<Subscribe(t)>>) ELSE UNCHANGED <<messageQueue, toServer>>
  /\ UNCHANGED <<current, connected, isAuthenticated, authenticating,
                 reconnectTimer, reconnectAttempts, starHandler, wsServer, pageEnd, dead,
                 successes, keyGood, gaveUp, opened, connects, wsFaults>>

Leave ==
  /\ shown # NoTask
  /\ shown' = NoTask
  /\ IF connected THEN Send(<<Unsubscribe(shown)>>) ELSE UNCHANGED <<messageQueue, toServer>>
  /\ UNCHANGED <<current, connected, isAuthenticated, authenticating, reconnectTimer,
                 reconnectAttempts, starHandler, wsServer, pageEnd, dead, successes, wsRest>>

Resubscribed == (IF shown = NoTask THEN <<>> ELSE <<Subscribe(shown)>>)
                \o (IF starHandler THEN <<Subscribe(AllTasks)>> ELSE <<>>)

\* Fault: the queue is sent after the handlers ran.
SentHandlersFirst == Resubscribed \o messageQueue

\* Fault: the hook does not wait for auth:success.
SentWithoutHandlers == messageQueue

\* What auth:success makes the page send: the queue, then the hook's handler and,
\* once, the list's.
SentOnSuccess == messageQueue \o Resubscribed

Succeeded(l) ==
  /\ successes[l] > 0 /\ pageEnd[l] = "open"
  /\ successes' = [successes EXCEPT ![l] = @ - 1]
  /\ isAuthenticated' = TRUE /\ starHandler' = FALSE
  /\ toServer' = Posted(l, SentOnSuccess)
  /\ messageQueue' = <<>>
  /\ UNCHANGED <<current, connected, authenticating, reconnectTimer,
                 reconnectAttempts, shown, wsServer, pageEnd, dead, wsRest>>

\* The connection is over for the page: its close arrives, the network or the
\* attempt to connect fails.
LinkEnds(l) ==
  /\ \/ /\ pageEnd[l] = "open" /\ serverEnd[l] = "closed"
        /\ l \notin dead /\ successes[l] = 0
        /\ pageEnd' = [pageEnd EXCEPT ![l] = "clean"] /\ UNCHANGED wsFaults
     \/ /\ pageEnd[l] = "open" /\ l \in dead
        /\ pageEnd' = [pageEnd EXCEPT ![l] = "unclean"] /\ UNCHANGED wsFaults
     \/ /\ pageEnd[l] = "connecting" /\ WsFault
        /\ pageEnd' = [pageEnd EXCEPT ![l] = "unclean"]
  /\ UNCHANGED <<wsPage, wsServer, dead, toServer, successes, keyGood, gaveUp, opened,
                 connects, shows>>

\* Whether handleClose arms the next attempt.
Repeats(l) == pageEnd[l] = "unclean" /\ reconnectAttempts < MaxReconnectAttempts

\* handleClose.
Closes(l) ==
  /\ pageEnd[l] \in {"clean", "unclean"}
  /\ pageEnd' = [pageEnd EXCEPT ![l] = "over"]
  /\ IF l # current
     THEN UNCHANGED <<wsPage, toServer, gaveUp>>
     ELSE /\ connected' = FALSE /\ isAuthenticated' = FALSE
          /\ reconnectTimer' = Repeats(l)
          /\ reconnectAttempts' = IF Repeats(l) THEN reconnectAttempts + 1
                                  ELSE reconnectAttempts
          /\ gaveUp' = (pageEnd[l] = "clean")
          /\ messageQueue' = Queued(HookTornDown)
          /\ UNCHANGED <<current, authenticating, shown, starHandler, toServer>>
  /\ UNCHANGED <<wsServer, dead, successes, keyGood, opened, connects, shows, wsFaults>>

-----------------------------------------------------------------------------
(* The server and the network *)

\* handleMessage, also while the connection is closing, when nothing is answered.
Receives(l) ==
  LET message == Head(toServer[l]) IN
  /\ toServer[l] # <<>> /\ serverEnd[l] \in {"open", "closing"} /\ l \notin dead
  /\ toServer' = [toServer EXCEPT ![l] = Tail(@)]
  /\ IF message = Auth
     THEN /\ authenticated' = IF keyGood THEN authenticated \cup {l} ELSE authenticated
          /\ successes' = IF keyGood /\ serverEnd[l] = "open"
                          THEN [successes EXCEPT ![l] = @ + 1] ELSE successes
          /\ UNCHANGED subscriptions
     ELSE /\ subscriptions' = [subscriptions EXCEPT ![l] =
               IF l \notin authenticated THEN @
               ELSE IF message[1] = "subscribe" THEN @ \cup {message[2]}
               ELSE @ \ {message[2]}]
          /\ UNCHANGED <<authenticated, successes>>
  /\ UNCHANGED <<wsPage, serverEnd, clients, authTimeout, pageEnd, dead, wsRest>>

\* Fault: the timer belongs to connections that spoke.
ExpiringIfKnown(l) == l \in authTimeout \ authenticated /\ toServer[l] # <<>>

\* The authentication timer finds its connection unauthenticated.
Expiring(l) == l \in authTimeout \ authenticated

\* A page whose message is under way is late only by a delay.
AuthExpires(l) ==
  /\ Expiring(l) /\ serverEnd[l] = "open"
  /\ \/ (l # current \/ ~ keyGood \/ l \in dead) /\ UNCHANGED wsFaults
     \/ WsFault
  /\ serverEnd' = [serverEnd EXCEPT ![l] = "closing"]
  /\ authTimeout' = authTimeout \ {l}
  /\ UNCHANGED <<wsPage, clients, authenticated, subscriptions, wsNetwork, keyGood,
                 gaveUp, opened, connects, shows>>

\* The heartbeat check closes and drops a client it has not heard of: the network
\* is gone, or the page's timers are held back.
HeartbeatExpires(l) ==
  /\ l \in clients /\ serverEnd[l] = "open"
  /\ (l \in dead /\ UNCHANGED wsFaults) \/ WsFault
  /\ serverEnd' = [serverEnd EXCEPT ![l] = "closing"]
  /\ clients' = clients \ {l}
  /\ UNCHANGED <<wsPage, authenticated, subscriptions, authTimeout, wsNetwork, keyGood,
                 gaveUp, opened, connects, shows>>

\* The closing handshake ends or times out: handleDisconnect.
Disconnects(l) ==
  /\ serverEnd[l] = "closing"
  /\ serverEnd' = [serverEnd EXCEPT ![l] = "closed"]
  /\ clients' = clients \ {l} /\ authTimeout' = authTimeout \ {l}
  /\ subscriptions' = [subscriptions EXCEPT ![l] = {}]
  /\ toServer' = [toServer EXCEPT ![l] = <<>>]
  /\ UNCHANGED <<wsPage, authenticated, pageEnd, dead, successes, wsRest>>

NetworkFails(l) ==
  /\ pageEnd[l] = "open" /\ l \notin dead
  /\ WsFault
  /\ dead' = dead \cup {l}
  /\ toServer' = [toServer EXCEPT ![l] = <<>>]
  /\ successes' = [successes EXCEPT ![l] = 0]
  /\ UNCHANGED <<wsPage, wsServer, pageEnd, keyGood, gaveUp, opened, connects, shows>>

\* A new process: the old one closed its connections, or died.
RestartServer(graceful) ==
  /\ clients # {}
  /\ WsFault
  /\ serverEnd' = [l \in Link |-> IF serverEnd[l] = "none" THEN "none" ELSE "closed"]
  /\ clients' = {} /\ authTimeout' = {}
  /\ subscriptions' = [l \in Link |-> {}]
  /\ dead' = IF graceful THEN dead ELSE dead \cup clients
  /\ toServer' = [l \in Link |-> <<>>]
  /\ successes' = IF graceful THEN successes ELSE [l \in Link |-> 0]
  /\ UNCHANGED <<wsPage, authenticated, pageEnd, keyGood, gaveUp, opened, connects, shows>>

LogStreamNext ==
  \/ Connect \/ ReconnectFires \/ Authenticate \/ Leave
  \/ \E t \in Watchable : Show(t)
  \/ \E l \in Link :
       \/ Opens(l) \/ Succeeded(l) \/ LinkEnds(l) \/ Closes(l)
       \/ Receives(l) \/ AuthExpires(l) \/ HeartbeatExpires(l) \/ Disconnects(l)
       \/ NetworkFails(l)
  \/ \E graceful \in BOOLEAN : RestartServer(graceful)

LogStreamSpec == LogStreamInit /\ [][LogStreamNext]_wsVars

\* Timers fire, messages and closes arrive, promises resolve; no fault is owed.
LogStreamFairness ==
  /\ WF_wsVars(ReconnectFires) /\ WF_wsVars(Authenticate)
  /\ \A l \in Link :
       /\ WF_wsVars(Opens(l)) /\ WF_wsVars(Succeeded(l)) /\ WF_wsVars(Closes(l))
       /\ WF_wsVars(Receives(l)) /\ WF_wsVars(Disconnects(l))
       /\ WF_wsVars(LinkEnds(l) /\ UNCHANGED wsFaults)
       /\ WF_wsVars(AuthExpires(l) /\ UNCHANGED wsFaults)
       /\ WF_wsVars(HeartbeatExpires(l) /\ UNCHANGED wsFaults)

-----------------------------------------------------------------------------
Message == {Auth} \cup {Subscribe(t) : t \in Watchable \cup {AllTasks}}
                  \cup {Unsubscribe(t) : t \in Watchable}

\* The shapes of the state of the stream.
LogStreamTypeOK ==
  /\ current \in Link \cup {NoLink}
  /\ {connected, isAuthenticated, authenticating, reconnectTimer, starHandler,
      keyGood, gaveUp} \subseteq BOOLEAN
  /\ reconnectAttempts \in 0 .. MaxReconnectAttempts
  /\ messageQueue \in Seq(Message) /\ Len(messageQueue) <= MaxQueueSize
  /\ shown \in Watchable \cup {NoTask}
  /\ pageEnd \in [Link -> {"none", "connecting", "open", "clean", "unclean", "over"}]
  /\ serverEnd \in [Link -> {"none", "open", "closing", "closed"}]
  /\ dead \subseteq Link /\ clients \subseteq Link
  /\ authenticated \subseteq Link /\ authTimeout \subseteq Link
  /\ subscriptions \in [Link -> SUBSET (Watchable \cup {AllTasks})]
  /\ toServer \in [Link -> Seq(Message)] /\ successes \in [Link -> Nat]
  /\ {opened, connects, shows, wsFaults} \subseteq Nat

Quiet(l) == /\ toServer[l] = <<>> /\ successes[l] = 0
            /\ ~ authenticating

\* Whatever was queued, refused or lost on the way, once nothing is under way an
\* authenticated page is subscribed to the task it shows and to no other.
SubscriptionSettled ==
  current # NoLink /\ isAuthenticated /\ pageEnd[current] = "open"
    /\ serverEnd[current] = "open" /\ current \notin dead /\ Quiet(current)
  => subscriptions[current] \ {AllTasks} = {shown} \ {NoTask}

Watched(t) == current \in clients \cap authenticated /\ t \in subscriptions[current]

\* A page that shows a task gets its logs, and again after every loss of the
\* connection, unless the server closed it cleanly (the page then stays without)
\* or refuses the key.
PageFollows ==
  \A t \in Watchable :
    shown = t /\ current # NoLink /\ keyGood ~> Watched(t) \/ shown # t \/ gaveUp

\* The server gets rid of connections that the page abandoned or the network lost.
AbandonedEnd ==
  \A l \in Link :
    serverEnd[l] = "open" /\ (l # current \/ l \in dead) ~> serverEnd[l] = "closed"

\* A page follows its task through all losses of the connection, and what it loses
\* does not stay open in the server.
StreamSettles == PageFollows /\ AbandonedEnd
=============================================================================
