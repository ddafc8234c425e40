---------------------------- MODULE ChatSessions ----------------------------
(***************************************************************************)
(* A chat over an agent session: the page, which opens a connection per    *)
(* message and sends the message again when the connection is lost         *)
(* (frontend lib/utils/websocket-chat.ts, lib/stores/chat.svelte.ts), the  *)
(* connection's handler (server/routes/chat.ts, chat/chat-sdk-client.ts),  *)
(* the pool of agent sessions (session/v2-session-runtime.ts) and the      *)
(* tokens that tie a forked session to a new chat                          *)
(* (session/fork-token-store.ts, routes/sessions-v2.ts).                   *)
(*                                                                         *)
(* A connection carries one message, so the managed session of connection  *)
(* c is named c.                                                           *)
(***************************************************************************)
EXTENDS Integers, FiniteSets

CONSTANTS
  Chat,       \* chat sessions
  FirstChat,  \* the one that exists at the start
  Conn,       \* connections, each used once
  Sdk,        \* session ids the agent SDK may hand out
  NoSdk, NoConn, NoChat

ASSUME ChatAssumption ==
  /\ FirstChat \in Chat /\ IsFiniteSet(Conn)
  /\ NoSdk \notin Sdk /\ NoConn \notin Conn /\ NoChat \notin Chat

VARIABLES
  chats,      \* the chats in the table
  sdkRow,     \* chat_sessions.sdk_session_id
  streaming,  \* isStreaming, per chat
  chatOf,     \* the chat of a connection, NoChat before it is used
  socket,     \* "none", "opening", "open", "closing" (the server is to notice), "closed"
  retryLeft,  \* connections whose message may be sent once more
  copy,       \* currentSdkSessionId, read when the connection was opened
  turn,       \* "none", "stuck" (its session is never made), "working", "ended", "failed"
  managed,    \* sdkSessionId of the managed session of c
  attached,   \* connections whose executor holds its managed session
  idle,       \* managed sessions in the state idle
  closed,     \* managed sessions that were closed
  pool,       \* the pool: the managed session under an id
  usedSdk,    \* ids handed out
  tokens,     \* fork tokens, named by the forked id they stand for
  expired,    \* those whose minute is over
  raced,      \* chats two turns of which ran at a time without an id in the row
  detachedBy  \* ids whose pool entry another connection's close removed

chatTable  == <<chats, sdkRow>>
chatClient == <<streaming, chatOf, socket, retryLeft>>
chatTurn   == <<copy, turn, managed, attached, idle>>
chatPool   == <<closed, pool, usedSdk>>
chatForks  == <<tokens, expired>>
chatVars   == <<chatTable, chatClient, chatTurn, chatPool, chatForks, raced, detachedBy>>

ChatInit ==
  /\ chats = {FirstChat}
  /\ sdkRow = [k \in Chat |-> NoSdk]
  /\ streaming = {}
  /\ chatOf = [c \in Conn |-> NoChat]
  /\ socket = [c \in Conn |-> "none"]
  /\ retryLeft = {}
  /\ copy = [c \in Conn |-> NoSdk]
  /\ turn = [c \in Conn |-> "none"]
  /\ managed = [c \in Conn |-> NoSdk]
  /\ attached = {} /\ idle = {} /\ closed = {}
  /\ pool = [s \in Sdk |-> NoConn]
  /\ usedSdk = {} /\ tokens = {} /\ expired = {} /\ raced = {} /\ detachedBy = {}

-----------------------------------------------------------------------------
(* The page *)

\* The bound on messages: a connection is left for every one that may be repeated.
Spare == Cardinality({c \in Conn : socket[c] = "none"}) > Cardinality(retryLeft) + 1

\* sendMessage.
SendMessage(k, c) ==
  /\ k \in chats /\ k \notin streaming
  /\ socket[c] = "none" /\ Spare
  /\ streaming' = streaming \cup {k}
  /\ chatOf' = [chatOf EXCEPT ![c] = k]
  /\ socket' = [socket EXCEPT ![c] = "opening"]
  /\ retryLeft' = retryLeft \cup {c}
  /\ UNCHANGED <<chatTable, chatTurn, chatPool, chatForks, raced, detachedBy>>

\* Fault: the end of the retries is not reported.
AfterCloseSilent(c, again, shown) ==
  /\ IF c \in retryLeft
     THEN /\ socket[again] = "none"
          /\ chatOf' = [chatOf EXCEPT ![again] = chatOf[c]]
          /\ socket' = [socket EXCEPT ![c] = "closing", ![again] = "opening"]
     ELSE /\ socket' = [socket EXCEPT ![c] = "closing"]
          /\ UNCHANGED chatOf
  /\ streaming' = IF shown THEN streaming \ {chatOf[c]} ELSE streaming
  /\ retryLeft' = retryLeft \ {c}

\* The page's onClose without "complete": the message is sent once more on a new
\* connection (again), also after an error was shown; then it is an error.
AfterClose(c, again, shown) ==
  /\ IF c \in retryLeft
     THEN /\ socket[again] = "none"
          /\ chatOf' = [chatOf EXCEPT ![again] = chatOf[c]]
          /\ socket' = [socket EXCEPT ![c] = "closing", ![again] = "opening"]
     ELSE /\ socket' = [socket EXCEPT ![c] = "closing"]
          /\ UNCHANGED chatOf
  /\ streaming' = IF shown \/ c \notin retryLeft THEN streaming \ {chatOf[c]} ELSE streaming
  /\ retryLeft' = retryLeft \ {c}

\* The connection is lost.
Drop(c, again) ==
  /\ socket[c] \in {"opening", "open"}
  /\ AfterClose(c, again, FALSE)
  /\ UNCHANGED <<chatTable, chatTurn, chatPool, chatForks, raced, detachedBy>>

-----------------------------------------------------------------------------
(* The handler of a connection *)

\* Connections of the chat that may enter an agent session of their own in the row.
FirstTurns(k) == {c \in Conn : /\ chatOf[c] = k /\ copy[c] = NoSdk
                               /\ \/ turn[c] = "working"
                                  \/ turn[c] = "none" /\ socket[c] = "open"}

\* Fault: the id is not read from the table.
CopyOfNothing(c) == NoSdk

\* The id the connection starts from.
CopyAtOpen(c) == sdkRow[chatOf[c]]

\* The connection is accepted; "connected" makes the page send its message.
Open(c) ==
  /\ socket[c] = "opening"
  /\ socket' = [socket EXCEPT ![c] = "open"]
  /\ copy' = [copy EXCEPT ![c] = CopyAtOpen(c)]
  /\ raced' = IF FirstTurns(chatOf[c]) # {} THEN raced \cup {chatOf[c]} ELSE raced
  /\ UNCHANGED <<chatTable, streaming, chatOf, retryLeft, turn, managed, attached, idle,
                 chatPool, chatForks, detachedBy>>

\* The message arrives: resumeSession enters the pool over whatever is there,
\* createSession does not.
Receive(c) ==
  /\ socket[c] = "open" /\ turn[c] = "none"
  /\ turn' = [turn EXCEPT ![c] = "working"]
  /\ attached' = attached \cup {c}
  /\ managed' = [managed EXCEPT ![c] = copy[c]]
  /\ pool' = IF copy[c] = NoSdk THEN pool ELSE [pool EXCEPT ![copy[c]] = c]
  /\ detachedBy' = detachedBy \ {copy[c]}
  /\ UNCHANGED <<chatTable, chatClient, copy, idle, closed, usedSdk, chatForks, raced>>

\* It arrives and waits for the directory, for ever when a change back failed
\* (ProcessEnv); the connection has no timeout.
ReceiveStuck(c) ==
  /\ socket[c] = "open" /\ turn[c] = "none"
  /\ turn' = [turn EXCEPT ![c] = "stuck"]
  /\ UNCHANGED <<chatTable, chatClient, copy, managed, attached, idle, chatPool, chatForks,
                 raced, detachedBy>>

\* Fault: a failed statement still changes the connection's copy.
WriteIdCopyFirst(c, s) ==
  /\ copy' = [copy EXCEPT ![c] = s]
  /\ sdkRow' \in {sdkRow, [sdkRow EXCEPT ![chatOf[c]] = s]}

\* The id goes into the row and then into the connection's copy; a statement that
\* fails leaves both.
WriteId(c, s) ==
  \/ /\ sdkRow' = [sdkRow EXCEPT ![chatOf[c]] = s]
     /\ copy' = [copy EXCEPT ![c] = s]
  \/ UNCHANGED <<sdkRow, copy>>

\* sendAndStream learns the id of a new session, also after the connection closed;
\* that it could not be written is not noticed.
Materialize(c, s) ==
  /\ turn[c] = "working" /\ managed[c] = NoSdk
  /\ c \notin closed
  /\ s \notin usedSdk
  /\ usedSdk' = usedSdk \cup {s}
  /\ managed' = [managed EXCEPT ![c] = s]
  /\ pool' = [pool EXCEPT ![s] = c]
  /\ WriteId(c, s)
  /\ UNCHANGED <<chats, chatClient, turn, attached, idle, closed, chatForks, raced, detachedBy>>

\* The turn ends; "complete" makes the page close the connection.  Then the id is
\* written if the connection's copy is another one: again when the first write failed.
TurnEnds(c) ==
  /\ turn[c] = "working" /\ managed[c] # NoSdk
  /\ c \notin closed
  /\ turn' = [turn EXCEPT ![c] = "ended"]
  /\ idle' = idle \cup {c}
  /\ IF socket[c] = "open"
     THEN /\ socket' = [socket EXCEPT ![c] = "closing"]
          /\ streaming' = streaming \ {chatOf[c]}
          /\ retryLeft' = retryLeft \ {c}
     ELSE UNCHANGED <<socket, streaming, retryLeft>>
  /\ IF managed[c] = copy[c] THEN UNCHANGED <<sdkRow, copy>> ELSE WriteId(c, managed[c])
  /\ UNCHANGED <<chats, chatOf, managed, attached, chatPool, chatForks, raced, detachedBy>>

\* The turn throws, in the session, which stays "running", or after it, when the
\* answer cannot be saved; "error" makes the page close the connection and try again.
TurnFails(c, again) ==
  /\ turn[c] = "working"
  /\ turn' = [turn EXCEPT ![c] = "failed"]
  /\ \/ UNCHANGED idle
     \/ managed[c] # NoSdk /\ idle' = idle \cup {c}
  /\ IF socket[c] = "open" THEN AfterClose(c, again, TRUE) ELSE UNCHANGED chatClient
  /\ UNCHANGED <<chatTable, copy, managed, attached, chatPool, chatForks, raced, detachedBy>>

\* The server notices the close: detach removes the pool entry under the id,
\* whosever it is.
ServerCloses(c) ==
  /\ socket[c] = "closing"
  /\ socket' = [socket EXCEPT ![c] = "closed"]
  /\ attached' = attached \ {c}
  /\ IF c \in attached /\ managed[c] # NoSdk
     THEN /\ pool' = [pool EXCEPT ![managed[c]] = NoConn]
          /\ detachedBy' = IF pool[managed[c]] \notin {c, NoConn}
                           THEN detachedBy \cup {managed[c]} ELSE detachedBy
     ELSE UNCHANGED <<pool, detachedBy>>
  /\ UNCHANGED <<chatTable, streaming, chatOf, retryLeft, copy, turn, managed, idle, closed,
                 usedSdk, chatForks, raced>>

-----------------------------------------------------------------------------
(* The pool and the forks *)

\* Fault: the entry stays.
LeavePool(s) == pool

\* terminate and evictIdle: the entry goes with the session.
RemoveFromPool(s) == [pool EXCEPT ![s] = NoConn]

\* POST terminate and evictIdle, which takes idle sessions only.
ClosePooled(s, eviction) ==
  /\ pool[s] # NoConn
  /\ eviction => pool[s] \in idle
  /\ closed' = closed \cup {pool[s]}
  /\ pool' = RemoveFromPool(s)
  /\ UNCHANGED <<chatTable, chatClient, chatTurn, usedSdk, chatForks, raced, detachedBy>>

\* POST fork: a new session of the SDK and a token for it; expired tokens go.
ForkChat(k, s) ==
  /\ k \in chats /\ sdkRow[k] # NoSdk
  /\ s \notin usedSdk
  /\ usedSdk' = usedSdk \cup {s}
  /\ tokens' = (tokens \ expired) \cup {s}
  /\ expired' = expired \cap tokens'
  /\ UNCHANGED <<chatTable, chatClient, chatTurn, closed, pool, raced, detachedBy>>

TokenExpires(s) ==
  /\ s \in tokens \ expired
  /\ expired' = expired \cup {s}
  /\ UNCHANGED <<chatTable, chatClient, chatTurn, chatPool, tokens, raced, detachedBy>>

\* Fault: a token is good until it expires.
ConsumeAgain(s) == tokens

\* consume: a token is good once.
Consume(s) == tokens \ {s}

\* POST chat session with a fork token: 400 when it is unknown or has expired.
CreateForked(k, s) ==
  /\ k \notin chats
  /\ s \in tokens
  /\ tokens' = Consume(s)
  /\ expired' = expired \cap tokens'
  /\ IF s \in expired THEN UNCHANGED chatTable
     ELSE chats' = chats \cup {k} /\ sdkRow' = [sdkRow EXCEPT ![k] = s]
  /\ UNCHANGED <<chatClient, chatTurn, chatPool, raced, detachedBy>>

ChatNext ==
  \/ \E c \in Conn :
       \/ \E k \in Chat : SendMessage(k, c)
       \/ \E again \in Conn \ {c} : Drop(c, again) \/ TurnFails(c, again)
       \/ Open(c) \/ Receive(c) \/ ReceiveStuck(c) \/ TurnEnds(c) \/ ServerCloses(c)
       \/ \E s \in Sdk : Materialize(c, s)
  \/ \E s \in Sdk :
       \/ \E eviction \in BOOLEAN : ClosePooled(s, eviction)
       \/ TokenExpires(s)
       \/ \E k \in Chat : ForkChat(k, s) \/ CreateForked(k, s)

ChatSpec == ChatInit /\ [][ChatNext]_chatVars

\* Connections are accepted or lost and messages arrive.  Nothing ends a turn: no
\* part of the code limits its time.
ChatFairness ==
  \A c \in Conn : WF_chatVars(Open(c)) /\ WF_chatVars(Receive(c) \/ ReceiveStuck(c))

-----------------------------------------------------------------------------
\* The shapes of the state of the chats.
ChatTypeOK ==
  /\ chats \subseteq Chat /\ streaming \subseteq Chat /\ raced \subseteq Chat
  /\ sdkRow \in [Chat -> Sdk \cup {NoSdk}]
  /\ chatOf \in [Conn -> Chat \cup {NoChat}]
  /\ socket \in [Conn -> {"none", "opening", "open", "closing", "closed"}]
  /\ retryLeft \subseteq Conn /\ attached \subseteq Conn
  /\ idle \subseteq Conn /\ closed \subseteq Conn
  /\ copy \in [Conn -> Sdk \cup {NoSdk}]
  /\ turn \in [Conn -> {"none", "stuck", "working", "ended", "failed"}]
  /\ managed \in [Conn -> Sdk \cup {NoSdk}]
  /\ pool \in [Sdk -> Conn \cup {NoConn}]
  /\ usedSdk \subseteq Sdk /\ tokens \subseteq Sdk /\ expired \subseteq Sdk
  /\ detachedBy \subseteq Sdk \cup {NoSdk}

\* What the pool holds under an id is an open session of that id; and the session
\* of a turn on an open connection is found under its id, so that it can be
\* terminated, unless it was closed, another connection of the chat resumed the
\* same id since, or the late close of another one removed the entry.
PoolSound ==
  /\ \A s \in Sdk : pool[s] # NoConn => managed[pool[s]] = s /\ pool[s] \notin closed
  /\ \A c \in Conn :
       socket[c] = "open" /\ turn[c] = "working" /\ managed[c] # NoSdk /\ c \notin closed
         => \/ pool[managed[c]] = c \/ managed[c] \in detachedBy
            \/ \E d \in Conn \ {c} : managed[d] = managed[c] /\ turn[d] # "none"

\* An agent session belongs to one chat: the token of a fork is good for one, and
\* a fork never continues in the session it was taken from.
ForkOwned ==
  \A j, k \in chats : j # k /\ sdkRow[j] # NoSdk => sdkRow[j] # sdkRow[k]

\* The pool leads to the session of a turn, and that session to one chat.
SessionsSound == PoolSound /\ ForkOwned

\* A chat goes on in the agent session its row names, across connections, drops,
\* repeats and late ends of turns, and every turn is one of that session, unless a
\* message was sent again (or after an error) before the id of the first turn was in
\* the row.  When neither write of an id succeeds the row names none.
ConversationKept ==
  [][\A k \in Chat \ raced : sdkRow[k] # NoSdk =>
       /\ sdkRow'[k] = sdkRow[k]
       /\ \A c \in Conn : chatOf[c] = k /\ turn'[c] = "working" /\ managed'[c] # NoSdk
                            => managed'[c] = sdkRow[k]]_chatVars

\* The page stays in the state "streaming" for ever only when a turn never ends on
\* a connection that stays open.
TurnShown ==
  \A k \in Chat :
    <>[](k \in streaming) =>
      \E c \in Conn : <>[](/\ chatOf[c] = k /\ socket[c] = "open"
                           /\ turn[c] \in {"stuck", "working"})
=============================================================================
