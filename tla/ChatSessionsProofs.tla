------------------------- MODULE ChatSessionsProofs -------------------------
(***************************************************************************)
(* Proofs about ChatSessions for every set of chats, of session ids and    *)
(* every finite set of connections.                                        *)
(***************************************************************************)
EXTENDS ChatSessions, TLAPS

-----------------------------------------------------------------------------
(* Types. *)

Sockets == {"none", "opening", "open", "closing", "closed"}

\* What the page does when a connection ends, one connection at a time: the
\* connection is closing, another one may be opened for the same chat.
LEMMA PageMoves ==
  ASSUME ChatTypeOK, NEW c \in Conn, NEW again \in Conn \ {c}, NEW shown \in BOOLEAN,
         AfterClose(c, again, shown)
  PROVE  /\ \A d \in Conn :
              \/ /\ d # c /\ socket'[d] = socket[d] /\ chatOf'[d] = chatOf[d]
              \/ /\ d = c /\ socket'[d] = "closing" /\ chatOf'[d] = chatOf[d]
              \/ /\ d # c /\ socket[d] = "none" /\ socket'[d] = "opening"
                 /\ chatOf'[d] = chatOf[c]
         /\ chatOf' \in [Conn -> Chat \cup {NoChat}]
         /\ socket' \in [Conn -> Sockets]
         /\ streaming' \subseteq Chat /\ retryLeft' \subseteq Conn
<1>1. CASE c \in retryLeft
  BY <1>1 DEF ChatTypeOK, AfterClose, Sockets
<1>2. CASE c \notin retryLeft
  BY <1>2 DEF ChatTypeOK, AfterClose, Sockets
<1> QED BY <1>1, <1>2

\* A connection that was asked for belongs to a chat; before its message it has no
\* agent session, and one that had an id when its message came is of that session.
Turns ==
  \A c \in Conn :
    /\ socket[c] # "none" => chatOf[c] \in chats
    /\ socket[c] \in {"none", "opening"} => turn[c] = "none" /\ copy[c] = NoSdk
    /\ turn[c] \in {"none", "stuck"} => managed[c] = NoSdk
    /\ turn[c] \notin {"none", "stuck"} /\ copy[c] # NoSdk => managed[c] = copy[c]

\* A step of a chat keeps the types.
LEMMA ChatTypesKept ==
  ASSUME ChatTypeOK, Turns, [ChatNext]_chatVars PROVE ChatTypeOK'
<1> USE DEF chatTable, chatClient, chatTurn, chatPool, chatForks
<1>1. ASSUME NEW k \in Chat, NEW c \in Conn, SendMessage(k, c) PROVE ChatTypeOK'
  BY <1>1 DEF ChatTypeOK, SendMessage
<1>2. ASSUME NEW c \in Conn, NEW again \in Conn \ {c}, Drop(c, again) PROVE ChatTypeOK'
  BY <1>2, PageMoves DEF ChatTypeOK, Drop, Sockets
<1>3. ASSUME NEW c \in Conn, NEW again \in Conn \ {c}, TurnFails(c, again)
      PROVE  ChatTypeOK'
  <2>1. /\ turn' \in [Conn -> {"none", "stuck", "working", "ended", "failed"}]
        /\ idle' \subseteq Conn
    BY <1>3 DEF ChatTypeOK, TurnFails
  <2>2. CASE socket[c] = "open"
    BY <1>3, <2>1, <2>2, PageMoves DEF ChatTypeOK, TurnFails, Sockets
  <2>3. CASE socket[c] # "open"
    BY <1>3, <2>1, <2>3 DEF ChatTypeOK, TurnFails
  <2> QED BY <2>2, <2>3
<1>4. ASSUME NEW c \in Conn, Open(c) PROVE ChatTypeOK'
  <2>1. chatOf[c] \in Chat
    BY <1>4 DEF ChatTypeOK, Turns, Open
  <2> QED BY <1>4, <2>1 DEF ChatTypeOK, Open, CopyAtOpen
<1>5. ASSUME NEW c \in Conn, Receive(c) \/ ReceiveStuck(c) PROVE ChatTypeOK'
  BY <1>5 DEF ChatTypeOK, Receive, ReceiveStuck
<1>6. ASSUME NEW c \in Conn, NEW s \in Sdk, Materialize(c, s) PROVE ChatTypeOK'
  BY <1>6 DEF ChatTypeOK, Materialize, WriteId
<1>7. ASSUME NEW c \in Conn, TurnEnds(c) PROVE ChatTypeOK'
  BY <1>7 DEF ChatTypeOK, TurnEnds, WriteId
<1>8. ASSUME NEW c \in Conn, ServerCloses(c) PROVE ChatTypeOK'
  BY <1>8 DEF ChatTypeOK, ServerCloses
<1>9. ASSUME NEW s \in Sdk, NEW eviction \in BOOLEAN, ClosePooled(s, eviction)
      PROVE  ChatTypeOK'
  BY <1>9 DEF ChatTypeOK, ClosePooled, RemoveFromPool
<1>10. ASSUME NEW s \in Sdk, TokenExpires(s) PROVE ChatTypeOK'
  BY <1>10 DEF ChatTypeOK, TokenExpires
<1>11. ASSUME NEW k \in Chat, NEW s \in Sdk, ForkChat(k, s) PROVE ChatTypeOK'
  BY <1>11 DEF ChatTypeOK, ForkChat
<1>12. ASSUME NEW k \in Chat, NEW s \in Sdk, CreateForked(k, s) PROVE ChatTypeOK'
  BY <1>12 DEF ChatTypeOK, CreateForked, Consume
<1>13. CASE UNCHANGED chatVars
  BY <1>13 DEF ChatTypeOK, chatVars
<1> QED BY <1>1, <1>2, <1>3, <1>4, <1>5, <1>6, <1>7, <1>8, <1>9, <1>10, <1>11, <1>12,
           <1>13
        DEF ChatNext

\* A step keeps the connections and their turns in step.
LEMMA TurnsKept ==
  ASSUME ChatTypeOK, Turns, [ChatNext]_chatVars PROVE Turns'
<1> USE DEF chatTable, chatClient, chatTurn, chatPool, chatForks
<1>1. ASSUME NEW k \in Chat, NEW c \in Conn, SendMessage(k, c) PROVE Turns'
  BY <1>1 DEF ChatTypeOK, Turns, SendMessage
<1>2. ASSUME NEW c \in Conn, NEW again \in Conn \ {c}, NEW shown \in BOOLEAN,
             AfterClose(c, again, shown), socket[c] \in {"opening", "open"},
             \/ turn' = turn
             \/ turn[c] = "working" /\ turn' = [turn EXCEPT ![c] = "failed"],
             UNCHANGED <<chats, managed, copy>>
      PROVE  Turns'
  <2> SUFFICES ASSUME NEW d \in Conn
               PROVE  /\ socket'[d] # "none" => chatOf'[d] \in chats
                      /\ socket'[d] \in {"none", "opening"}
                           => turn'[d] = "none" /\ copy[d] = NoSdk
                      /\ turn'[d] \in {"none", "stuck"} => managed[d] = NoSdk
                      /\ turn'[d] \notin {"none", "stuck"} /\ copy[d] # NoSdk
                           => managed[d] = copy[d]
    BY <1>2 DEF Turns
  <2>1. /\ turn'[d] = "none" <=> turn[d] = "none"
        /\ turn'[d] = "stuck" <=> turn[d] = "stuck"
        /\ d # c => turn'[d] = turn[d]
    BY <1>2 DEF ChatTypeOK
  <2>2. socket[c] # "none" /\ chatOf[c] \in chats
    BY <1>2 DEF Turns
  <2>3. socket'[d] # "none" => chatOf'[d] \in chats
    BY <1>2, <2>2, PageMoves DEF Turns
  <2>4. socket'[d] \in {"none", "opening"} => turn'[d] = "none" /\ copy[d] = NoSdk
    BY <1>2, <2>1, PageMoves DEF Turns
  <2>5. /\ turn'[d] \in {"none", "stuck"} => managed[d] = NoSdk
        /\ turn'[d] \notin {"none", "stuck"} /\ copy[d] # NoSdk => managed[d] = copy[d]
    BY <2>1 DEF Turns
  <2> QED BY <2>3, <2>4, <2>5
<1>3. ASSUME NEW c \in Conn, NEW again \in Conn \ {c}, Drop(c, again) PROVE Turns'
  BY <1>2, <1>3 DEF Drop
<1>4. ASSUME NEW c \in Conn, NEW again \in Conn \ {c}, TurnFails(c, again) PROVE Turns'
  <2>1. CASE socket[c] = "open"
    BY <1>2, <1>4, <2>1 DEF TurnFails
  <2>2. CASE socket[c] # "open"
    BY <1>4, <2>2 DEF ChatTypeOK, Turns, TurnFails
  <2> QED BY <2>1, <2>2
<1>5. ASSUME NEW c \in Conn, Open(c) PROVE Turns'
  BY <1>5 DEF ChatTypeOK, Turns, Open
<1>6. ASSUME NEW c \in Conn, Receive(c) \/ ReceiveStuck(c) PROVE Turns'
  BY <1>6 DEF ChatTypeOK, Turns, Receive, ReceiveStuck
<1>7. ASSUME NEW c \in Conn, NEW s \in Sdk, Materialize(c, s) PROVE Turns'
  BY <1>7 DEF ChatTypeOK, Turns, Materialize, WriteId
<1>8. ASSUME NEW c \in Conn, TurnEnds(c) PROVE Turns'
  BY <1>8 DEF ChatTypeOK, Turns, TurnEnds, WriteId
<1>9. ASSUME NEW c \in Conn, ServerCloses(c) PROVE Turns'
  BY <1>9 DEF ChatTypeOK, Turns, ServerCloses
<1>10. ASSUME NEW s \in Sdk,
              \/ \E eviction \in BOOLEAN : ClosePooled(s, eviction)
              \/ TokenExpires(s) \/ \E k \in Chat : ForkChat(k, s) \/ CreateForked(k, s)
       PROVE  Turns'
  BY <1>10 DEF Turns, ClosePooled, TokenExpires, ForkChat, CreateForked
<1>11. CASE UNCHANGED chatVars
  BY <1>11 DEF Turns, chatVars
<1> QED BY <1>1, <1>3, <1>4, <1>5, <1>6, <1>7, <1>8, <1>9, <1>10, <1>11 DEF ChatNext

\* The pool, the tokens and the connections keep their shapes.
THEOREM ChatTyped == ChatSpec => []ChatTypeOK
<1>1. ChatInit => ChatTypeOK /\ Turns
  BY ChatAssumption DEF ChatInit, ChatTypeOK, Turns
<1>2. ChatTypeOK /\ Turns /\ [ChatNext]_chatVars => ChatTypeOK' /\ Turns'
  BY ChatTypesKept, TurnsKept
<1> QED BY <1>1, <1>2, PTL DEF ChatSpec

-----------------------------------------------------------------------------
(* Ids. *)

\* Every id in use was handed out, a token is for an id no chat has, and only a
\* chat of the table has one.
Ids ==
  /\ \A c \in Conn : {managed[c], copy[c]} \subseteq usedSdk \cup {NoSdk}
  /\ \A k \in Chat : /\ sdkRow[k] \in usedSdk \cup {NoSdk}
                     /\ sdkRow[k] \notin tokens
                     /\ sdkRow[k] # NoSdk => k \in chats
  /\ tokens \subseteq usedSdk

\* The ids a connection may write belong to its chat: no token is for them, no other
\* chat has them and no connection of another chat.
Held(c) == {managed[c], copy[c]} \ {NoSdk}

Owners ==
  /\ \A c \in Conn, s \in Sdk : s \in Held(c) =>
       s \notin tokens /\ \A k \in Chat : sdkRow[k] = s => chatOf[c] = k
  /\ \A c, d \in Conn, s \in Sdk : s \in Held(c) /\ s \in Held(d) => chatOf[c] = chatOf[d]

OwnInv == ChatTypeOK /\ Turns /\ Ids /\ ForkOwned /\ Owners

\* A step keeps the ids apart.
LEMMA IdsKept ==
  ASSUME OwnInv, [ChatNext]_chatVars PROVE Ids' /\ ForkOwned'
<1> USE DEF chatTable, chatClient, chatTurn, chatPool, chatForks, OwnInv
<1>1. ASSUME UNCHANGED <<chats, sdkRow, usedSdk, tokens, managed, copy>>
      PROVE  Ids' /\ ForkOwned'
  BY <1>1 DEF Ids, ForkOwned
<1>2. ASSUME NEW c \in Conn, Open(c) PROVE Ids' /\ ForkOwned'
  <2>1. chatOf[c] \in Chat
    BY <1>2 DEF ChatTypeOK, Turns, Open
  <2> QED BY <1>2, <2>1 DEF ChatTypeOK, Ids, ForkOwned, Open, CopyAtOpen
<1>3. ASSUME NEW c \in Conn, Receive(c) \/ ReceiveStuck(c) PROVE Ids' /\ ForkOwned'
  BY <1>3 DEF ChatTypeOK, Ids, ForkOwned, Receive, ReceiveStuck
<1>4. ASSUME NEW c \in Conn, NEW s \in Sdk, Materialize(c, s) PROVE Ids' /\ ForkOwned'
  <2>1. chatOf[c] \in chats /\ chatOf[c] \in Chat
    BY <1>4 DEF ChatTypeOK, Turns, Materialize
  <2>2. Ids'
    BY <1>4, <2>1, ChatAssumption DEF ChatTypeOK, Ids, Materialize, WriteId
  <2>3. ForkOwned'
    BY <1>4, <2>1, ChatAssumption DEF ChatTypeOK, Ids, ForkOwned, Materialize, WriteId
  <2> QED BY <2>2, <2>3
<1>9. ASSUME NEW c \in Conn, TurnEnds(c) PROVE Ids' /\ ForkOwned'
  <2>1. PICK k \in Chat : k = chatOf[c] /\ k \in chats
    BY <1>9 DEF ChatTypeOK, Turns, TurnEnds
  <2>2. PICK s \in Sdk : s = managed[c] /\ s \in usedSdk
    BY <1>9 DEF ChatTypeOK, Ids, TurnEnds
  <2>3. UNCHANGED <<chats, managed, usedSdk, tokens>>
    BY <1>9 DEF TurnEnds
  <2>4. \/ UNCHANGED <<sdkRow, copy>>
        \/ sdkRow' = [sdkRow EXCEPT ![k] = s] /\ copy' = [copy EXCEPT ![c] = s]
    BY <1>9, <2>1, <2>2 DEF TurnEnds, WriteId
  <2>5. s \notin tokens /\ \A j \in Chat \ {k} : sdkRow[j] # s
    BY <1>9, <2>1, <2>2, ChatAssumption DEF Owners, Held, TurnEnds
  <2> QED BY <2>1, <2>2, <2>3, <2>4, <2>5 DEF ChatTypeOK, Ids, ForkOwned
<1>5. ASSUME NEW k \in Chat, NEW s \in Sdk, ForkChat(k, s) PROVE Ids' /\ ForkOwned'
  BY <1>5, ChatAssumption DEF ChatTypeOK, Ids, ForkOwned, ForkChat
<1>6. ASSUME NEW k \in Chat, NEW s \in Sdk, CreateForked(k, s) PROVE Ids' /\ ForkOwned'
  <2>1. Ids'
    BY <1>6, ChatAssumption DEF ChatTypeOK, Ids, CreateForked, Consume
  <2>2. ForkOwned'
    BY <1>6, ChatAssumption DEF ChatTypeOK, Ids, ForkOwned, CreateForked, Consume
  <2> QED BY <2>1, <2>2
<1>7. ASSUME \/ \E k \in Chat, c \in Conn : SendMessage(k, c)
             \/ \E c \in Conn : ServerCloses(c)
             \/ \E c \in Conn : \E again \in Conn \ {c} :
                  Drop(c, again) \/ TurnFails(c, again)
             \/ \E s \in Sdk : TokenExpires(s)
             \/ \E s \in Sdk, eviction \in BOOLEAN : ClosePooled(s, eviction)
      PROVE  Ids' /\ ForkOwned'
  <2>1. UNCHANGED <<chats, sdkRow, usedSdk, tokens, managed, copy>>
    BY <1>7 DEF SendMessage, ServerCloses, Drop, TurnFails, TokenExpires, ClosePooled
  <2> QED BY <1>1, <2>1
<1>8. CASE UNCHANGED chatVars
  BY <1>1, <1>8 DEF chatVars
<1> QED BY <1>2, <1>3, <1>4, <1>5, <1>6, <1>7, <1>8, <1>9 DEF ChatNext

\* A connection that is given a chat holds no id yet.
LEMMA UsedKeepChat ==
  ASSUME OwnInv, [ChatNext]_chatVars, NEW c \in Conn, Held(c) # {}
  PROVE  chatOf'[c] = chatOf[c]
<1> USE DEF chatTable, chatClient, chatTurn, chatPool, chatForks
<1>1. socket[c] \notin {"none", "opening"} /\ ChatTypeOK
  BY DEF OwnInv, Turns, Held
<1>2. ASSUME NEW k \in Chat, NEW d \in Conn, SendMessage(k, d)
      PROVE  chatOf'[c] = chatOf[c]
  BY <1>1, <1>2 DEF ChatTypeOK, SendMessage
<1>3. ASSUME NEW d \in Conn, NEW again \in Conn \ {d}, Drop(d, again) \/ TurnFails(d, again)
      PROVE  chatOf'[c] = chatOf[c]
  <2>1. \/ chatOf' = chatOf
        \/ \E shown \in BOOLEAN : AfterClose(d, again, shown)
    BY <1>3 DEF Drop, TurnFails
  <2> QED BY <1>1, <2>1, PageMoves
<1>4. CASE UNCHANGED chatOf
  BY <1>4
<1> QED BY <1>2, <1>3, <1>4
        DEF ChatNext, chatVars, Open, Receive, ReceiveStuck, TurnEnds, ServerCloses,
            Materialize, ClosePooled, TokenExpires, ForkChat, CreateForked

\* A step that gives no connection an id, no chat a session and makes no token keeps
\* the owners.
LEMMA OwnersStay ==
  ASSUME OwnInv, [ChatNext]_chatVars, UNCHANGED sdkRow, tokens' \subseteq tokens,
         \A c \in Conn : Held(c)' \subseteq Held(c)
  PROVE  Owners'
<1>1. \A c \in Conn : Held(c)' # {} => chatOf'[c] = chatOf[c]
  BY UsedKeepChat
<1> QED BY <1>1 DEF OwnInv, Owners

\* A step keeps the owners.
LEMMA OwnersKept ==
  ASSUME OwnInv, [ChatNext]_chatVars PROVE Owners'
<1> USE DEF chatTable, chatClient, chatTurn, chatPool, chatForks
<1>0. ChatTypeOK /\ Turns /\ Ids /\ ForkOwned /\ Owners /\ NoSdk \notin Sdk
  BY ChatAssumption DEF OwnInv
<1>1. ASSUME UNCHANGED <<sdkRow, tokens, managed, copy>> PROVE Owners'
  BY <1>1, OwnersStay DEF Held
<1>2. ASSUME NEW c \in Conn, Open(c) PROVE Owners'
  <2>1. PICK k \in Chat : k = chatOf[c] /\ k \in chats
    BY <1>0, <1>2 DEF ChatTypeOK, Turns, Open
  <2>2. /\ UNCHANGED <<sdkRow, tokens, chatOf, managed>>
        /\ copy' = [copy EXCEPT ![c] = sdkRow[k]]
    BY <1>2, <2>1 DEF Open, CopyAtOpen
  <2>3. Held(c)' \subseteq {sdkRow[k]} /\ \A d \in Conn \ {c} : Held(d)' = Held(d)
    BY <1>0, <1>2, <2>2 DEF ChatTypeOK, Turns, Open, Held
  <2>4. ASSUME NEW s \in Sdk, s \in Held(c)'
        PROVE  /\ s \notin tokens
               /\ \A j \in Chat : sdkRow[j] = s => j = k
               /\ \A d \in Conn : s \in Held(d) => chatOf[d] = k
    BY <1>0, <2>1, <2>3, <2>4 DEF Ids, ForkOwned, Owners
  <2> QED BY <1>0, <2>1, <2>2, <2>3, <2>4 DEF Owners
<1>3. ASSUME NEW c \in Conn, Receive(c) \/ ReceiveStuck(c) PROVE Owners'
  <2>1. /\ UNCHANGED <<sdkRow, tokens>>
        /\ \A d \in Conn : Held(d)' \subseteq Held(d)
    BY <1>0, <1>3 DEF ChatTypeOK, Receive, ReceiveStuck, Held
  <2> QED BY <2>1, OwnersStay
<1>4. ASSUME NEW c \in Conn, NEW s \in Sdk, Materialize(c, s) PROVE Owners'
  <2>1. PICK k \in Chat : k = chatOf[c] /\ k \in chats
    BY <1>0, <1>4 DEF ChatTypeOK, Turns, Materialize
  <2>2. /\ UNCHANGED <<tokens, chatOf>>
        /\ \A j \in Chat : sdkRow'[j] = sdkRow[j] \/ (j = k /\ sdkRow'[j] = s)
    BY <1>0, <1>4, <2>1 DEF ChatTypeOK, Materialize, WriteId
  <2>3. /\ Held(c)' = {s} /\ Held(c) = {}
        /\ \A d \in Conn \ {c} : Held(d)' = Held(d)
    BY <1>0, <1>4 DEF ChatTypeOK, Turns, Materialize, WriteId, Held
  <2>4. /\ s \notin tokens /\ \A j \in Chat : sdkRow[j] # s
        /\ \A d \in Conn : s \notin Held(d)
    BY <1>0, <1>4 DEF Ids, Materialize, Held
  <2> QED BY <1>0, <2>1, <2>2, <2>3, <2>4 DEF Owners
<1>5. ASSUME NEW c \in Conn, TurnEnds(c) PROVE Owners'
  <2>1. PICK k \in Chat : k = chatOf[c]
    BY <1>0, <1>5 DEF ChatTypeOK, Turns, TurnEnds
  <2>2. PICK s \in Sdk : s = managed[c] /\ s \in Held(c)
    BY <1>0, <1>5 DEF ChatTypeOK, TurnEnds, Held
  <2>3. /\ UNCHANGED <<tokens, chatOf>>
        /\ \A j \in Chat : sdkRow'[j] = sdkRow[j] \/ (j = k /\ sdkRow'[j] = s)
        /\ \A d \in Conn : Held(d)' \subseteq Held(d)
    BY <1>0, <1>5, <2>1, <2>2 DEF ChatTypeOK, TurnEnds, WriteId, Held
  <2> QED BY <1>0, <2>1, <2>2, <2>3 DEF Owners
<1>6. ASSUME NEW k \in Chat, NEW s \in Sdk, ForkChat(k, s) PROVE Owners'
  <2>1. /\ UNCHANGED <<sdkRow, chatOf, managed, copy>>
        /\ tokens' \subseteq tokens \cup {s}
        /\ \A d \in Conn : s \notin Held(d)
    BY <1>0, <1>6 DEF Ids, ForkChat, Held
  <2> QED BY <1>0, <2>1 DEF Owners, Held
<1>7. ASSUME NEW k \in Chat, NEW s \in Sdk, CreateForked(k, s) PROVE Owners'
  <2>1. /\ UNCHANGED <<chatOf, managed, copy>> /\ tokens' \subseteq tokens
        /\ s \in tokens
        /\ \A j \in Chat : sdkRow'[j] = sdkRow[j] \/ sdkRow'[j] = s
    BY <1>0, <1>7 DEF ChatTypeOK, CreateForked, Consume
  <2> QED BY <1>0, <2>1 DEF Owners, Held
<1>8. ASSUME \/ \E k \in Chat, c \in Conn : SendMessage(k, c)
             \/ \E c \in Conn : ServerCloses(c)
             \/ \E c \in Conn : \E again \in Conn \ {c} :
                  Drop(c, again) \/ TurnFails(c, again)
             \/ \E s \in Sdk : TokenExpires(s)
             \/ \E s \in Sdk, eviction \in BOOLEAN : ClosePooled(s, eviction)
      PROVE  Owners'
  <2>1. UNCHANGED <<sdkRow, tokens, managed, copy>>
    BY <1>8 DEF SendMessage, ServerCloses, Drop, TurnFails, TokenExpires, ClosePooled
  <2> QED BY <1>1, <2>1
<1>9. CASE UNCHANGED chatVars
  BY <1>1, <1>9 DEF chatVars
<1> QED BY <1>2, <1>3, <1>4, <1>5, <1>6, <1>7, <1>8, <1>9 DEF ChatNext

LEMMA OwnInvariant == ChatSpec => []OwnInv
<1>1. ChatInit => OwnInv
  BY ChatAssumption DEF ChatInit, OwnInv, ChatTypeOK, Turns, Ids, ForkOwned, Owners, Held
<1>2. OwnInv /\ [ChatNext]_chatVars => OwnInv'
  BY ChatTypesKept, TurnsKept, IdsKept, OwnersKept DEF OwnInv
<1> QED BY <1>1, <1>2, PTL DEF ChatSpec

\* No two chats go on in the same agent session, however chats are forked and
\* tokens are used and expire.
THEOREM SessionsAreOwned == ChatSpec => []ForkOwned
<1>1. OwnInv => ForkOwned
  BY DEF OwnInv
<1> QED BY <1>1, OwnInvariant, PTL

-----------------------------------------------------------------------------
(* The pool. *)

\* What was not used yet was not closed.
Unclosed == \A c \in Conn : turn[c] = "none" => c \notin closed

PoolInv == OwnInv /\ Unclosed /\ PoolSound

\* A step keeps the pool sound.
LEMMA PoolKept ==
  ASSUME PoolInv, [ChatNext]_chatVars PROVE Unclosed' /\ PoolSound'
<1> USE DEF chatTable, chatClient, chatTurn, chatPool, chatForks, PoolInv, OwnInv
<1>0. NoSdk \notin Sdk /\ NoConn \notin Conn
  BY ChatAssumption
<1>1. ASSUME UNCHANGED <<managed, closed, pool, detachedBy>>,
             \A c \in Conn : /\ turn'[c] = "none" <=> turn[c] = "none"
                             /\ socket'[c] = "open" /\ turn'[c] = "working"
                                  => socket[c] = "open" /\ turn[c] = "working"
      PROVE  Unclosed' /\ PoolSound'
  BY <1>1 DEF Unclosed, PoolSound
<1>9. ASSUME NEW c \in Conn, ReceiveStuck(c) PROVE Unclosed' /\ PoolSound'
  BY <1>0, <1>9 DEF ChatTypeOK, Turns, Unclosed, PoolSound, ReceiveStuck
<1>2. ASSUME NEW c \in Conn, Receive(c) PROVE Unclosed' /\ PoolSound'
  BY <1>0, <1>2 DEF ChatTypeOK, Turns, Unclosed, PoolSound, Receive
<1>3. ASSUME NEW c \in Conn, NEW s \in Sdk, Materialize(c, s) PROVE Unclosed' /\ PoolSound'
  BY <1>0, <1>3 DEF ChatTypeOK, Ids, Unclosed, PoolSound, Materialize
<1>4. ASSUME NEW c \in Conn, ServerCloses(c) PROVE Unclosed' /\ PoolSound'
  BY <1>0, <1>4 DEF ChatTypeOK, Turns, Unclosed, PoolSound, ServerCloses
<1>5. ASSUME NEW s \in Sdk, NEW eviction \in BOOLEAN, ClosePooled(s, eviction)
      PROVE  Unclosed' /\ PoolSound'
  BY <1>0, <1>5 DEF ChatTypeOK, Turns, Unclosed, PoolSound, ClosePooled, RemoveFromPool
<1>6. ASSUME NEW c \in Conn,
             \/ \E k \in Chat : SendMessage(k, c)
             \/ \E again \in Conn \ {c} : Drop(c, again) \/ TurnFails(c, again)
             \/ Open(c) \/ TurnEnds(c)
      PROVE  Unclosed' /\ PoolSound'
  <2>1. UNCHANGED <<managed, closed, pool, detachedBy>>
    BY <1>6 DEF SendMessage, Drop, TurnFails, Open, TurnEnds
  <2>2. ASSUME NEW d \in Conn
        PROVE  /\ turn'[d] = "none" <=> turn[d] = "none"
               /\ socket'[d] = "open" /\ turn'[d] = "working"
                    => socket[d] = "open" /\ turn[d] = "working"
    <3>1. CASE \E k \in Chat : SendMessage(k, c)
      BY <3>1 DEF ChatTypeOK, SendMessage
    <3>2. ASSUME NEW again \in Conn \ {c}, Drop(c, again)
          PROVE  /\ turn'[d] = "none" <=> turn[d] = "none"
                 /\ socket'[d] = "open" /\ turn'[d] = "working"
                      => socket[d] = "open" /\ turn[d] = "working"
      <4>1. AfterClose(c, again, FALSE) /\ turn' = turn
        BY <3>2 DEF Drop
      <4> QED BY <4>1, PageMoves
    <3>3. ASSUME NEW again \in Conn \ {c}, TurnFails(c, again)
          PROVE  /\ turn'[d] = "none" <=> turn[d] = "none"
                 /\ socket'[d] = "open" /\ turn'[d] = "working"
                      => socket[d] = "open" /\ turn[d] = "working"
      <4>1. /\ turn[c] = "working" /\ turn' = [turn EXCEPT ![c] = "failed"]
            /\ \/ socket[c] = "open" /\ AfterClose(c, again, TRUE)
               \/ UNCHANGED socket
        BY <3>3 DEF TurnFails
      <4>2. socket'[d] = "open" => socket[d] = "open"
        BY <4>1, PageMoves
      <4> QED BY <4>1, <4>2 DEF ChatTypeOK
    <3>4. CASE Open(c)
      BY <3>4 DEF ChatTypeOK, Turns, Open
    <3>5. CASE TurnEnds(c)
      BY <3>5 DEF ChatTypeOK, TurnEnds
    <3> QED BY <1>6, <3>1, <3>2, <3>3, <3>4, <3>5
  <2> QED BY <1>1, <2>1, <2>2
<1>7. ASSUME NEW s \in Sdk,
             TokenExpires(s) \/ \E k \in Chat : ForkChat(k, s) \/ CreateForked(k, s)
      PROVE  Unclosed' /\ PoolSound'
  BY <1>1, <1>7 DEF TokenExpires, ForkChat, CreateForked
<1>8. CASE UNCHANGED chatVars
  BY <1>1, <1>8 DEF chatVars
<1> QED BY <1>2, <1>3, <1>4, <1>5, <1>6, <1>7, <1>8, <1>9 DEF ChatNext

\* The pool holds open sessions under their own ids, and a turn whose page is there
\* is found in it but for the named exceptions.
THEOREM PoolIsSound == ChatSpec => []PoolSound
<1>1. ChatInit => PoolInv
  BY ChatAssumption DEF ChatInit, PoolInv, OwnInv, ChatTypeOK, Turns, Ids, ForkOwned,
                        Owners, Held, Unclosed, PoolSound
<1>2. PoolInv /\ [ChatNext]_chatVars => PoolInv'
  BY ChatTypesKept, TurnsKept, IdsKept, OwnersKept, PoolKept DEF PoolInv, OwnInv
<1>3. PoolInv => PoolSound
  BY DEF PoolInv
<1> QED BY <1>1, <1>2, <1>3, PTL DEF ChatSpec

\* Both at once: the pool leads to the session of a turn, and that to one chat.
THEOREM SessionsAreSound == ChatSpec => []SessionsSound
<1>1. PoolSound /\ ForkOwned => SessionsSound
  BY DEF SessionsSound
<1> QED BY <1>1, PoolIsSound, SessionsAreOwned, PTL

-----------------------------------------------------------------------------
(* Conversations. *)

\* Unless two of them ran at a time, a chat has one first turn under way at most,
\* and none once it has its agent session.
OneFirstTurn ==
  \A k \in Chat : k \notin raced =>
    \A c \in FirstTurns(k) : sdkRow[k] = NoSdk /\ \A d \in FirstTurns(k) : d = c

\* Unless two of them ran at a time, the id a connection knows is that of the row.
Followed ==
  \A c \in Conn, k \in Chat :
    copy[c] # NoSdk /\ chatOf[c] = k /\ k \notin raced => sdkRow[k] = copy[c]

TalkInv == OwnInv /\ OneFirstTurn /\ Followed

\* A step that leaves the ids alone and makes no connection a first turn.
LEMMA NoNewFirst ==
  ASSUME TalkInv, UNCHANGED sdkRow, raced \subseteq raced',
         \A k \in Chat : k \notin raced' => FirstTurns(k)' \subseteq FirstTurns(k)
  PROVE  OneFirstTurn'
<1> SUFFICES ASSUME NEW k \in Chat, k \notin raced', NEW c \in FirstTurns(k)'
             PROVE sdkRow'[k] = NoSdk /\ \A d \in FirstTurns(k)' : d = c
  BY DEF OneFirstTurn
<1>1. k \notin raced /\ FirstTurns(k)' \subseteq FirstTurns(k)
  OBVIOUS
<1> QED BY <1>1 DEF TalkInv, OneFirstTurn

\* A step keeps the first turns apart.
LEMMA FirstKept ==
  ASSUME TalkInv, [ChatNext]_chatVars PROVE OneFirstTurn'
<1> USE DEF chatTable, chatClient, chatTurn, chatPool, chatForks
<1>0. ChatTypeOK /\ Turns /\ Ids /\ NoSdk \notin Sdk
  BY ChatAssumption DEF TalkInv, OwnInv
<1>1. ASSUME NEW k \in Chat, NEW c \in Conn, SendMessage(k, c) PROVE OneFirstTurn'
  <2>1. \A j \in Chat : FirstTurns(j)' \subseteq FirstTurns(j)
    BY <1>0, <1>1 DEF ChatTypeOK, Turns, SendMessage, FirstTurns
  <2> QED BY <1>1, <2>1, NoNewFirst DEF SendMessage
<1>2. ASSUME NEW c \in Conn, NEW again \in Conn \ {c}, Drop(c, again) PROVE OneFirstTurn'
  <2>1. \A j \in Chat : FirstTurns(j)' \subseteq FirstTurns(j)
    BY <1>0, <1>2, PageMoves DEF Turns, Drop, FirstTurns
  <2> QED BY <1>2, <2>1, NoNewFirst DEF Drop
<1>3. ASSUME NEW c \in Conn, NEW again \in Conn \ {c}, TurnFails(c, again)
      PROVE  OneFirstTurn'
  <2>1. \A j \in Chat : FirstTurns(j)' \subseteq FirstTurns(j)
    <3>1. \A d \in Conn, at \in {"none", "working"} : turn'[d] = at => turn[d] = at
      BY <1>0, <1>3 DEF ChatTypeOK, TurnFails
    <3>2. UNCHANGED <<managed, copy>>
      BY <1>3 DEF TurnFails
    <3>3. CASE socket[c] = "open"
      <4>1. AfterClose(c, again, TRUE)
        BY <1>3, <3>3 DEF TurnFails
      <4> QED BY <1>0, <3>1, <3>2, <4>1, PageMoves DEF Turns, FirstTurns
    <3>4. CASE socket[c] # "open"
      <4>1. UNCHANGED <<chatOf, socket>>
        BY <1>3, <3>4 DEF TurnFails
      <4> QED BY <3>1, <3>2, <4>1 DEF FirstTurns
    <3> QED BY <3>3, <3>4
  <2> QED BY <1>3, <2>1, NoNewFirst DEF TurnFails
<1>4. ASSUME NEW c \in Conn, Open(c) PROVE OneFirstTurn'
  <2>0. PICK k \in Chat : k = chatOf[c]
    BY <1>0, <1>4 DEF ChatTypeOK, Turns, Open
  <2>1. c \notin FirstTurns(k) /\ chatOf' = chatOf
    BY <1>0, <1>4, <2>0 DEF ChatTypeOK, Turns, Open, FirstTurns
  <2>2. \A j \in Chat \ {k} : FirstTurns(j)' = FirstTurns(j)
    BY <1>0, <1>4, <2>0 DEF ChatTypeOK, Open, FirstTurns
  <2>3. raced \subseteq raced' /\ sdkRow' = sdkRow
    BY <1>4 DEF Open
  <2>4. ASSUME k \notin raced'
        PROVE  \A d \in FirstTurns(k)' : sdkRow[k] = NoSdk /\ d = c
    <3>1. FirstTurns(k) = {}
      BY <1>4, <2>0, <2>4 DEF Open
    <3>2. \A d \in Conn \ {c} : d \notin FirstTurns(k)'
      BY <1>0, <1>4, <3>1 DEF ChatTypeOK, Open, FirstTurns
    <3>3. c \in FirstTurns(k)' => sdkRow[k] = NoSdk
      BY <1>0, <1>4, <2>0 DEF ChatTypeOK, Open, CopyAtOpen, FirstTurns
    <3>4. FirstTurns(k)' \subseteq Conn
      BY DEF FirstTurns
    <3> QED BY <3>2, <3>3, <3>4
  <2> SUFFICES ASSUME NEW j \in Chat, j \notin raced', NEW d \in FirstTurns(j)'
               PROVE sdkRow'[j] = NoSdk /\ \A e \in FirstTurns(j)' : e = d
    BY DEF OneFirstTurn
  <2>5. CASE j = k
    BY <2>3, <2>4, <2>5
  <2>6. CASE j # k
    BY <2>2, <2>3, <2>6 DEF TalkInv, OneFirstTurn
  <2> QED BY <2>5, <2>6
<1>5. ASSUME NEW c \in Conn, Receive(c) \/ ReceiveStuck(c) PROVE OneFirstTurn'
  <2>1. \A j \in Chat : FirstTurns(j)' \subseteq FirstTurns(j)
    BY <1>0, <1>5 DEF ChatTypeOK, Turns, Receive, ReceiveStuck, FirstTurns
  <2> QED BY <1>5, <2>1, NoNewFirst DEF Receive, ReceiveStuck
<1>6. ASSUME NEW c \in Conn, \/ TurnEnds(c)
                             \/ \E s \in Sdk : Materialize(c, s)
      PROVE  OneFirstTurn'
  <2>1. PICK k \in Chat : k = chatOf[c]
    BY <1>0, <1>6 DEF ChatTypeOK, Turns, TurnEnds, Materialize
  <2>2. /\ \A j \in Chat : FirstTurns(j)' \subseteq FirstTurns(j)
        /\ UNCHANGED raced
    BY <1>0, <1>6 DEF ChatTypeOK, TurnEnds, Materialize, WriteId, FirstTurns
  <2>3. CASE UNCHANGED sdkRow
    BY <2>2, <2>3, NoNewFirst
  <2>4. CASE ~ UNCHANGED sdkRow
    <3>1. c \in FirstTurns(k) /\ c \notin FirstTurns(k)'
      BY <1>0, <1>6, <2>1, <2>4
         DEF ChatTypeOK, Turns, TurnEnds, Materialize, WriteId, FirstTurns
    <3>2. k \notin raced => FirstTurns(k)' = {}
      BY <2>2, <3>1 DEF TalkInv, OneFirstTurn
    <3>3. \A j \in Chat \ {k} : sdkRow'[j] = sdkRow[j]
      BY <1>0, <1>6, <2>1 DEF ChatTypeOK, TurnEnds, Materialize, WriteId
    <3> QED BY <2>2, <3>2, <3>3 DEF TalkInv, OneFirstTurn
  <2> QED BY <2>3, <2>4
<1>8. ASSUME NEW c \in Conn, ServerCloses(c) PROVE OneFirstTurn'
  <2>1. \A j \in Chat : FirstTurns(j)' \subseteq FirstTurns(j)
    BY <1>0, <1>8 DEF ChatTypeOK, ServerCloses, FirstTurns
  <2> QED BY <1>8, <2>1, NoNewFirst DEF ServerCloses
<1>9. ASSUME NEW s \in Sdk,
             \/ \E eviction \in BOOLEAN : ClosePooled(s, eviction)
             \/ TokenExpires(s) \/ \E k \in Chat : ForkChat(k, s)
      PROVE  OneFirstTurn'
  <2>1. UNCHANGED <<chatOf, managed, copy, socket, turn, sdkRow, raced>>
    BY <1>9 DEF ClosePooled, TokenExpires, ForkChat
  <2>2. \A j \in Chat : FirstTurns(j)' = FirstTurns(j)
    BY <2>1 DEF FirstTurns
  <2> QED BY <2>1, <2>2, NoNewFirst
<1>10. ASSUME NEW k \in Chat, NEW s \in Sdk, CreateForked(k, s) PROVE OneFirstTurn'
  <2>1. \A j \in Chat : FirstTurns(j)' = FirstTurns(j)
    BY <1>10 DEF CreateForked, FirstTurns
  <2>2. FirstTurns(k) = {}
    BY <1>0, <1>10 DEF ChatTypeOK, Turns, CreateForked, FirstTurns
  <2>3. raced' = raced /\ \A j \in Chat \ {k} : sdkRow'[j] = sdkRow[j]
    BY <1>0, <1>10 DEF ChatTypeOK, CreateForked
  <2> QED BY <2>1, <2>2, <2>3 DEF TalkInv, OneFirstTurn
<1>11. CASE UNCHANGED chatVars
  <2>1. \A j \in Chat : FirstTurns(j)' = FirstTurns(j)
    BY <1>11 DEF chatVars, FirstTurns
  <2> QED BY <1>11, <2>1, NoNewFirst DEF chatVars
<1> QED BY <1>1, <1>2, <1>3, <1>4, <1>5, <1>6, <1>8, <1>9, <1>10, <1>11 DEF ChatNext

\* Until it has written the id of its session, a turn that knows none is a first turn
\* and the row names no session, unless two ran at a time.
LEMMA FirstRowEmpty ==
  ASSUME TalkInv, NEW c \in Conn, NEW k \in Chat, k = chatOf[c], k \notin raced,
         turn[c] = "working", copy[c] = NoSdk
  PROVE  sdkRow[k] = NoSdk
<1>1. c \in FirstTurns(k)
  BY DEF FirstTurns
<1> QED BY <1>1 DEF TalkInv, OneFirstTurn

\* A step keeps what the connections know.
LEMMA FollowedKept ==
  ASSUME TalkInv, [ChatNext]_chatVars PROVE Followed'
<1> USE DEF chatTable, chatClient, chatTurn, chatPool, chatForks
<1>0. ChatTypeOK /\ Turns /\ Ids /\ OwnInv /\ Followed /\ NoSdk \notin Sdk
  BY ChatAssumption DEF TalkInv, OwnInv
<1>1. ASSUME UNCHANGED <<sdkRow, copy>>, raced \subseteq raced' PROVE Followed'
  <2>1. \A c \in Conn : copy[c] # NoSdk => chatOf'[c] = chatOf[c]
    BY <1>0, UsedKeepChat DEF Held
  <2> QED BY <1>0, <1>1, <2>1 DEF Followed
<1>2. ASSUME NEW c \in Conn, Open(c) PROVE Followed'
  <2>1. PICK k \in Chat : k = chatOf[c]
    BY <1>0, <1>2 DEF ChatTypeOK, Turns, Open
  <2>2. /\ UNCHANGED <<sdkRow, chatOf>> /\ raced \subseteq raced'
        /\ copy' = [copy EXCEPT ![c] = sdkRow[k]]
    BY <1>2, <2>1 DEF Open, CopyAtOpen
  <2> QED BY <1>0, <2>1, <2>2 DEF ChatTypeOK, Followed
<1>3. ASSUME NEW c \in Conn, \/ TurnEnds(c)
                             \/ \E s \in Sdk : Materialize(c, s)
      PROVE  Followed'
  <2>1. PICK k \in Chat : k = chatOf[c]
    BY <1>0, <1>3 DEF ChatTypeOK, Turns, TurnEnds, Materialize
  <2>2. UNCHANGED <<raced, chatOf>>
    BY <1>3 DEF TurnEnds, Materialize
  <2>3. CASE UNCHANGED <<sdkRow, copy>>
    BY <1>1, <2>2, <2>3
  <2>4. CASE ~ UNCHANGED <<sdkRow, copy>>
    <3>1. turn[c] = "working" /\ copy[c] = NoSdk
      BY <1>0, <1>3, <2>4 DEF Turns, TurnEnds, Materialize, WriteId
    <3>2. k \notin raced => sdkRow[k] = NoSdk
      BY <2>1, <3>1, FirstRowEmpty
    <3>3. \E s \in Sdk : /\ sdkRow' = [sdkRow EXCEPT ![k] = s]
                         /\ copy' = [copy EXCEPT ![c] = s]
      BY <1>0, <1>3, <2>1, <2>4 DEF ChatTypeOK, TurnEnds, Materialize, WriteId
    <3> QED BY <1>0, <2>1, <2>2, <3>2, <3>3 DEF ChatTypeOK, Followed
  <2> QED BY <2>3, <2>4
<1>4. ASSUME NEW k \in Chat, NEW s \in Sdk, CreateForked(k, s) PROVE Followed'
  <2>1. \A c \in Conn : chatOf[c] = k => copy[c] = NoSdk
    BY <1>0, <1>4 DEF Turns, CreateForked
  <2>2. /\ UNCHANGED <<raced, chatOf, copy>>
        /\ \A j \in Chat \ {k} : sdkRow'[j] = sdkRow[j]
    BY <1>0, <1>4 DEF ChatTypeOK, CreateForked
  <2> QED BY <1>0, <2>1, <2>2 DEF Followed
<1>5. CASE UNCHANGED <<sdkRow, copy, raced>>
  BY <1>1, <1>5
<1> QED BY <1>2, <1>3, <1>4, <1>5
        DEF ChatNext, chatVars, SendMessage, Drop, TurnFails, Receive, ReceiveStuck,
            ServerCloses, ClosePooled, TokenExpires, ForkChat

\* A chat goes on in the agent session its row names, over any number of connections,
\* losses, repeats, forks and closes of the session and writes of the id that fail,
\* and its turns are turns of that session, unless two of them ran at a time before
\* the row had an id.
THEOREM ConversationsAreKept == ChatSpec => ConversationKept
<1> DEFINE RowKept == \A k \in Chat \ raced : sdkRow[k] # NoSdk => sdkRow'[k] = sdkRow[k]
           InRow == \A k \in Chat \ raced, c \in Conn :
                      (/\ sdkRow[k] # NoSdk /\ chatOf[c] = k
                       /\ turn'[c] = "working" /\ managed'[c] # NoSdk)
                      => managed'[c] = sdkRow[k]
           Kept == \A k \in Chat \ raced : sdkRow[k] # NoSdk =>
                     /\ sdkRow'[k] = sdkRow[k]
                     /\ \A c \in Conn : chatOf[c] = k /\ turn'[c] = "working"
                                          /\ managed'[c] # NoSdk => managed'[c] = sdkRow[k]
<1>1. ChatInit => TalkInv
  BY ChatAssumption DEF ChatInit, TalkInv, OwnInv, ChatTypeOK, Turns, Ids, ForkOwned,
                        Owners, Held, OneFirstTurn, FirstTurns, Followed
<1>2. TalkInv /\ [ChatNext]_chatVars => TalkInv'
  BY ChatTypesKept, TurnsKept, IdsKept, OwnersKept, FirstKept, FollowedKept
     DEF TalkInv, OwnInv
<1>3. ASSUME TalkInv, ChatNext PROVE RowKept /\ InRow
  <2> USE DEF chatTable, chatClient, chatTurn, chatPool, chatForks
  <2>0. ChatTypeOK /\ Turns /\ Ids /\ Followed
    BY <1>3 DEF TalkInv, OwnInv
  <2>1. ASSUME NEW k \in Chat \ raced, NEW c \in Conn, sdkRow[k] # NoSdk, chatOf[c] = k,
               turn[c] = "working"
        PROVE  copy[c] = sdkRow[k] /\ managed[c] = sdkRow[k]
    <3>1. copy[c] # NoSdk
      BY <1>3, <2>1, FirstRowEmpty
    <3> QED BY <2>0, <2>1, <3>1 DEF Turns, Followed
  <2>2. ASSUME NEW c \in Conn, NEW s \in Sdk, Materialize(c, s) PROVE RowKept /\ InRow
    <3>1. \A k \in Chat \ raced : sdkRow[k] # NoSdk => chatOf[c] # k
      BY <2>1, <2>2 DEF Materialize
    <3>2. chatOf[c] \in Chat
      BY <2>0, <2>2 DEF ChatTypeOK, Turns, Materialize
    <3>3. RowKept
      BY <2>0, <2>2, <3>1, <3>2 DEF ChatTypeOK, Materialize, WriteId
    <3>4. InRow
      BY <2>0, <2>1, <2>2, <3>1 DEF ChatTypeOK, Materialize
    <3> QED BY <3>3, <3>4
  <2>3. ASSUME NEW c \in Conn, TurnEnds(c) PROVE RowKept /\ InRow
    <3>1. chatOf[c] \in Chat
      BY <2>0, <2>3 DEF ChatTypeOK, Turns, TurnEnds
    <3>2. ASSUME NEW k \in Chat \ raced, sdkRow[k] # NoSdk, chatOf[c] = k
          PROVE  managed[c] = copy[c]
      BY <2>1, <2>3, <3>2 DEF TurnEnds
    <3>3. RowKept
      BY <2>0, <2>3, <3>1, <3>2 DEF ChatTypeOK, TurnEnds, WriteId
    <3>4. InRow
      BY <2>0, <2>1, <2>3 DEF ChatTypeOK, TurnEnds
    <3> QED BY <3>3, <3>4
  <2>4. ASSUME NEW k \in Chat, NEW s \in Sdk, CreateForked(k, s) PROVE RowKept /\ InRow
    <3>1. RowKept
      BY <2>0, <2>4 DEF ChatTypeOK, Ids, CreateForked
    <3>2. InRow
      BY <2>1, <2>4 DEF CreateForked
    <3> QED BY <3>1, <3>2
  <2>5. ASSUME NEW c \in Conn, Receive(c) \/ ReceiveStuck(c) PROVE RowKept /\ InRow
    <3>1. RowKept
      BY <2>5 DEF Receive, ReceiveStuck
    <3>2. InRow
      <4>1. CASE Receive(c)
        BY <2>0, <2>1, <4>1 DEF ChatTypeOK, Followed, Receive
      <4>2. CASE ReceiveStuck(c)
        BY <2>0, <2>1, <4>2 DEF ChatTypeOK, ReceiveStuck
      <4> QED BY <2>5, <4>1, <4>2
    <3> QED BY <3>1, <3>2
  <2>6. ASSUME UNCHANGED <<sdkRow, managed>>,
               \A c \in Conn : turn'[c] = "working" => turn[c] = "working"
        PROVE  RowKept /\ InRow
    BY <2>1, <2>6
  <2>7. ASSUME \/ \E k \in Chat, c \in Conn : SendMessage(k, c)
               \/ \E c \in Conn : Open(c) \/ ServerCloses(c)
               \/ \E c \in Conn : \E again \in Conn \ {c} :
                    Drop(c, again) \/ TurnFails(c, again)
               \/ \E s \in Sdk : TokenExpires(s) \/ \E k \in Chat : ForkChat(k, s)
               \/ \E s \in Sdk, eviction \in BOOLEAN : ClosePooled(s, eviction)
        PROVE  RowKept /\ InRow
    <3>1. /\ UNCHANGED <<sdkRow, managed>>
          /\ turn' = turn \/ \E c \in Conn : turn' = [turn EXCEPT ![c] = "failed"]
      BY <2>7 DEF SendMessage, Open, ServerCloses, Drop, TurnFails, TokenExpires,
                  ForkChat, ClosePooled
    <3>2. \A c \in Conn : turn'[c] = "working" => turn[c] = "working"
      BY <2>0, <3>1 DEF ChatTypeOK
    <3> QED BY <2>6, <3>1, <3>2
  <2> QED BY <1>3, <2>2, <2>3, <2>4, <2>5, <2>7 DEF ChatNext
<1>4. TalkInv /\ [ChatNext]_chatVars => [Kept]_chatVars
  <2> SUFFICES ASSUME TalkInv, ChatNext PROVE Kept
    OBVIOUS
  <2> QED BY <1>3
<1> QED BY <1>1, <1>2, <1>4, PTL DEF ChatSpec, ConversationKept
=============================================================================
