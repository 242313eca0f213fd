------------------------------- MODULE Session -------------------------------
(***************************************************************************)
(* packages/server/src/ClientConnection.ts: one websocket, over which a    *)
(* client opens documents, and Connection.ts, the connection of each.      *)
(* A session starts with the first message for a raw key, is authenticated *)
(* by hooks, loads its document and gets a connection; until then its      *)
(* messages wait in incomingMessageQueue.  Sessions are numbered in the    *)
(* order they start: the number stands for the hook payload, the attempt   *)
(* that authenticates it, and the connection made from it.                 *)
(***************************************************************************)
EXTENDS Naturals, Sequences, FiniteSets, Functions

CONSTANTS
    Keys,                \* raw keys: document names, with a session id or without
    Plain,               \* the document name in each raw key
    Undefined,           \* a map has no entry
    DocumentAwareness,   \* documents have awareness states of somebody else
    ConnectedMayReject,  \* some `connected' hook rejects
    MaxSessions,         \* bound: sessions
    MaxMessages          \* bound: messages of the client

ASSUME KeysAssumption == Plain \in [Keys -> Keys] /\ Undefined \notin Keys
ASSUME SwitchesAssumption == DocumentAwareness \in BOOLEAN /\ ConnectedMayReject \in BOOLEAN
ASSUME BoundsAssumption == MaxSessions \in Nat /\ MaxMessages \in Nat

Sessions == 1 .. MaxSessions
NoSession == 0

\* "bad" is a message whose handler throws; "close" is the provider's CLOSE.
Kinds == {"auth", "sync", "close", "bad"}
Messages == [id : 1 .. MaxMessages, kind : Kinds]

ASSUME UndefinedAssumption == Undefined \notin Seq(Messages)

VARIABLES
    ws,                    \* readyState: "closed" once the close event is handled
    received,              \* number of messages received
    keyOf,                 \* the raw key of each session that has started
    hookPayloads,          \* per key, the session whose payload is stored
    incomingMessageQueue,  \* per key, messages that wait for a connection
    established,           \* documentConnectionsEstablished
    documentConnections,   \* per key, the session whose connection is stored
    attempt,               \* how far the handling of the authentication message is
    payload,               \* the payload that each connection was made from
    attached,              \* connections that their document has
    messageQueue,          \* messages that each connection has not handled
    tokenSync,             \* connections with an onTokenSync hook in progress
    disconnect,            \* progress of each connection's onClose callback
    accepted, delivered,   \* auxiliary: see Channel
    robbed                 \* auxiliary: sessions whose queue another one's rejection deleted

clientVars == <<hookPayloads, incomingMessageQueue, established, documentConnections>>
connectionVars == <<attached, disconnect>>
history == <<accepted, delivered, robbed>>
vars == <<ws, received, keyOf, clientVars, attempt, payload, connectionVars,
          messageQueue, tokenSync, history>>

TypeOK ==
    /\ ws \in {"open", "closing", "closed"}
    /\ received \in 0 .. MaxMessages
    /\ keyOf \in [Sessions -> Keys \cup {Undefined}]
    /\ hookPayloads \in [Keys -> Sessions \cup {NoSession}]
    /\ incomingMessageQueue \in [Keys -> {Undefined} \cup Seq(Messages)]
    /\ established \subseteq Keys
    /\ documentConnections \in [Keys -> Sessions \cup {NoSession}]
    /\ attempt \in [Sessions -> {"none", "authenticating", "loading", "connecting",
                                 "connected", "rejected", "denied", "abandoned"}]
    /\ payload \in [Sessions -> Sessions \cup {NoSession}]
    /\ attached \subseteq Sessions /\ tokenSync \subseteq Sessions
    /\ messageQueue \in [Sessions -> Seq(Messages)]
    /\ disconnect \in [Sessions -> {"none", "draining", "hook", "done"}]
    /\ accepted \in [Sessions -> Seq(Messages)]
    /\ delivered \in [Sessions -> Seq(Messages)]
    /\ robbed \subseteq Sessions

Init ==
    /\ ws = "open" /\ received = 0
    /\ keyOf = [s \in Sessions |-> Undefined]
    /\ hookPayloads = [k \in Keys |-> NoSession]
    /\ incomingMessageQueue = [k \in Keys |-> Undefined]
    /\ established = {}
    /\ documentConnections = [k \in Keys |-> NoSession]
    /\ attempt = [s \in Sessions |-> "none"]
    /\ payload = [s \in Sessions |-> NoSession]
    /\ attached = {} /\ tokenSync = {}
    /\ messageQueue = [s \in Sessions |-> <<>>]
    /\ disconnect = [s \in Sessions |-> "none"]
    /\ accepted = [s \in Sessions |-> <<>>]
    /\ delivered = [s \in Sessions |-> <<>>]
    /\ robbed = {}

-----------------------------------------------------------------------------
\* Mutant: the callbacks run although the document does not have the connection.
CloseConnectionsAgain(C, connections, table, queues) ==
    LET closed == C \ {NoSession}
        gone == {keyOf[s] : s \in closed}
    IN  /\ attached' = connections \ closed
        /\ disconnect' = [s \in Sessions |-> IF s \in closed THEN "draining" ELSE disconnect[s]]
        /\ hookPayloads' = [k \in Keys |-> IF k \in gone THEN NoSession ELSE hookPayloads[k]]
        /\ incomingMessageQueue' = [k \in Keys |-> IF k \in gone THEN Undefined ELSE queues[k]]
        /\ established' = established \ gone
        /\ documentConnections' = [k \in Keys |-> IF k \in gone THEN NoSession ELSE table[k]]

\* Connection.close of every connection of C that `connections' still has: it
\* leaves the document and its two onClose callbacks run.  The first goes on
\* when its messages are handled (disconnect); the second deletes what the raw
\* key has, from the maps as `table' and `queues' have them.
CloseConnections(C, connections, table, queues) ==
    LET closed == C \cap connections
        gone == {keyOf[s] : s \in closed}
    IN  /\ attached' = connections \ closed
        /\ disconnect' = [s \in Sessions |-> IF s \in closed THEN "draining" ELSE disconnect[s]]
        /\ hookPayloads' = [k \in Keys |-> IF k \in gone THEN NoSession ELSE hookPayloads[k]]
        /\ incomingMessageQueue' = [k \in Keys |-> IF k \in gone THEN Undefined ELSE queues[k]]
        /\ established' = established \ gone
        /\ documentConnections' = [k \in Keys |-> IF k \in gone THEN NoSession ELSE table[k]]

Close(C) == CloseConnections(C, attached, documentConnections, incomingMessageQueue)

\* ClientConnection.close
CloseAll == Close(Range(documentConnections) \ {NoSession})

\* The connection a message for k is given to.
ConnectionFor(k) ==
    IF documentConnections[k] # NoSession THEN documentConnections[k]
    ELSE documentConnections[Plain[k]]

Receive(kind) ==
    /\ ws # "closed" /\ received < MaxMessages
    /\ received' = received + 1

MessageOf(kind) == [id |-> received + 1, kind |-> kind]

\* handleMessage, when the document has a connection.
ReceiveConnected(k, kind) ==
    LET s == ConnectionFor(k) m == MessageOf(kind) IN
    /\ Receive(kind)
    /\ s # NoSession
    /\ messageQueue' = [messageQueue EXCEPT ![s] = Append(@, m)]
    /\ accepted' = [accepted EXCEPT ![s] = Append(@, m)]
    /\ UNCHANGED <<ws, keyOf, clientVars, attempt, payload, connectionVars, tokenSync,
                   delivered, robbed>>

\* handleMessage: the first message of a raw key, whose payload must not exist.
StartSession(k) ==
    LET s == Cardinality({t \in Sessions : keyOf[t] # Undefined}) + 1 IN
    /\ s \in Sessions
    /\ keyOf' = [keyOf EXCEPT ![s] = k]
    /\ hookPayloads' = [hookPayloads EXCEPT ![k] = s]

\* The first authentication message of a raw key starts an attempt.
StartsAttempt(k, kind) == kind = "auth" /\ k \notin established

\* handleQueueingMessage: a message that starts no attempt waits in the queue.
ReceiveQueueing(k, kind) ==
    LET m == MessageOf(kind)
        isFirst == incomingMessageQueue[k] = Undefined
        queue == IF isFirst THEN <<>> ELSE incomingMessageQueue[k]
        s == hookPayloads'[k]
    IN
    /\ Receive(kind)
    /\ ConnectionFor(k) = NoSession
    /\ IF isFirst THEN hookPayloads[k] = NoSession /\ StartSession(k)
       ELSE UNCHANGED <<keyOf, hookPayloads>>
    /\ IF StartsAttempt(k, kind)
       THEN /\ established' = established \cup {k}
            /\ attempt' = [attempt EXCEPT ![s] = "authenticating"]
            /\ incomingMessageQueue' = [incomingMessageQueue EXCEPT ![k] = queue]
            /\ UNCHANGED accepted
       ELSE /\ incomingMessageQueue' = [incomingMessageQueue EXCEPT ![k] = Append(queue, m)]
            /\ accepted' = [accepted EXCEPT ![s] = Append(@, m)]
            /\ UNCHANGED <<established, attempt>>
    /\ UNCHANGED <<ws, documentConnections, payload, connectionVars, messageQueue,
                   tokenSync, delivered, robbed>>

-----------------------------------------------------------------------------
\* The session whose entries the rejection of s deletes although they are not its
\* own: s was closed while its `connected' hook ran, and the client tried again.
Victims(s) == {hookPayloads[keyOf[s]]} \ {s, NoSession}

\* The catch of handleQueueingMessage: permission is denied and what the raw
\* key has is deleted, except documentConnections, even if it is another session's
\* by now.
Reject(s, outcome) ==
    LET k == keyOf[s] IN
    /\ attempt' = [attempt EXCEPT ![s] = outcome]
    /\ established' = established \ {k}
    /\ hookPayloads' = [hookPayloads EXCEPT ![k] = NoSession]
    /\ incomingMessageQueue' = [incomingMessageQueue EXCEPT ![k] = Undefined]
    /\ robbed' = robbed \cup Victims(s)

\* The onConnect and onAuthenticate hooks resolve; setUpNewConnection looks the
\* payload up again and throws if there is none.
Authenticate(s) ==
    /\ attempt[s] = "authenticating"
    /\ IF hookPayloads[keyOf[s]] # NoSession
       THEN /\ attempt' = [attempt EXCEPT ![s] = "loading"]
            /\ payload' = [payload EXCEPT ![s] = hookPayloads[keyOf[s]]]
            /\ UNCHANGED <<established, hookPayloads, incomingMessageQueue, robbed>>
       ELSE Reject(s, "rejected") /\ UNCHANGED payload
    /\ UNCHANGED <<ws, received, keyOf, documentConnections, connectionVars, messageQueue,
                   tokenSync, accepted, delivered>>

\* A hook, or the load of the document, rejects.
HookRejects(s) ==
    /\ attempt[s] \in {"authenticating", "loading"}
    /\ Reject(s, "rejected")
    /\ UNCHANGED <<ws, received, keyOf, documentConnections, payload, connectionVars,
                   messageQueue, tokenSync, accepted, delivered>>

\* The constructor of Connection: the document's awareness is sent at once, and
\* a send on a closed websocket closes a connection that has no callbacks yet.
AttachConnection(s) ==
    IF ws # "open" /\ DocumentAwareness THEN attached ELSE attached \cup {s}

\* Mutant: readyState is not looked at.
WebSocketGoneUnchecked == FALSE

\* setUpNewConnection looks whether the websocket has been closed meanwhile.
WebSocketGone == ws # "open"

\* Its websocket has been closed: every connection is, the new one included.
CloseAtSetUp(s, table) ==
    CloseConnections(Range(table), AttachConnection(s), table, incomingMessageQueue)

\* Mutant: what was queued is forgotten.
DrainedForgetting(s) == <<>>

\* The queued messages that the new connection is given.
Drained(s) ==
    LET queue == incomingMessageQueue[keyOf[s]] IN IF queue = Undefined THEN <<>> ELSE queue

\* createDocument resolves: the connection is made, stored and given the queue.
DocumentLoaded(s) ==
    LET table == [documentConnections EXCEPT ![keyOf[s]] = s] IN
    /\ attempt[s] = "loading"
    /\ \/ /\ WebSocketGone
          /\ attempt' = [attempt EXCEPT ![s] = "abandoned"]
          /\ CloseAtSetUp(s, table)
          /\ UNCHANGED messageQueue
       \/ /\ ~WebSocketGone
          /\ attempt' = [attempt EXCEPT ![s] = "connecting"]
          /\ attached' = AttachConnection(s) /\ documentConnections' = table
          /\ messageQueue' = [messageQueue EXCEPT ![s] = Drained(s)]
          /\ UNCHANGED <<hookPayloads, incomingMessageQueue, established, disconnect>>
    /\ UNCHANGED <<ws, received, keyOf, payload, tokenSync, history>>

ConnectedResolves(s) ==
    /\ attempt[s] = "connecting"
    /\ attempt' = [attempt EXCEPT ![s] = "connected"]
    /\ UNCHANGED <<ws, received, keyOf, clientVars, payload, connectionVars, messageQueue,
                   tokenSync, history>>

\* The `connected' hook rejects, after the connection was made.
ConnectedRejects(s) ==
    /\ ConnectedMayReject
    /\ attempt[s] = "connecting"
    /\ Reject(s, "denied")
    /\ UNCHANGED <<ws, received, keyOf, documentConnections, payload, connectionVars,
                   messageQueue, tokenSync, accepted, delivered>>

-----------------------------------------------------------------------------
\* processMessages and MessageReceiver.apply: the first message is handled, when
\* the hooks before it have settled, and then taken off the queue.  A CLOSE
\* message, an exception, or a reply to a websocket that is not open closes the
\* connection; the rest of the queue is handled all the same.
ProcessMessage(s) ==
    LET m == Head(messageQueue[s]) IN
    /\ messageQueue[s] # <<>>
    /\ messageQueue' = [messageQueue EXCEPT ![s] = Tail(@)]
    /\ delivered' = [delivered EXCEPT ![s] = Append(@, m)]
    /\ tokenSync' = IF m.kind = "auth" THEN tokenSync \cup {s} ELSE tokenSync
    /\ IF m.kind \in {"close", "bad"} \/ (m.kind = "sync" /\ ws # "open")
       THEN Close({s})
       ELSE UNCHANGED <<clientVars, connectionVars>>
    /\ UNCHANGED <<ws, received, keyOf, attempt, payload, accepted, robbed>>

\* The onTokenSync hook of an authentication message on a connection settles; it
\* is not awaited, and closes the connection if it rejects.
TokenSyncSettles(s) ==
    /\ s \in tokenSync
    /\ tokenSync' = tokenSync \ {s}
    /\ Close({s}) \/ UNCHANGED <<clientVars, connectionVars>>
    /\ UNCHANGED <<ws, received, keyOf, attempt, payload, messageQueue, history>>

\* Mutant: messages are not waited for.
CallOnDisconnectAtOnce(s) ==
    /\ disconnect[s] = "draining"
    /\ disconnect' = [disconnect EXCEPT ![s] = "hook"]
    /\ UNCHANGED <<ws, received, keyOf, clientVars, attempt, payload, attached,
                   messageQueue, tokenSync, history>>

\* The first onClose callback: the messages are handled, then the onDisconnect
\* hook runs.
CallOnDisconnect(s) ==
    /\ disconnect[s] = "draining" /\ messageQueue[s] = <<>>
    /\ disconnect' = [disconnect EXCEPT ![s] = "hook"]
    /\ UNCHANGED <<ws, received, keyOf, clientVars, attempt, payload, attached,
                   messageQueue, tokenSync, history>>

Disconnected(s) ==
    /\ disconnect[s] = "hook"
    /\ disconnect' = [disconnect EXCEPT ![s] = "done"]
    /\ UNCHANGED <<ws, received, keyOf, clientVars, attempt, payload, attached,
                   messageQueue, tokenSync, history>>

-----------------------------------------------------------------------------
\* The network or either side closes the websocket, the server also when a
\* message cannot be decoded.
WebSocketCloses ==
    /\ ws = "open" /\ ws' = "closing"
    /\ UNCHANGED <<received, keyOf, clientVars, attempt, payload, connectionVars,
                   messageQueue, tokenSync, history>>

\* The close event: handleClose.
HandleClose ==
    /\ ws = "closing" /\ ws' = "closed"
    /\ CloseAll
    /\ UNCHANGED <<received, keyOf, attempt, payload, messageQueue, tokenSync, history>>

\* check: no message for too long.  The websocket itself stays open.
Check ==
    /\ ws # "closed" /\ attached # {}
    /\ CloseAll
    /\ UNCHANGED <<ws, received, keyOf, attempt, payload, messageQueue, tokenSync, history>>

Next ==
    \/ \E k \in Keys, kind \in Kinds : ReceiveConnected(k, kind) \/ ReceiveQueueing(k, kind)
    \/ \E s \in Sessions :
         \/ Authenticate(s) \/ HookRejects(s) \/ DocumentLoaded(s)
         \/ ConnectedResolves(s) \/ ConnectedRejects(s)
         \/ ProcessMessage(s) \/ TokenSyncSettles(s)
         \/ CallOnDisconnect(s) \/ Disconnected(s)
    \/ WebSocketCloses \/ HandleClose \/ Check

\* Hooks and loads settle, and a websocket that is closing emits its close event.
Fairness ==
    /\ WF_vars(HandleClose)
    /\ \A s \in Sessions :
         /\ WF_vars(Authenticate(s) \/ HookRejects(s))
         /\ WF_vars(DocumentLoaded(s) \/ HookRejects(s))
         /\ WF_vars(ConnectedResolves(s) \/ ConnectedRejects(s))
         /\ WF_vars(ProcessMessage(s))
         /\ WF_vars(CallOnDisconnect(s)) /\ WF_vars(Disconnected(s))

Spec == Init /\ [][Next]_vars
FairSpec == Spec /\ Fairness

-----------------------------------------------------------------------------
\* A connection that a document has can be found by its raw key, and was made
\* from the payload that its own hooks authenticated: what reaches the key
\* reaches it, and closing the websocket closes it (ClientConnection.ts:108-112);
\* until a late rejection deletes the entries of another session (:390-392), here
\* and below.
AttachedIsCurrent ==
    robbed = {} =>
        \A s \in attached : documentConnections[keyOf[s]] = s /\ payload[s] = s

\* Once the close event is handled no document has a connection of this
\* websocket, also when the close came while hooks or a load were in progress
\* (ClientConnection.ts:277-285).
ClosedIsDetached == (ws = "closed" /\ robbed = {}) => attached = {}

\* The same whatever was rejected: a session whose entries were deleted goes on beside
\* the one that the client starts next, and the table has room for one of them.
ClosedIsAlwaysDetached == ws = "closed" => attached = {}

\* When the onDisconnect hook is called every message the connection was given has
\* been handled, and none comes later (ClientConnection.ts:159-163).
HandledBeforeDisconnect ==
    robbed = {} => \A s \in Sessions : disconnect[s] \in {"hook", "done"} =>
        delivered[s] = (IF attempt[s] = "abandoned" THEN <<>> ELSE accepted[s])

\* "If the WebSocket has already disconnected (wow, that was fast) - then
\* immediately call close to cleanup the connection and document in memory"
\* (ClientConnection.ts:277-278): the connection that is made after the close
\* is disconnected, with its hook and callbacks.
FastCloseCleansUp ==
    \A s \in Sessions : attempt[s] = "abandoned" => disconnect[s] # "none"

\* "Clean up all state for this document so a retry is treated as a fresh first
\* connection attempt" (ClientConnection.ts:388-389): no connection is left
\* for a raw key whose attempt was denied.
DeniedIsFresh ==
    \A k \in Keys : hookPayloads[k] = NoSession => documentConnections[k] = NoSession

\* The session is a channel: messages are handled in the order they came, each
\* once, and the ones that waited for the connection before later ones.
Ended(s) ==
    /\ keyOf[s] # Undefined
    /\ hookPayloads[keyOf[s]] # s /\ documentConnections[keyOf[s]] # s
    /\ attempt[s] \notin {"authenticating", "loading"}
SessionChannel == INSTANCE Channel WITH
    shut <- {s \in Sessions : Ended(s)},
    discarded <- {s \in Sessions : attempt[s] \in {"rejected", "abandoned"}}
ChannelSpec ==
    /\ SessionChannel!ChannelInit
    /\ [][robbed' = {} => SessionChannel!ChannelNext]_(SessionChannel!channelVars)

\* With hooks that settle, every session that was authenticated before its
\* websocket closed is disconnected, so that its document can be unloaded.
ClosedIsDisconnected ==
    \A s \in Sessions :
        (ws = "closed" /\ attempt[s] \in {"loading", "connecting", "connected"})
            ~> (attempt[s] = "rejected" \/ disconnect[s] = "done" \/ robbed # {})
=============================================================================
