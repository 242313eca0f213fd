------------------------------ MODULE Provider ------------------------------
(***************************************************************************)
(* packages/provider/src/CollabApiProvider.ts: one client's copy of a      *)
(* document, kept in sync with the server's copy over a websocket that may *)
(* close and come back.  The other side is the session on the server       *)
(* (ClientConnection.ts, Connection.ts, see module Session) with its sync  *)
(* messages (server/src/MessageReceiver.ts).                               *)
(*                                                                         *)
(* A copy is the set of updates it has.  A sync step 1 carries what its    *)
(* sender has, a step 2 the updates that the sender of the step 1 lacks.   *)
(***************************************************************************)
EXTENDS Naturals, Sequences, FiniteSets

CONSTANTS
    OwnUpdates,    \* edits of this client
    OtherUpdates,  \* edits of other clients
    Busy,          \* other providers of the websocket receive messages all the time
    MaxUpdates,    \* bound: edits that are made, of both kinds together
    MaxEvents      \* bound: how often, together, the websocket closes, permission is
                   \* denied, the provider detaches, forceSync is called, and the server
                   \* closes the connection or drops a message

ASSUME ProviderAssumption ==
    /\ OwnUpdates \cap OtherUpdates = {}
    /\ Busy \in BOOLEAN /\ MaxUpdates \in Nat /\ MaxEvents \in Nat

Updates == OwnUpdates \cup OtherUpdates

VARIABLES
    \* the client
    doc,              \* the client's copy
    unsyncedChanges,
    isSynced,
    isAuthenticated,
    isAttached,
    opening,          \* onOpen calls that await the token
    socket,           \* "closed", "connecting" or "open"
    attempt,          \* a connection attempt has not been resolved
    messageQueue,     \* messages that wait for the websocket
    handshake,        \* auxiliary: a step 2 has come since the last onClose
    \* the network
    up, down,
    \* the server
    stage,            \* the session: "none", "authenticating" or "ready"
    waiting,          \* its incomingMessageQueue
    inbox,            \* messageQueue of the connection, also of one that is closed
    serverDoc,
    readOnly,         \* the connection is read-only, as the hooks decide each time alike
    denied,           \* auxiliary: permission was denied since the websocket opened
    dismissed,        \* auxiliary: the server closed the connection, or dropped a message,
                      \* since the websocket opened
    closes, denials, detaches, syncs, dismissals,
    checks            \* auxiliary: how often checkConnection closed the websocket

clientVars == <<doc, unsyncedChanges, isSynced, isAuthenticated, isAttached, opening,
                socket, attempt, messageQueue, handshake>>
serverVars == <<stage, waiting, inbox, serverDoc, readOnly, denied, dismissed>>
network == <<up, down>>
counters == <<closes, denials, detaches, syncs, dismissals, checks>>
vars == <<clientVars, network, serverVars, counters>>

Types == {"auth", "step1", "step2", "update", "close", "authenticated", "denied",
          "saved", "unsaved"}
Message == [type : Types, data : SUBSET Updates]
Msg(type, data) == [type |-> type, data |-> data]

\* What the bound counts.
Events == closes + denials + detaches + syncs + dismissals

TypeOK ==
    /\ doc \subseteq Updates /\ serverDoc \subseteq Updates
    /\ unsyncedChanges \in Nat /\ opening \in Nat
    /\ isSynced \in BOOLEAN /\ isAuthenticated \in BOOLEAN /\ isAttached \in BOOLEAN
    /\ attempt \in BOOLEAN /\ handshake \in BOOLEAN /\ denied \in BOOLEAN /\ readOnly \in BOOLEAN
    /\ dismissed \in BOOLEAN
    /\ socket \in {"closed", "connecting", "open"}
    /\ stage \in {"none", "authenticating", "ready"}
    /\ messageQueue \in Seq(Message) /\ up \in Seq(Message) /\ down \in Seq(Message)
    /\ waiting \in Seq(Message) /\ inbox \in Seq(Message)
    /\ socket # "open" => up = <<>> /\ down = <<>> /\ stage = "none"
    /\ closes \in Nat /\ denials \in Nat /\ detaches \in Nat /\ syncs \in Nat
    /\ dismissals \in Nat /\ checks \in Nat
    /\ Events <= MaxEvents

Init ==
    /\ doc = {} /\ serverDoc \in {{}, OtherUpdates}
    /\ unsyncedChanges = 0 /\ opening = 0
    /\ isSynced = FALSE /\ isAuthenticated = FALSE /\ isAttached = TRUE
    /\ socket = "connecting" /\ attempt = TRUE
    /\ handshake = FALSE /\ denied = FALSE /\ readOnly \in BOOLEAN
    /\ dismissed = FALSE
    /\ messageQueue = <<>> /\ up = <<>> /\ down = <<>>
    /\ stage = "none" /\ waiting = <<>> /\ inbox = <<>>
    /\ closes = 0 /\ denials = 0 /\ detaches = 0 /\ syncs = 0 /\ dismissals = 0 /\ checks = 0

-----------------------------------------------------------------------------
\* send, of the provider and of its websocket.
Send(messages) ==
    IF ~isAttached THEN UNCHANGED <<up, messageQueue>>
    ELSE IF socket = "open" THEN up' = up \o messages /\ UNCHANGED messageQueue
    ELSE messageQueue' = messageQueue \o messages /\ UNCHANGED up

\* Mutant: a synchronisation counts on top of what is outstanding.
ResetUnsyncedChangesAdding == unsyncedChanges' = unsyncedChanges + 1

ResetUnsyncedChanges == unsyncedChanges' = 1

\* The bound on edits.
MayBeMade(u) == Cardinality(doc \cup serverDoc \cup {u}) <= MaxUpdates

\* The client edits its copy: documentUpdateHandler.
Edit(u) ==
    /\ u \notin doc /\ MayBeMade(u)
    /\ doc' = doc \cup {u}
    /\ unsyncedChanges' = unsyncedChanges + 1
    /\ Send(<<Msg("update", {u})>>)
    /\ UNCHANGED <<isSynced, isAuthenticated, isAttached, opening, socket, attempt,
                   handshake, down, serverVars, counters>>

ForceSync ==
    /\ Events < MaxEvents /\ syncs' = syncs + 1
    /\ ResetUnsyncedChanges
    /\ Send(<<Msg("step1", doc)>>)
    /\ UNCHANGED <<doc, isSynced, isAuthenticated, isAttached, opening, socket, attempt,
                   handshake, down, serverVars, closes, denials, detaches, dismissals, checks>>

\* What onOpen sends when it has the token: sendToken, or nothing if getToken
\* throws, and startSync.
Opening(hasToken) ==
    (IF hasToken THEN <<Msg("auth", {})>> ELSE <<>>) \o <<Msg("step1", doc)>>

\* Mutant: onOpen resets the flag when the token is there.
KnownAfterTokenReset(hasToken) == FALSE

\* isAuthenticated when the token is there, or getToken has thrown.
KnownAfterToken(hasToken) == hasToken /\ isAuthenticated

\* The token is there, or getToken throws.
TokenSettles ==
    /\ opening > 0 /\ opening' = opening - 1
    /\ \E hasToken \in BOOLEAN :
         /\ hasToken \/ Events < MaxEvents
         /\ denials' = IF hasToken THEN denials ELSE denials + 1
         /\ isAuthenticated' = KnownAfterToken(hasToken)
         /\ denied' = (denied \/ ~hasToken)
         /\ Send(Opening(hasToken))
    /\ ResetUnsyncedChanges
    /\ UNCHANGED <<doc, isSynced, isAttached, socket, attempt, handshake, down,
                   stage, waiting, inbox, serverDoc, readOnly, dismissed, closes, detaches,
                   syncs, dismissals, checks>>

\* onClose
OnClose == isAuthenticated' = FALSE /\ isSynced' = FALSE /\ handshake' = FALSE

\* The websocket opens; an attached provider's onOpen runs up to its await.
WebSocketOpens ==
    /\ socket = "connecting" /\ socket' = "open"
    /\ IF isAttached THEN opening' = opening + 1 /\ isAuthenticated' = FALSE
       ELSE UNCHANGED <<opening, isAuthenticated>>
    /\ UNCHANGED <<doc, unsyncedChanges, isSynced, isAttached, attempt, messageQueue,
                   handshake, network, serverVars, counters>>

\* What the server applies of a message.
Received(m) == IF m.type \in {"step2", "update"} /\ ~readOnly THEN m.data ELSE {}

\* The websocket closes: what is in transit is lost, what the connection has
\* received is still handled.
CloseWebSocket ==
    /\ socket' = "closed" /\ attempt' = FALSE
    /\ up' = <<>> /\ down' = <<>>
    /\ stage' = "none" /\ waiting' = <<>> /\ inbox' = <<>>
    /\ denied' = FALSE /\ dismissed' = FALSE
    /\ serverDoc' = serverDoc \cup UNION {Received(inbox[i]) : i \in DOMAIN inbox}
    /\ IF isAttached THEN OnClose ELSE UNCHANGED <<isAuthenticated, isSynced, handshake>>
    /\ UNCHANGED <<doc, unsyncedChanges, isAttached, opening, readOnly, denials, detaches,
                   syncs, dismissals>>

\* disconnect() empties the queue as well.
WebSocketCloses ==
    /\ socket # "closed" /\ Events < MaxEvents /\ closes' = closes + 1
    /\ messageQueue' \in {messageQueue, <<>>}
    /\ CloseWebSocket /\ UNCHANGED checks

Reconnect ==
    /\ socket = "closed" /\ socket' = "connecting" /\ attempt' = TRUE
    /\ UNCHANGED <<doc, unsyncedChanges, isSynced, isAuthenticated, isAttached, opening,
                   messageQueue, handshake, network, serverVars, counters>>

\* detach: the close message is the last thing that is sent.
Detach ==
    /\ isAttached /\ Events < MaxEvents /\ detaches' = detaches + 1
    /\ Send(<<Msg("close", {})>>)
    /\ isAttached' = FALSE
    /\ UNCHANGED <<doc, unsyncedChanges, isSynced, isAuthenticated, opening, socket, attempt,
                   handshake, down, serverVars, closes, denials, syncs, dismissals, checks>>

\* attach: over a websocket that is open already, onOpen runs at once.
Attach ==
    /\ ~isAttached /\ isAttached' = TRUE
    /\ IF socket = "open" THEN opening' = opening + 1 /\ isAuthenticated' = FALSE
       ELSE UNCHANGED <<opening, isAuthenticated>>
    /\ UNCHANGED <<doc, unsyncedChanges, isSynced, socket, attempt, messageQueue, handshake,
                   network, serverVars, counters>>

-----------------------------------------------------------------------------
\* applySyncStatusMessage and decrementUnsyncedChanges.
Decrement ==
    LET n == IF unsyncedChanges > 0 THEN unsyncedChanges - 1 ELSE 0 IN
    /\ unsyncedChanges' = n
    /\ isSynced' = (isSynced \/ n = 0)

\* provider/src/MessageReceiver.ts: what each message from the server does to an
\* attached provider.
Apply(m) ==
    CASE m.type = "authenticated" ->
            isAuthenticated' = TRUE /\ UNCHANGED <<doc, unsyncedChanges, isSynced, handshake>>
      [] m.type = "denied" ->
            isAuthenticated' = FALSE /\ UNCHANGED <<doc, unsyncedChanges, isSynced, handshake>>
      [] m.type = "step2" ->
            /\ doc' = doc \cup m.data /\ isSynced' = TRUE /\ handshake' = TRUE
            /\ UNCHANGED <<unsyncedChanges, isAuthenticated>>
      [] m.type = "update" ->
            /\ doc' = doc \cup m.data
            /\ UNCHANGED <<unsyncedChanges, isSynced, isAuthenticated, handshake>>
      [] m.type = "saved" -> Decrement /\ UNCHANGED <<doc, isAuthenticated, handshake>>
      [] m.type = "close" -> OnClose /\ UNCHANGED <<doc, unsyncedChanges>>
      [] m.type \in {"step1", "unsaved"} ->
            UNCHANGED <<doc, unsyncedChanges, isSynced, isAuthenticated, handshake>>

\* Mutant: a step 1 is not answered.
ReplyNothing(m) == <<>>

\* The answer to a step 1: what the server lacks.
Reply(m) == IF m.type = "step1" THEN <<Msg("step2", doc \ m.data)>> ELSE <<>>

\* The first message of a websocket resolves the attempt, which sends what was
\* queued; then the provider, if it is attached, handles it.
ClientReceive ==
    LET m == Head(down) IN
    /\ down # <<>> /\ down' = Tail(down)
    /\ attempt' = FALSE
    /\ messageQueue' = IF attempt THEN <<>> ELSE messageQueue
    /\ up' = up \o (IF attempt THEN messageQueue ELSE <<>>)
                \o (IF isAttached THEN Reply(m) ELSE <<>>)
    /\ IF isAttached THEN Apply(m)
       ELSE UNCHANGED <<doc, unsyncedChanges, isSynced, isAuthenticated, handshake>>
    /\ UNCHANGED <<isAttached, opening, socket, serverVars, counters>>

-----------------------------------------------------------------------------
\* ClientConnection.handleMessage on the server (module Session).
ServerReceive ==
    LET m == Head(up) IN
    /\ up # <<>> /\ up' = Tail(up)
    /\ \/ /\ stage = "ready"
          /\ inbox' = Append(inbox, m)
          /\ UNCHANGED <<stage, waiting>>
       \/ /\ stage = "none" /\ m.type = "auth"
          /\ stage' = "authenticating"
          /\ UNCHANGED <<waiting, inbox>>
       \/ /\ stage = "authenticating" \/ (stage = "none" /\ m.type # "auth")
          /\ waiting' = Append(waiting, m)
          /\ UNCHANGED <<stage, inbox>>
    /\ UNCHANGED <<clientVars, down, serverDoc, readOnly, denied, dismissed, counters>>

\* The hooks resolve and the document is loaded.  The messages of an earlier
\* connection are taken to be handled before.
ServerAuthenticates ==
    /\ stage = "authenticating" /\ inbox = <<>>
    /\ stage' = "ready"
    /\ inbox' = waiting /\ waiting' = <<>>
    /\ down' = Append(down, Msg("authenticated", {}))
    /\ UNCHANGED <<clientVars, up, serverDoc, readOnly, denied, dismissed, counters>>

ServerDenies ==
    /\ stage = "authenticating"
    /\ Events < MaxEvents /\ denials' = denials + 1
    /\ stage' = "none" /\ waiting' = <<>> /\ denied' = TRUE
    /\ down' = Append(down, Msg("denied", {}))
    /\ UNCHANGED <<clientVars, up, inbox, serverDoc, readOnly, dismissed, closes, detaches,
                   syncs, dismissals, checks>>

\* Mutant: a read-only connection acknowledges what it has not applied.
AcknowledgementAlways(m) == Msg("saved", {})

\* SyncStatus: applied, or for a read-only step 2 nothing new in it.
Acknowledgement(m) ==
    IF readOnly /\ (m.type = "update" \/ ~(m.data \subseteq serverDoc))
    THEN Msg("unsaved", {}) ELSE Msg("saved", {})

\* The server's answer to a step 1: its own step 1 is sent while the message is
\* read, the step 2 when it has been read.
FirstSync(m) == <<Msg("step1", serverDoc), Msg("step2", serverDoc \ m.data)>>

\* readSyncMessage and the CLOSE message, on the server.  The reply to CLOSE is
\* the close message of Connection.close; after it the session is gone, but the
\* connection goes on with what it has received.
ServerHandle ==
    LET m == Head(inbox)
        open == stage = "ready"
    IN
    /\ inbox # <<>> /\ inbox' = Tail(inbox)
    /\ serverDoc' = serverDoc \cup Received(m)
    /\ down' = down \o
         (CASE m.type = "step1" -> FirstSync(m)
            [] m.type \in {"step2", "update"} -> <<Acknowledgement(m)>>
            [] m.type = "close" -> IF open THEN <<Msg("close", {})>> ELSE <<>>
            [] m.type = "auth" -> <<>>)
    /\ stage' = IF m.type = "close" /\ open THEN "none" ELSE stage
    /\ UNCHANGED <<clientVars, up, waiting, readOnly, denied, dismissed, counters>>

\* What a close by the server does to the session: the close message is sent and
\* the session is gone, but the provider, which keeps the websocket, does not
\* authenticate again.
Dismiss ==
    /\ Events < MaxEvents /\ dismissals' = dismissals + 1
    /\ dismissed' = TRUE /\ stage' = IF stage = "ready" THEN "none" ELSE stage
    /\ down' = down \o (IF stage = "ready" THEN <<Msg("close", {})>> ELSE <<>>)
    /\ UNCHANGED <<clientVars, up, waiting, serverDoc, readOnly, denied,
                   closes, denials, detaches, syncs, checks>>

\* The server closes the connection over an open websocket: check, closeConnections,
\* or onTokenSync rejects.
ServerCloses == stage = "ready" /\ Dismiss /\ UNCHANGED inbox

\* A hook throws while a message is read, which drops it and closes the connection.
\* The connection, or one that is closed already, goes on with the next message.
ServerThrows == inbox # <<>> /\ inbox' = Tail(inbox) /\ Dismiss

\* Another client's update is applied and broadcast.
OtherEdits(u) ==
    /\ u \notin serverDoc /\ MayBeMade(u)
    /\ serverDoc' = serverDoc \cup {u}
    /\ down' = IF stage = "ready" THEN Append(down, Msg("update", {u})) ELSE down
    /\ UNCHANGED <<clientVars, up, stage, waiting, inbox, readOnly, denied, dismissed, counters>>

\* Nothing is in transit and nothing is awaited.
Settled ==
    /\ socket = "open" /\ opening = 0 /\ up = <<>> /\ down = <<>> /\ inbox = <<>>
    /\ stage # "authenticating" /\ messageQueue = <<>>

\* A provider without a session hears nothing from the server.  Unless other
\* providers receive messages over the websocket, checkConnection closes it.
CheckConnection ==
    /\ Settled /\ stage = "none" /\ ~Busy /\ ~attempt
    /\ checks' = checks + 1 /\ messageQueue' = <<>>
    /\ CloseWebSocket /\ UNCHANGED closes

Next ==
    \/ \E u \in OwnUpdates : Edit(u)
    \/ \E u \in OtherUpdates : OtherEdits(u)
    \/ ForceSync \/ TokenSettles
    \/ WebSocketOpens \/ WebSocketCloses \/ CheckConnection \/ Reconnect \/ Detach \/ Attach
    \/ ClientReceive \/ ServerReceive \/ ServerAuthenticates \/ ServerDenies \/ ServerHandle
    \/ ServerCloses \/ ServerThrows

Spec == Init /\ [][Next]_vars

\* Messages are delivered and handled, tokens are fetched, hooks resolve, the
\* websocket is retried and a silent one is closed (module ProviderWebsocket).
FairSpec ==
    /\ Spec
    /\ WF_vars(ClientReceive) /\ WF_vars(ServerReceive) /\ WF_vars(ServerHandle)
    /\ WF_vars(ServerAuthenticates) /\ WF_vars(TokenSettles)
    /\ WF_vars(WebSocketOpens) /\ WF_vars(Reconnect) /\ WF_vars(CheckConnection)

-----------------------------------------------------------------------------
Served == Settled /\ isAttached /\ stage = "ready"

\* When everything has been exchanged over a websocket that may write and on which
\* permission was not denied, both copies are equal and the provider says so:
\* `synced' and no unsynced changes, whatever was edited offline, resent, or
\* acknowledged late.  What the server has dropped on this websocket may stay
\* counted as unsynced.
ServedIsSynced ==
    (Served /\ ~readOnly /\ ~denied) =>
        doc = serverDoc /\ isSynced /\ (unsyncedChanges = 0 \/ dismissed)

\* A provider that the server serves knows that it is authenticated, whatever
\* onOpen calls of earlier websockets still had to send their token.
ServedIsAuthenticated == (Served /\ ~denied /\ detaches = 0) => isAuthenticated

\* The provider has synchronised only once, and nothing was dropped.
SyncedOnce == closes = 0 /\ checks = 0 /\ syncs = 0 /\ detaches = 0 /\ dismissals = 0

\* A read-only connection that has been synchronised once, and not again, has
\* unsynced changes exactly if the client made an edit that the server does not
\* have (tests/provider/hasUnsyncedChanges.ts:41-60 and :125-190).
ReadOnlyIsHonest ==
    (Served /\ readOnly /\ SyncedOnce) =>
        (serverDoc \subseteq doc /\ (unsyncedChanges = 0 <=> doc \subseteq serverDoc))

\* "changes are synced" (tests/provider/hasUnsyncedChanges.ts:36): an edit reaches
\* the server although it was made offline, was in transit when the websocket
\* closed, was made before the handshake, or was dropped by a server that closed the
\* connection: checkConnection then replaces the websocket.  Not if permission is
\* denied, the provider was detached, after which nobody may serve it
\* (AttachedIsServed), or other providers keep the websocket of a closed connection
\* busy (EditArrivesOnBusy).
EditArrives ==
    \A u \in OwnUpdates :
        (u \in doc /\ ~readOnly) ~>
            (u \in serverDoc \/ denied \/ detaches > 0 \/ (Busy /\ dismissed))

\* "changes are synced", of a provider whose connection the server has closed while
\* other providers keep the websocket busy too.
EditArrivesOnBusy ==
    \A u \in OwnUpdates :
        (u \in doc /\ ~readOnly) ~> (u \in serverDoc \/ denied \/ detaches > 0)

\* `synced' "indicates whether a first handshake with the server has been
\* established" (CollabApiProvider.ts:378).
SyncedIsHandshake == isSynced => handshake

\* "This does not mean all updates from the client have been persisted to the
\* backend.  For this, use hasUnsyncedChanges" (CollabApiProvider.ts:380-381).
NoUnsyncedMeansSent ==
    (isAttached /\ isSynced /\ unsyncedChanges = 0) => doc \subseteq serverDoc

\* "has unsynced changes when in readonly mode" and "confirm that the changes are
\* not synced later either" (tests/provider/hasUnsyncedChanges.ts:41 and :58).
ReadOnlyKeepsUnsynced == (Served /\ readOnly) => (unsyncedChanges = 0 => doc \subseteq serverDoc)

\* A provider that attaches again is authenticated again: not by a connection
\* that its earlier close message is about to close.
AttachedIsServed == (Settled /\ isAttached /\ ~denied /\ ~dismissed) => stage = "ready"
=============================================================================
