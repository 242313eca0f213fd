------------------------- MODULE ProviderWebsocket -------------------------
(***************************************************************************)
(* packages/provider/src/CollabApiProviderWebsocket.ts: the websocket that *)
(* the providers of a client share, and the retries that bring it back.    *)
(*                                                                         *)
(* A call of connect() starts a retry loop, whose first attempt is made at *)
(* once.  An attempt is resolved by the first message, not by the open     *)
(* event.  Providers have the same effective name: one of them is routed.  *)
(***************************************************************************)
EXTENDS Naturals, Sequences, FiniteSets

CONSTANTS
    Providers,
    NoProvider,
    MaxFaults,     \* bound: connections that fail, close or fall silent
    MaxCalls,      \* bound: calls of connect, disconnect, attach and detach
    MaxSends,      \* bound: messages
    MayDestroy     \* destroy() may be called

ASSUME ProviderWebsocketAssumption ==
    /\ IsFiniteSet(Providers) /\ NoProvider \notin Providers
    /\ MaxFaults \in Nat /\ MaxCalls \in Nat /\ MaxSends \in Nat /\ MayDestroy \in BOOLEAN

VARIABLES
    webSocket,       \* its readyState, or "none"
    status,
    shouldConnect,
    payload,         \* receivedOnOpenPayload is set
    loops,           \* the retry loops
    current,         \* the loop that cancelWebsocketRetry cancels, or 0
    attempt,         \* the loop that waits for connectionAttempt, or 0
    timers,          \* connect() calls that onClose has scheduled
    heard,           \* lastMessageReceived is not 0
    closeTries,
    messageQueue,
    attached,        \* providers that listen to the websocket
    routed,          \* the provider in providerMap
    authenticated,   \* providers with isAuthenticated
    opened,          \* auxiliary: providers whose onOpen ran for this websocket
    destroyed,
    unwanted,        \* auxiliary: the last call was disconnect
    wire,            \* auxiliary: the messages that a websocket took
    sends, calls, faults

socketVars == <<webSocket, status, heard, opened, attempt>>
retryVars == <<shouldConnect, payload, loops, current, timers>>
providerVars == <<attached, routed, authenticated>>
queueVars == <<messageQueue, wire, sends>>
vars == <<socketVars, retryVars, providerVars, queueVars, closeTries, destroyed, unwanted,
          calls, faults>>

Loop == [phase : {"attempting", "due", "settled"}, cancelled : BOOLEAN]
QueuedMessage == [n : Nat, awareness : BOOLEAN]

TypeOK ==
    /\ webSocket \in {"none", "connecting", "open", "closing"}
    /\ status \in {"disconnected", "connecting", "connected"}
    /\ shouldConnect \in BOOLEAN /\ payload \in BOOLEAN /\ heard \in BOOLEAN
    /\ loops \in Seq(Loop)
    /\ current \in 0 .. Len(loops) /\ attempt \in 0 .. Len(loops)
    /\ attempt # 0 => loops[attempt].phase = "attempting"
    /\ timers \in Nat /\ closeTries \in 0 .. 2
    /\ messageQueue \in Seq(QueuedMessage) /\ wire \subseteq 1 .. sends
    /\ attached \subseteq Providers /\ authenticated \subseteq attached
    /\ opened \subseteq Providers
    /\ routed \in Providers \cup {NoProvider}
    /\ destroyed \in BOOLEAN /\ unwanted \in BOOLEAN
    /\ sends \in Nat /\ calls \in 0 .. MaxCalls /\ faults \in 0 .. MaxFaults

\* With autoConnect the constructor connects, otherwise it waits for connect().
Init ==
    /\ \E autoConnect \in BOOLEAN :
         /\ shouldConnect = autoConnect
         /\ IF autoConnect
            THEN /\ webSocket = "connecting" /\ status = "connecting"
                 /\ loops = <<[phase |-> "attempting", cancelled |-> FALSE]>>
                 /\ current = 1 /\ attempt = 1
            ELSE /\ webSocket = "none" /\ status = "disconnected"
                 /\ loops = <<>> /\ current = 0 /\ attempt = 0
    /\ payload = FALSE /\ timers = 0 /\ heard = FALSE /\ closeTries = 0
    /\ messageQueue = <<>> /\ wire = {} /\ sends = 0
    /\ attached = {} /\ routed = NoProvider /\ authenticated = {} /\ opened = {}
    /\ destroyed = FALSE /\ unwanted = FALSE
    /\ calls = 0 /\ faults = 0

-----------------------------------------------------------------------------
Call == calls < MaxCalls /\ calls' = calls + 1

\* The k-th of the positions I, and the messages there in their order: SelectSeq
\* without its recursion.
Position(I, k) == CHOOSE i \in I : Cardinality({j \in I : j <= i}) = k
Filtered(queue, I) == [k \in 1 .. Cardinality(I) |-> queue[Position(I, k)]]

\* addToQueue: an awareness message replaces the queued one of its document.
AddToQueue(m) ==
    Append(Filtered(messageQueue, {i \in DOMAIN messageQueue :
                        ~(m.awareness /\ messageQueue[i].awareness)}), m)

\* send
Send(isAwareness) ==
    LET m == [n |-> sends + 1, awareness |-> isAwareness] IN
    /\ sends' = sends + 1
    /\ IF webSocket = "open" THEN wire' = wire \cup {m.n} /\ UNCHANGED messageQueue
       ELSE messageQueue' = AddToQueue(m) /\ UNCHANGED wire

SendMessage ==
    /\ sends < MaxSends /\ \E isAwareness \in BOOLEAN : Send(isAwareness)
    /\ UNCHANGED <<socketVars, retryVars, providerVars, closeTries, destroyed, unwanted,
                   calls, faults>>

\* Mutant: the status is left until the open event.
CreateKeepingStatus(l) ==
    /\ messageQueue' = IF webSocket = "none" THEN messageQueue ELSE <<>>
    /\ webSocket' = "connecting" /\ UNCHANGED status
    /\ heard' = FALSE /\ opened' = {} /\ attempt' = l

\* createWebSocketConnection, for the loop l: a websocket that is still there is
\* cleaned up without a close event, and the messages of the queue with it.
Create(l) ==
    /\ messageQueue' = IF webSocket = "none" THEN messageQueue ELSE <<>>
    /\ webSocket' = "connecting" /\ status' = "connecting"
    /\ heard' = FALSE /\ opened' = {} /\ attempt' = l

\* cancelWebsocketRetry
Cancelled ==
    [l \in DOMAIN loops |->
        IF l = current THEN [loops[l] EXCEPT !.cancelled = TRUE] ELSE loops[l]]

\* connect, up to the first attempt of its loop.
Connect ==
    IF status = "connected"
    THEN UNCHANGED <<socketVars, shouldConnect, payload, loops, current, messageQueue>>
    ELSE /\ loops' = Append(Cancelled, [phase |-> "attempting", cancelled |-> FALSE])
         /\ current' = Len(loops) + 1
         /\ payload' = FALSE /\ shouldConnect' = TRUE
         /\ Create(Len(loops) + 1)

CallConnect ==
    /\ Call /\ ~destroyed /\ unwanted' = FALSE
    /\ Connect
    /\ UNCHANGED <<timers, providerVars, wire, sends, closeTries, destroyed, faults>>

\* The delay of a retry is over: beforeAttempt, and the next attempt.
RetryDue(l) ==
    /\ loops[l].phase = "due"
    /\ IF ~shouldConnect \/ loops[l].cancelled
       THEN loops' = [loops EXCEPT ![l].phase = "settled"]
            /\ UNCHANGED <<socketVars, messageQueue>>
       ELSE loops' = [loops EXCEPT ![l].phase = "attempting"] /\ Create(l)
    /\ UNCHANGED <<shouldConnect, payload, current, timers, providerVars, wire, sends,
                   closeTries, destroyed, unwanted, calls, faults>>

\* The timer of onClose.
TimerFires ==
    /\ timers > 0
    /\ Connect
    /\ timers' = timers - 1
    /\ UNCHANGED <<providerVars, wire, sends, closeTries, destroyed, unwanted, calls, faults>>

\* disconnect
CallDisconnect ==
    /\ Call /\ ~destroyed /\ unwanted' = TRUE /\ shouldConnect' = FALSE
    /\ IF webSocket = "none" THEN UNCHANGED <<webSocket, messageQueue>>
       ELSE webSocket' = "closing" /\ messageQueue' = <<>>
    /\ UNCHANGED <<status, heard, opened, attempt, payload, loops, current, timers,
                   providerVars, wire, sends, closeTries, destroyed, faults>>

OpenedAtOnce(p) == payload /\ status = "connected"

\* CollabApiProvider.attach with attach: it throws if another provider of that
\* name is authenticated, when this one listens to the websocket already.
Attach(p) ==
    /\ Call /\ ~destroyed /\ p \notin attached
    /\ attached' = attached \cup {p}
    /\ IF routed \in authenticated
       THEN UNCHANGED <<routed, socketVars, retryVars, messageQueue>>
       ELSE /\ routed' = p
            /\ IF status = "disconnected" /\ shouldConnect THEN Connect /\ UNCHANGED timers
               ELSE /\ opened' = IF OpenedAtOnce(p) THEN opened \cup {p} ELSE opened
                    /\ UNCHANGED <<webSocket, status, heard, attempt, retryVars, messageQueue>>
    /\ UNCHANGED <<authenticated, wire, sends, closeTries, destroyed, unwanted, faults>>

\* CollabApiProvider.detach with detach: whoever is routed under the name.
Detach(p) ==
    /\ Call /\ ~destroyed /\ p \in attached
    /\ IF routed # NoProvider THEN Send(FALSE) /\ routed' = NoProvider
       ELSE UNCHANGED <<queueVars, routed>>
    /\ attached' = attached \ {p} /\ authenticated' = authenticated \ {p}
    /\ UNCHANGED <<socketVars, retryVars, closeTries, destroyed, unwanted, faults>>

-----------------------------------------------------------------------------
\* The open event: onOpen, and onOpen of every provider that listens.
Opens ==
    /\ webSocket = "connecting" /\ webSocket' = "open"
    /\ IF destroyed THEN UNCHANGED <<status, opened, current, payload, authenticated>>
       ELSE /\ status' = "connected" /\ opened' = attached
            /\ current' = 0 /\ payload' = TRUE /\ authenticated' = {}
    /\ UNCHANGED <<heard, attempt, shouldConnect, loops, timers, attached, routed,
                   queueVars, closeTries, destroyed, unwanted, calls, faults>>

\* The messages in the queue.
Queued == {messageQueue[i].n : i \in DOMAIN messageQueue}

\* resolveConnectionAttempt: on a websocket that is closing, send puts every
\* message back in the queue, which is emptied all the same.
Resolve ==
    IF attempt = 0 THEN UNCHANGED <<attempt, loops, status, messageQueue, wire>>
    ELSE /\ attempt' = 0 /\ loops' = [loops EXCEPT ![attempt].phase = "settled"]
         /\ status' = "connected"
         /\ messageQueue' = <<>>
         /\ wire' = IF webSocket = "open" THEN wire \cup Queued ELSE wire

\* onMessage, of a websocket that has opened: perhaps the message that authenticates
\* the routed provider.
Message ==
    /\ webSocket \in {"open", "closing"} /\ status = "connected" /\ ~destroyed
    /\ Resolve
    /\ heard' = TRUE
    /\ authenticated' \in {authenticated, authenticated \cup ({routed} \ {NoProvider})}
    /\ UNCHANGED <<webSocket, opened, shouldConnect, payload, current, timers, attached,
                   routed, sends, closeTries, destroyed, unwanted, calls, faults>>

\* Mutant: a failed attempt is forgotten.
RejectedNothing == loops

\* rejectConnectionAttempt
Rejected == IF attempt = 0 THEN loops ELSE [loops EXCEPT ![attempt].phase = "due"]

\* onClose: the attempt has failed, the providers' onClose, and a timer if no
\* retry is known and a connection is wanted.
OnClose ==
    /\ closeTries' = 0 /\ webSocket' = "none" /\ opened' = {}
    /\ loops' = Rejected /\ attempt' = 0
    /\ status' = "disconnected" /\ authenticated' = {}
    /\ timers' = IF current = 0 /\ shouldConnect THEN timers + 1 ELSE timers
    /\ UNCHANGED <<heard, shouldConnect, payload, current, attached, routed, queueVars,
                   destroyed, unwanted, calls>>

\* The close event, of a websocket that fails, is closed by the other side, or is
\* closing.
Closes ==
    /\ ~destroyed
    /\ \/ webSocket = "closing" /\ UNCHANGED faults
       \/ webSocket \in {"connecting", "open"} /\ faults < MaxFaults /\ faults' = faults + 1
    /\ OnClose

Forced == closeTries = 2

Checked == webSocket # "none"

\* checkConnection after messageReconnectTimeout without a message: close() twice,
\* then onClose without waiting for the event.
CheckConnection ==
    /\ status = "connected" /\ heard /\ ~destroyed /\ Checked
    /\ IF webSocket = "closing" THEN UNCHANGED faults
       ELSE faults < MaxFaults /\ faults' = faults + 1
    /\ IF Forced THEN OnClose
       ELSE /\ closeTries' = closeTries + 1
            /\ webSocket' = "closing" /\ messageQueue' = <<>>
            /\ UNCHANGED <<status, heard, opened, attempt, retryVars, providerVars, wire, sends,
                           destroyed, unwanted, calls>>

\* destroy: the attempt is dropped unsettled, and no event is heard any more.
Destroy ==
    /\ MayDestroy /\ ~destroyed /\ destroyed' = TRUE
    /\ attempt' = 0 /\ shouldConnect' = FALSE
    /\ messageQueue' = IF webSocket = "none" THEN messageQueue ELSE <<>>
    /\ webSocket' = "none"
    /\ UNCHANGED <<status, heard, opened, payload, loops, current, timers, providerVars, wire,
                   sends, closeTries, unwanted, calls, faults>>

Next ==
    \/ SendMessage \/ CallConnect \/ CallDisconnect \/ TimerFires \/ Opens \/ Message
    \/ Closes \/ CheckConnection \/ Destroy
    \/ \E p \in Providers : Attach(p) \/ Detach(p)
    \/ \E l \in DOMAIN loops : RetryDue(l)

Spec == Init /\ [][Next]_vars

\* Timers fire, and a websocket that the network does not fail opens and brings a
\* message.  The close event of a closing websocket may never come.
FairSpec ==
    /\ Spec
    /\ WF_vars(TimerFires) /\ WF_vars(\E l \in DOMAIN loops : RetryDue(l))
    /\ WF_vars(Opens) /\ WF_vars(Message) /\ WF_vars(CheckConnection)

-----------------------------------------------------------------------------
\* The status that providers act on (attach connects or announces according to it)
\* is the one of the websocket that is there, whichever loop or timer made it.
StatusMatches ==
    ~destroyed =>
        /\ status = "connected" => webSocket \in {"open", "closing"}
        /\ status = "disconnected" => webSocket = "none"
        /\ status = "connecting" => webSocket \in {"connecting", "closing"}

\* The provider of the name has been told of the websocket that is open, and so has
\* sent its token and its first sync step, although it may have attached before,
\* between or after the attempts; and without a second provider of the name, every
\* one that listens is that provider.
AttachedAreOpened ==
    (webSocket = "open" /\ ~destroyed) =>
        /\ routed \in opened \cup {NoProvider}
        /\ Cardinality(Providers) = 1 => attached \subseteq opened

\* No message is sent twice, nor does one wait once the websocket is established;
\* what waits is in the order of the calls, with one awareness message.
QueueIsSound ==
    /\ \A i, j \in DOMAIN messageQueue : i < j =>
         /\ messageQueue[i].n < messageQueue[j].n
         /\ ~(messageQueue[i].awareness /\ messageQueue[j].awareness)
    /\ Queued \cap wire = {}
    /\ (webSocket = "open" /\ attempt = 0 /\ ~destroyed) => messageQueue = <<>>

\* The retries do not die: when a connection is wanted and there is no websocket, a
\* timer will call connect() or a loop that nobody has cancelled will try again.
RetryIsComing ==
    (shouldConnect /\ webSocket = "none" /\ ~destroyed) =>
        timers > 0 \/ \E l \in DOMAIN loops : loops[l].phase = "due" /\ ~loops[l].cancelled

\* What the loops, timers and calls leave in any order: the status is that of the
\* websocket, its provider has been told of it, its messages are neither kept nor
\* sent twice, and another one is coming if it is lost
\* (CollabApiProviderWebsocket.ts:269, :422, :532, :575).
SocketIsSound == StatusMatches /\ AttachedAreOpened /\ QueueIsSound /\ RetryIsComing

\* While a connection is wanted the retries do not die: however attempts failed,
\* or loops and timers got into each other's way, it is established in the end.
WantedIsEstablished ==
    shouldConnect ~> (~shouldConnect \/ destroyed \/ (webSocket = "open" /\ heard))

\* "Always cancel any previously initiated connection retryer instances" and
\* "trigger connect if no retry is running" (CollabApiProviderWebsocket.ts:273, 575):
\* at most one loop makes attempts.
OneRetryer ==
    Cardinality({l \in DOMAIN loops :
        ~loops[l].cancelled /\ (loops[l].phase = "due" \/ attempt = l)}) <= 1

\* "trigger connect if ... we want to have a connection": after disconnect() no
\* timer and no loop brings the websocket back.
DisconnectIsKept ==
    [][(unwanted /\ unwanted' /\ webSocket' = "connecting") => webSocket = "connecting"]_vars

\* "If there is still a connection attempt outstanding then we should stop it"
\* (CollabApiProviderWebsocket.ts:588): a destroyed provider has no websocket.
DestroyedIsClosed == destroyed => webSocket = "none"

=============================================================================
