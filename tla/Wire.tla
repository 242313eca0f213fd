--------------------------------- MODULE Wire ---------------------------------
(***************************************************************************)
(* What crosses the websockets and the Redis channel, written and read as  *)
(* the two packages do it: OutgoingMessage, IncomingMessage and            *)
(* MessageReceiver of the server, their counterparts of the provider, the  *)
(* routing by raw key at both ends, and the sender's prefix in Redis.  One *)
(* document; providers share the websocket of their instance.              *)
(*                                                                         *)
(* A message is a sequence of numbers: a number, and a string or byte      *)
(* array with its length before it (lib0).  Each carries, beside its       *)
(* bytes, what its sender means; no definition of the code reads that.     *)
(* The document is whether it has the one update there is, an awareness    *)
(* state is its clock.                                                     *)
(***************************************************************************)
EXTENDS Integers, Sequences, FiniteSets, SequencesExt

CONSTANTS
    Keys,       \* the raw key (effectiveName) of each provider
    Instances,
    Aware,      \* the providers that have an awareness
    At,         \* the instance each provider's websocket belongs to
    Identifier, \* configuration.identifier of each instance's Redis extension
    MaxEvents,  \* bound: edits, awareness changes, stateless messages, denials
    MaxInTransit  \* bound: messages in transit when something new happens

Providers == DOMAIN Keys

ASSUME WireAssumption ==
    /\ Keys \in Seq(Seq(Nat)) /\ At \in [Providers -> Instances]
    /\ Aware \subseteq Providers
    /\ Identifier \in [Instances -> Seq(Nat)] /\ MaxEvents \in Nat /\ MaxInTransit \in Nat

VARIABLES
    loaded,     \* instances that have the document, and are subscribed to its channel
    has,        \* who has the update
    clock,      \* what each knows of each provider's awareness
    opened,     \* providers whose onOpen has run
    conns,      \* documentConnections of each instance's websocket, in the order of their making
    toServer,   \* messages in transit to an instance, over its websocket
    toClient,   \* and back
    inbox,      \* messages of the channel that an instance has not handled yet
    misread,    \* auxiliary: what was understood otherwise than it was meant
    events      \* how much of MaxEvents has happened

network == <<toServer, toClient, inbox>>
vars == <<loaded, has, clock, opened, conns, network, misread, events>>

-----------------------------------------------------------------------------
\* MessageType and AuthMessageType
Sync == 0
Awareness == 1
Auth == 2
QueryAwareness == 3
SyncReply == 4
Stateless == 5
BroadcastStateless == 6
CLOSE == 7
SyncStatus == 8
Ping == 9
Token == 0
PermissionDenied == 1
Authenticated == 2
\* y-protocols
Step1 == 0
Step2 == 1
Update == 2

\* writeVarString, writeVarUint8Array, and their readers
Var(s) == <<Len(s)>> \o s
ReadVar(b) == SubSeq(b, 2, 1 + b[1])
AfterVar(b) == SubSeq(b, 2 + b[1], Len(b))

\* parseRoutingKey: the separator is 0
Separator(key) == SelectInSeq(key, LAMBDA c : c = 0)
DocumentName ==
    [key \in Range(Keys) |-> IF Separator(key) = 0 THEN key ELSE SubSeq(key, 1, Separator(key) - 1)]
SessionId ==
    [key \in Range(Keys) |-> IF Separator(key) = 0 THEN <<>> ELSE SubSeq(key, Separator(key) + 1, Len(key))]

\* Connection.messageAddress
MessageAddress ==
    [key \in Range(Keys) |->
       IF SessionId[key] = <<>> THEN DocumentName[key] ELSE DocumentName[key] \o <<0>> \o SessionId[key]]

Name == DocumentName[Keys[1]]

\* A message with its address; key, kind and body are what is meant: the provider
\* at the client's end (for the channel, the name), what it is, and what it carries.
Message(address, rest, key, kind, body) ==
    [bytes |-> Var(address) \o rest, key |-> key, kind |-> kind, body |-> body]

\* The server's messages, to the connection of a raw key.
ToClient(key, rest, kind, body) == Message(MessageAddress[key], rest, key, kind, body)
SyncStatusFor(key, saved) == ToClient(key, <<SyncStatus, saved>>, "syncStatus", <<saved>>)
UpdateFor(key) == ToClient(key, <<Sync, Update>> \o Var(<<1>>), "update", <<1>>)
AwarenessFor(key, states) == ToClient(key, <<Awareness>> \o Var(states), "awareness", states)
StatelessFor(key, payload) == ToClient(key, <<Stateless>> \o Var(payload), "stateless", payload)
TokenRequestFor(key) == ToClient(key, <<Auth, Token>>, "tokenRequest", <<>>)
AuthenticatedFor(key, scope) ==
    Message(key, <<Auth, Authenticated>> \o Var(scope), key, "authenticated", scope)
PermissionDeniedFor(key, reason) ==
    Message(key, <<Auth, PermissionDenied>> \o Var(reason), key, "denied", reason)

\* The provider's messages.
ToServer(p, rest, kind, body) == Message(Keys[p], rest, Keys[p], kind, body)
TokenOf(p) == <<p>>
Version == <<4>>
AuthenticationMessage(p) ==
    ToServer(p, <<Auth, Token>> \o Var(TokenOf(p)) \o Var(Version), "token", TokenOf(p))
SyncStepOneMessage(p) == ToServer(p, <<Sync, Step1>> \o Var(<<has[p]>>), "step1", <<has[p]>>)
UpdateMessage(p) == ToServer(p, <<Sync, Update>> \o Var(<<1>>), "update", <<1>>)
AwarenessMessage(p, states) == ToServer(p, <<Awareness>> \o Var(states), "awareness", states)
StatelessMessage(p, payload) == ToServer(p, <<Stateless>> \o Var(payload), "stateless", payload)

\* The Redis extension's messages: encodeMessage puts the identifier before them.
Published(i, rest, kind, body) ==
    [Message(Name, rest, Name, kind, body) EXCEPT !.bytes = Var(Identifier[i]) \o @]
PublishedStep1(i, type, v) ==
    Published(i, <<type, Step1>> \o Var(<<v>>), IF type = Sync THEN "step1" ELSE "step1 reply", <<v>>)
PublishedAwareness(i, states) == Published(i, <<Awareness>> \o Var(states), "awareness", states)

\* What the other side lacks: the answer to its first step.
Diff(own, other) == IF own = 1 /\ other = 0 THEN 1 ELSE 0

\* Kind and content of a sync message, after its type.
ReadSync(first, b) == [kind |-> <<first, "step2", "update">>[Head(b) + 1], body |-> ReadVar(Tail(b))]

Unknown == [kind |-> "unknown", body |-> <<>>]

\* What the server's MessageReceiver understands, after the address.
ServerReads(b) ==
    LET type == Head(b)  a == Tail(b) IN
    CASE type = Sync -> ReadSync("step1", a)
      [] type = SyncReply -> ReadSync("step1 reply", a)
      [] type = Awareness -> [kind |-> "awareness", body |-> ReadVar(a)]
      [] type = QueryAwareness -> [kind |-> "queryAwareness", body |-> <<>>]
      [] type = Stateless -> [kind |-> "stateless", body |-> ReadVar(a)]
      [] type = BroadcastStateless -> [kind |-> "broadcastStateless", body |-> ReadVar(a)]
      [] type = Auth /\ Head(a) = Token -> [kind |-> "token", body |-> ReadVar(Tail(a))]
      [] OTHER -> Unknown

\* What the provider's MessageReceiver understands.
ClientReads(b) ==
    LET type == Head(b)  a == Tail(b) IN
    CASE type = Sync -> ReadSync("step1", a)
      [] type = Awareness -> [kind |-> "awareness", body |-> ReadVar(a)]
      [] type = Auth /\ Head(a) = Token -> [kind |-> "tokenRequest", body |-> <<>>]
      [] type = Auth /\ Head(a) = PermissionDenied -> [kind |-> "denied", body |-> ReadVar(Tail(a))]
      [] type = Auth /\ Head(a) = Authenticated -> [kind |-> "authenticated", body |-> ReadVar(Tail(a))]
      [] type = Stateless -> [kind |-> "stateless", body |-> ReadVar(a)]
      [] type = SyncStatus -> [kind |-> "syncStatus", body |-> a]
      [] OTHER -> Unknown

\* Mutant: only the first byte is looked at.
IsPingByType(bytes) == bytes[1] = Ping

\* onMessage of the websocket: a ping has no address.
IsPing(bytes) == Len(bytes) = 1 /\ bytes[1] = Ping

\* Record what was understood, and by the provider or connection of which raw key.
Understood(m, key, read) ==
    misread' = IF key = m.key /\ read.kind = m.kind /\ read.body = m.body THEN misread
               ELSE misread \cup {<<m.key, m.kind, key, read.kind>>}

-----------------------------------------------------------------------------
Init ==
    /\ loaded \in {{i} : i \in Instances} /\ opened = {} /\ misread = {} /\ events = 0
    /\ has = [n \in Providers \cup Instances |-> 0]
    /\ clock = [n \in Providers \cup Instances |-> [q \in Providers |-> IF q = n /\ q \in Aware THEN 1 ELSE 0]]
    /\ conns = [i \in Instances |-> <<>>]
    /\ toServer = [i \in Instances |-> <<>>] /\ toClient = [i \in Instances |-> <<>>]
    /\ inbox = [i \in Instances |-> <<>>]

InTransit == FoldSet(LAMBDA i, n : n + Len(toServer[i]) + Len(toClient[i]) + Len(inbox[i]), 0, Instances)
MayStart == InTransit <= MaxInTransit
Event == events < MaxEvents /\ MayStart /\ events' = events + 1

\* A message for each connection of an instance.
ForEach(i, MessageFor(_)) == [j \in DOMAIN conns[i] |-> MessageFor(conns[i][j])]

\* What an instance sends over its websocket, and publishes.  Its own messages come
\* back as well, and are dropped for their identifier: they are left out.
Publish(i, boxes, pub) == [j \in Instances |-> IF j \in loaded \ {i} THEN boxes[j] \o pub ELSE boxes[j]]
Sends(i, out, pub) ==
    /\ toClient' = [toClient EXCEPT ![i] = @ \o out]
    /\ inbox' = Publish(i, inbox, pub)

\* An update is applied to the document of an instance: every connection gets it,
\* and, unless it came from Redis, the extension's onChange publishes a first step.
Broadcast(i, v) == IF Diff(v, has[i]) = 0 THEN <<>> ELSE ForEach(i, UpdateFor)
OnChange(i, v) == IF Diff(v, has[i]) = 0 THEN <<>> ELSE <<PublishedStep1(i, Sync, 1)>>
Having(n, v) == [has EXCEPT ![n] = IF v = 1 THEN 1 ELSE @]

\* applyAwarenessUpdate: newer states only, and nobody is told of nothing.
Newer(n, states) == [q \in Providers |-> IF states[q] > clock[n][q] THEN states[q] ELSE 0]
IsNothing(states) == \A q \in Providers : states[q] = 0
Knowing(n, states) == [clock EXCEPT ![n] = [q \in Providers |-> IF states[q] > @[q] THEN states[q] ELSE @[q]]]
OnAwareness(i, states) ==
    IF IsNothing(states) THEN <<>> ELSE ForEach(i, LAMBDA key : AwarenessFor(key, states))
\* onAwarenessUpdate of the Redis extension
PublishAwareness(i, states) ==
    IF IsNothing(states) \/ conns[i] = <<>> THEN <<>> ELSE <<PublishedAwareness(i, states)>>

-----------------------------------------------------------------------------
\* loadDocument, with the extension's afterLoadDocument.
Load(i) ==
    /\ i \notin loaded
    /\ loaded' = loaded \cup {i}
    /\ Sends(i, <<>>, <<PublishedStep1(i, Sync, has[i]), Published(i, <<QueryAwareness>>, "queryAwareness", <<>>)>>)
    /\ UNCHANGED <<has, clock, opened, conns, toServer, misread, events>>

SendToServer(p, messages) == toServer' = [toServer EXCEPT ![At[p]] = @ \o messages]

\* onOpen of a provider: sendToken and startSync.
Open(p) ==
    /\ p \notin opened /\ MayStart
    /\ opened' = opened \cup {p}
    /\ SendToServer(p, <<AuthenticationMessage(p), SyncStepOneMessage(p)>>
          \o IF p \in Aware THEN <<AwarenessMessage(p, [q \in Providers |-> IF q = p THEN clock[p][p] ELSE 0])>>
             ELSE <<>>)
    /\ UNCHANGED <<loaded, has, clock, conns, toClient, inbox, misread, events>>

\* documentUpdateHandler
ClientEdits(p) ==
    /\ p \in opened /\ has[p] = 0 /\ Event
    /\ has' = Having(p, 1)
    /\ SendToServer(p, <<UpdateMessage(p)>>)
    /\ UNCHANGED <<loaded, clock, opened, conns, toClient, inbox, misread>>

\* setAwarenessField, and awarenessUpdateHandler
ClientMoves(p) ==
    /\ p \in opened \cap Aware /\ Event
    /\ clock' = [clock EXCEPT ![p][p] = @ + 1]
    /\ SendToServer(p, <<AwarenessMessage(p, [q \in Providers |-> IF q = p THEN clock[p][p] + 1 ELSE 0])>>)
    /\ UNCHANGED <<loaded, has, opened, conns, toClient, inbox, misread>>

SendStateless(p) ==
    /\ p \in opened /\ Event
    /\ SendToServer(p, <<StatelessMessage(p, <<Stateless>>)>>)
    /\ UNCHANGED <<loaded, has, clock, opened, conns, toClient, inbox, misread>>

\* The server's own code changes the document, asks for a token, or tells everyone
\* something.
ServerEdits(i) ==
    /\ i \in loaded /\ has[i] = 0 /\ Event
    /\ has' = Having(i, 1)
    /\ Sends(i, Broadcast(i, 1), OnChange(i, 1))
    /\ UNCHANGED <<loaded, clock, opened, conns, toServer, misread>>

RequestToken(i, key) ==
    /\ key \in Range(conns[i]) /\ Event
    /\ Sends(i, <<TokenRequestFor(key)>>, <<>>)
    /\ UNCHANGED <<loaded, has, clock, opened, conns, toServer, misread>>

StatelessBroadcast(i) ==
    /\ i \in loaded /\ Event
    /\ Sends(i, ForEach(i, LAMBDA key : StatelessFor(key, <<Stateless>>)),
             <<Published(i, <<BroadcastStateless>> \o Var(<<Stateless>>), "broadcastStateless", <<Stateless>>)>>)
    /\ UNCHANGED <<loaded, has, clock, opened, conns, toServer, misread>>

-----------------------------------------------------------------------------
\* A connection's answer to the message it has read, on behalf of the provider
\* whose raw key the connection was made for.
Answer(i, key, m, read) ==
    LET v == read.body[1] IN
    CASE read.kind = "step1" ->
           << [ToClient(key, <<Sync, Step1>> \o Var(<<has[i]>>), "step1", <<has[i]>>) EXCEPT !.key = m.key],
              [ToClient(key, <<Sync, Step2>> \o Var(<<Diff(has[i], v)>>), "step2", <<Diff(has[i], v)>>)
                  EXCEPT !.key = m.key] >>
      [] read.kind \in {"step2", "update"} ->
           Broadcast(i, v) \o <<[SyncStatusFor(key, 1) EXCEPT !.key = m.key]>>
      [] read.kind = "awareness" -> OnAwareness(i, Newer(i, read.body))
      [] OTHER -> <<>>

\* An instance takes over what a message of a connection or of Redis brings.
Applies(i, read) ==
    /\ has' = IF read.kind \in {"step2", "update"} THEN Having(i, read.body[1]) ELSE has
    /\ clock' = IF read.kind = "awareness" THEN Knowing(i, read.body) ELSE clock

\* The message belongs to a connection: the one of its raw key, or of the plain name.
ServerApplies(i, m, key) ==
    LET read == ServerReads(AfterVar(m.bytes)) IN
    /\ Understood(m, key, read)
    /\ Applies(i, read)
    /\ Sends(i, Answer(i, key, m, read),
             CASE read.kind \in {"step2", "update"} -> OnChange(i, read.body[1])
               [] read.kind = "awareness" -> PublishAwareness(i, Newer(i, read.body))
               [] OTHER -> <<>>)
    /\ UNCHANGED <<conns, events>>

\* There is none yet: a token is accepted, for a document that is loaded, or not.
Authenticates(i, m, key) ==
    LET read == ServerReads(AfterVar(m.bytes))
        current == IF IsNothing(clock[i]) THEN <<>> ELSE <<AwarenessFor(key, clock[i])>> IN
    /\ read.kind = "token"
    /\ Understood(m, key, read)
    /\ \/ /\ i \in loaded
          /\ conns' = [conns EXCEPT ![i] = Append(@, key)]
          /\ Sends(i, <<AuthenticatedFor(key, <<0>>)>> \o current, <<>>)
          /\ UNCHANGED events
       \/ /\ Event
          /\ Sends(i, <<PermissionDeniedFor(key, <<1>>)>>, <<>>)
          /\ UNCHANGED conns
    /\ UNCHANGED <<has, clock>>

\* Anything else waits in incomingMessageQueue, for a token that does not come.
Queues(i, m) ==
    /\ ServerReads(AfterVar(m.bytes)).kind # "token"
    /\ UNCHANGED <<has, clock, conns, toClient, inbox, misread, events>>

\* The connection of the raw key or, for older providers, of the plain name.
ConnectionFor(i, rawKey) ==
    IF rawKey \in Range(conns[i]) THEN {rawKey} ELSE {DocumentName[rawKey]} \cap Range(conns[i])

\* ClientConnection.handleMessage
ServerReceives(i) ==
    /\ toServer[i] # <<>>
    /\ LET m == Head(toServer[i])  rawKey == ReadVar(m.bytes) IN
       \/ \E key \in ConnectionFor(i, rawKey) : ServerApplies(i, m, key)
       \/ ConnectionFor(i, rawKey) = {} /\ (Authenticates(i, m, rawKey) \/ Queues(i, m))
    /\ toServer' = [toServer EXCEPT ![i] = Tail(@)]
    /\ UNCHANGED <<loaded, opened>>

\* Mutant: a reply is asked for a first step, too.
RequestsFirstSyncAlways(kind) == kind \in {"step1", "step1 reply"}

\* Mutant: it never is.
RequestsFirstSyncNever(kind) == FALSE

RequestsFirstSync(kind) == kind = "step1"

\* The replies that go back over the channel: the server's own first step, then
\* what is written while the message is read.
Replies(i, read) ==
    CASE read.kind \in {"step1", "step1 reply"} ->
           (IF RequestsFirstSync(read.kind) THEN <<PublishedStep1(i, SyncReply, has[i])>> ELSE <<>>)
           \o LET d == Diff(has[i], read.body[1]) IN
              <<Published(i, <<Sync, Step2>> \o Var(<<d>>), "step2", <<d>>)>>
      [] read.kind = "queryAwareness" -> <<PublishedAwareness(i, clock[i])>>
      [] read.kind = "awareness" -> PublishAwareness(i, Newer(i, read.body))
      [] OTHER -> <<>>

\* handleIncomingMessage of the Redis extension.
PeerReceives(i) ==
    /\ inbox[i] # <<>>
    /\ LET m == Head(inbox[i])  inner == AfterVar(m.bytes)  read == ServerReads(AfterVar(inner)) IN
       /\ ReadVar(m.bytes) # Identifier[i]
       /\ Understood(m, ReadVar(inner), read)
       /\ Applies(i, read)
       /\ toClient' = [toClient EXCEPT ![i] = @ \o
            CASE read.kind = "step2" -> Broadcast(i, read.body[1])
              [] read.kind = "awareness" -> OnAwareness(i, Newer(i, read.body))
              [] read.kind = "broadcastStateless" -> ForEach(i, LAMBDA key : StatelessFor(key, read.body))
              [] OTHER -> <<>>]
       /\ inbox' = Publish(i, [inbox EXCEPT ![i] = Tail(@)], Replies(i, read))
    /\ UNCHANGED <<loaded, opened, conns, toServer, events>>

-----------------------------------------------------------------------------
\* What a provider answers: message.encoder starts with its effectiveName.
ClientReplies(p, read) ==
    CASE read.kind = "step1" ->
           LET d == Diff(has[p], read.body[1]) IN
           <<ToServer(p, <<Sync, Step2>> \o Var(<<d>>), "step2", <<d>>)>>
      [] read.kind = "tokenRequest" -> <<AuthenticationMessage(p)>>
      [] read.kind = "awareness" /\ p \in Aware /\ ~IsNothing(Newer(p, read.body)) ->
           <<AwarenessMessage(p, Newer(p, read.body))>>
      [] OTHER -> <<>>

\* onMessage of the websocket, then of the provider of the raw key.
ClientReceives(i) ==
    /\ toClient[i] # <<>>
    /\ LET m == Head(toClient[i])  rawKey == ReadVar(m.bytes) IN
       IF IsPing(m.bytes)
       THEN /\ Understood(m, <<>>, Unknown)
            /\ UNCHANGED <<has, clock, toServer>>
       ELSE \E p \in {q \in opened : At[q] = i /\ Keys[q] = rawKey} :
              LET read == ClientReads(AfterVar(m.bytes)) IN
              /\ Understood(m, Keys[p], read)
              /\ has' = IF read.kind \in {"step2", "update"} THEN Having(p, read.body[1]) ELSE has
              /\ clock' = IF read.kind = "awareness" /\ p \in Aware THEN Knowing(p, read.body) ELSE clock
              /\ SendToServer(p, ClientReplies(p, read))
    /\ toClient' = [toClient EXCEPT ![i] = Tail(@)]
    /\ UNCHANGED <<loaded, opened, conns, inbox, events>>

Next ==
    \/ \E p \in Providers : Open(p) \/ ClientEdits(p) \/ ClientMoves(p) \/ SendStateless(p)
    \/ \E i \in Instances :
         \/ Load(i) \/ ServerEdits(i) \/ StatelessBroadcast(i)
         \/ ServerReceives(i) \/ ClientReceives(i) \/ PeerReceives(i)
         \/ \E p \in Providers : RequestToken(i, Keys[p])

Spec == Init /\ [][Next]_vars

\* Messages arrive and are handled, and a document that is asked for is loaded.
Fairness ==
    \A i \in Instances :
        WF_vars(Load(i)) /\ WF_vars(ServerReceives(i)) /\ WF_vars(ClientReceives(i)) /\ WF_vars(PeerReceives(i))

FairSpec == Spec /\ Fairness

-----------------------------------------------------------------------------
Quiet == \A i \in Instances : toServer[i] = <<>> /\ toClient[i] = <<>> /\ inbox[i] = <<>>

\* Every message is taken for what it was meant, by the provider or connection it was
\* meant for: a document name whose length is the number of Ping, the version behind
\* a token, several sessions of one name on one websocket (RELEASE_NOTES_V4.md:430) and the
\* identifier before a message of the channel confuse neither side.
UnderstoodAsMeant == misread = {}

\* The exchange of steps, acknowledgements, awareness states and tokens comes to an
\* end, though each side answers the other, providers send on every awareness change
\* they receive, and a first step is published for every change: "same as Sync, but
\* won't trigger another 'SyncStep1'" (server/src/types.ts:67).
ConversationEnds == <>[]Quiet

\* When nothing is in transit any more, all instances, and the providers with a
\* connection, have the same document and know the same awareness states.
QuietAgree ==
    Quiet /\ loaded = Instances =>
        \A i, j \in Instances :
            /\ has[i] = has[j] /\ clock[i] = clock[j]
            /\ \A p \in Providers : At[p] = i /\ Keys[p] \in Range(conns[i]) =>
                 has[p] = has[i] /\ (p \in Aware => clock[p] = clock[i])
=============================================================================
