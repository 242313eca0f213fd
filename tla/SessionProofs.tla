---------------------------- MODULE SessionProofs ----------------------------
(***************************************************************************)
(* For every number of sessions, messages and raw keys: the types, that a  *)
(* connection of a document is found by its raw key and was made from its  *)
(* own payload, and that a websocket that is closed leaves no connection   *)
(* behind; that the session is the ordered exactly-once channel of module  *)
(* Channel, and the onDisconnect hook finds every message handled.  All    *)
(* but the types hold until a late rejection takes the entries of another  *)
(* session, as MCSessionRobbed shows they must be stated.                  *)
(***************************************************************************)
EXTENDS Session, FiniteSetTheorems, SequenceTheorems, TLAPS

\* Sessions are numbered in the order they start.
StartedInOrder ==
    \E n \in 0 .. MaxSessions : \A s \in Sessions : keyOf[s] # Undefined <=> s <= n

\* What a map has for a raw key is a session of that key, and only sessions that
\* have started are authenticated.
EntriesAreStarted ==
    /\ \A k \in Keys :
         /\ hookPayloads[k] # NoSession => keyOf[hookPayloads[k]] = k
         /\ documentConnections[k] # NoSession => keyOf[documentConnections[k]] = k
    /\ \A s \in Sessions : attempt[s] # "none" => keyOf[s] \in Keys

\* An attempt in progress has the payload of its raw key to itself, and no
\* connection stands in its way.
AttemptsAreAlone ==
    \A s \in Sessions : attempt[s] \in {"authenticating", "loading"} =>
        /\ hookPayloads[keyOf[s]] = s /\ documentConnections[keyOf[s]] = NoSession
        /\ attempt[s] = "loading" => payload[s] = s

\* A document has only connections that were made.
AttachedIsMade ==
    \A s \in attached : attempt[s] \in {"connecting", "connected", "denied"}

\* What holds whatever was rejected.
StartInv == TypeOK /\ StartedInOrder /\ EntriesAreStarted

\* The inductive invariant.
SessionInv ==
    /\ StartInv
    /\ robbed = {} => AttemptsAreAlone /\ AttachedIsMade
    /\ AttachedIsCurrent
    /\ ClosedIsDetached

LEMMA SessionsAreNumbers ==
    Sessions \subseteq Nat /\ NoSession \notin Sessions /\ IsFiniteSet(Sessions)
BY BoundsAssumption, FS_Interval DEF Sessions, NoSession

LEMMA SessionInitInv == Init => SessionInv
<1> SUFFICES ASSUME Init PROVE SessionInv
  OBVIOUS
<1>1. TypeOK
  BY SessionsAreNumbers, BoundsAssumption DEF Init, TypeOK
<1>2. StartedInOrder
  <2>1. \A s \in Sessions : keyOf[s] # Undefined <=> s <= 0
    BY DEF Init, Sessions
  <2> QED BY <2>1, BoundsAssumption DEF StartedInOrder
<1>3. EntriesAreStarted
  BY DEF Init, EntriesAreStarted
<1>4. AttemptsAreAlone /\ AttachedIsMade /\ AttachedIsCurrent /\ ClosedIsDetached
  BY DEF Init, AttemptsAreAlone, AttachedIsMade, AttachedIsCurrent, ClosedIsDetached
<1> QED BY <1>1, <1>2, <1>3, <1>4 DEF SessionInv, StartInv

-----------------------------------------------------------------------------
(* Types, and what has started.                                            *)

\* The number that StartSession gives is the first that is free.
LEMMA NextSessionIsFree ==
    ASSUME TypeOK, StartedInOrder,
           Cardinality({t \in Sessions : keyOf[t] # Undefined}) + 1 \in Sessions
    PROVE  LET s == Cardinality({t \in Sessions : keyOf[t] # Undefined}) + 1 IN
           \A t \in Sessions : keyOf[t] # Undefined <=> t <= s - 1
<1>1. PICK n \in 0 .. MaxSessions : \A s \in Sessions : keyOf[s] # Undefined <=> s <= n
  BY DEF StartedInOrder
<1>2. {t \in Sessions : keyOf[t] # Undefined} = 1 .. n
  BY <1>1, BoundsAssumption DEF Sessions
<1>3. Cardinality(1 .. n) = n
  BY <1>1, FS_Interval
<1>4. Cardinality({t \in Sessions : keyOf[t] # Undefined}) = n
  BY <1>2, <1>3
<1> QED BY <1>1, <1>4, SessionsAreNumbers, BoundsAssumption

\* A message adds to the queue of its raw key.
LEMMA MessageIsTyped ==
    ASSUME TypeOK, NEW kind \in Kinds, Receive(kind)
    PROVE  MessageOf(kind) \in Messages /\ received' \in 0 .. MaxMessages
BY BoundsAssumption DEF TypeOK, Receive, MessageOf, Messages

LEMMA CloseKeepsStart ==
    ASSUME StartInv, NEW C, NEW connections \in SUBSET Sessions,
           NEW table, table \in [Keys -> Sessions \cup {NoSession}],
           \A k \in Keys : table[k] # NoSession => keyOf[table[k]] = k,
           CloseConnections(C, connections, table, incomingMessageQueue)
    PROVE  /\ hookPayloads' \in [Keys -> Sessions \cup {NoSession}]
           /\ documentConnections' \in [Keys -> Sessions \cup {NoSession}]
           /\ incomingMessageQueue' \in [Keys -> {Undefined} \cup Seq(Messages)]
           /\ established' \subseteq Keys /\ attached' \subseteq Sessions
           /\ disconnect' \in [Sessions -> {"none", "draining", "hook", "done"}]
           /\ \A k \in Keys :
                /\ hookPayloads'[k] # NoSession => keyOf[hookPayloads'[k]] = k
                /\ documentConnections'[k] # NoSession => keyOf[documentConnections'[k]] = k
<1> DEFINE gone == {keyOf[s] : s \in C \cap connections}
<1>1. /\ hookPayloads' = [k \in Keys |-> IF k \in gone THEN NoSession ELSE hookPayloads[k]]
      /\ documentConnections' = [k \in Keys |-> IF k \in gone THEN NoSession ELSE table[k]]
      /\ incomingMessageQueue' =
            [k \in Keys |-> IF k \in gone THEN Undefined ELSE incomingMessageQueue[k]]
      /\ established' = established \ gone /\ attached' \subseteq connections
      /\ disconnect' = [s \in Sessions |-> IF s \in C \cap connections THEN "draining"
                                         ELSE disconnect[s]]
  BY DEF CloseConnections
<1> HIDE DEF gone
<1> QED BY <1>1 DEF StartInv, TypeOK, EntriesAreStarted

LEMMA StartReceiveConnected ==
    ASSUME StartInv, NEW k \in Keys, NEW kind \in Kinds, ReceiveConnected(k, kind)
    PROVE  StartInv'
<1>1. MessageOf(kind) \in Messages /\ received' \in 0 .. MaxMessages
  BY MessageIsTyped DEF StartInv, ReceiveConnected
<1> DEFINE s == ConnectionFor(k)
<1>2. s \in Sessions
  BY KeysAssumption DEF StartInv, TypeOK, ReceiveConnected, ConnectionFor
<1>3. /\ messageQueue' = [messageQueue EXCEPT ![s] = Append(messageQueue[s], MessageOf(kind))]
      /\ accepted' = [accepted EXCEPT ![s] = Append(accepted[s], MessageOf(kind))]
      /\ UNCHANGED <<ws, keyOf, clientVars, attempt, payload, connectionVars, tokenSync,
                     delivered, robbed>>
  BY DEF ReceiveConnected
<1> HIDE DEF s
<1>4. /\ messageQueue' \in [Sessions -> Seq(Messages)]
      /\ accepted' \in [Sessions -> Seq(Messages)]
  BY <1>1, <1>2, <1>3 DEF StartInv, TypeOK
<1>5. TypeOK'
  BY <1>1, <1>3, <1>4 DEF StartInv, TypeOK, clientVars, connectionVars
<1> QED BY <1>3, <1>5 DEF StartInv, StartedInOrder, EntriesAreStarted, clientVars

LEMMA StartReceiveQueueing ==
    ASSUME StartInv, NEW k \in Keys, NEW kind \in Kinds, ReceiveQueueing(k, kind)
    PROVE  StartInv'
<1> DEFINE m == MessageOf(kind)
           isFirst == incomingMessageQueue[k] = Undefined
           queue == IF isFirst THEN <<>> ELSE incomingMessageQueue[k]
<1>1. m \in Messages /\ received' \in 0 .. MaxMessages
  BY MessageIsTyped DEF StartInv, ReceiveQueueing
<1>2. queue \in Seq(Messages)
  BY DEF StartInv, TypeOK
<1>3. /\ keyOf' \in [Sessions -> Keys \cup {Undefined}]
      /\ hookPayloads' \in [Keys -> Sessions \cup {NoSession}]
      /\ StartedInOrder'
      /\ \A s \in Sessions : keyOf[s] # Undefined => keyOf'[s] = keyOf[s]
      /\ \A j \in Keys : hookPayloads'[j] # NoSession => keyOf'[hookPayloads'[j]] = j
  <2>1. CASE isFirst
    <3> DEFINE s == Cardinality({t \in Sessions : keyOf[t] # Undefined}) + 1
    <3>1. s \in Sessions /\ keyOf' = [keyOf EXCEPT ![s] = k]
          /\ hookPayloads' = [hookPayloads EXCEPT ![k] = s]
      BY <2>1 DEF ReceiveQueueing, StartSession
    <3>2. \A t \in Sessions : keyOf[t] # Undefined <=> t <= s - 1
      BY <3>1, NextSessionIsFree DEF StartInv
    <3> HIDE DEF s
    <3>3. s \in 0 .. MaxSessions /\ \A t \in Sessions : keyOf'[t] # Undefined <=> t <= s
      BY <3>1, <3>2, KeysAssumption, BoundsAssumption DEF StartInv, TypeOK, Sessions
    <3>4. keyOf[s] = Undefined
      BY <3>1, <3>2, SessionsAreNumbers
    <3> QED BY <3>1, <3>3, <3>4, KeysAssumption DEF StartInv, TypeOK, EntriesAreStarted, StartedInOrder
  <2>2. CASE ~isFirst
    BY <2>2 DEF ReceiveQueueing, StartInv, TypeOK, EntriesAreStarted, StartedInOrder
  <2> QED BY <2>1, <2>2
<1>4. documentConnections' = documentConnections
  BY DEF ReceiveQueueing
<1> DEFINE t == hookPayloads'[k]
<1>5. /\ established' \subseteq Keys
      /\ attempt' \in [Sessions -> {"none", "authenticating", "loading", "connecting",
                                 "connected", "rejected", "denied", "abandoned"}]
      /\ \A s \in Sessions : attempt'[s] # "none" => attempt[s] # "none" \/ s = t
      /\ incomingMessageQueue' \in [Keys -> {Undefined} \cup Seq(Messages)]
      /\ accepted' \in [Sessions -> Seq(Messages)]
  <2>1. CASE StartsAttempt(k, kind)
    <3>1. /\ established' = established \cup {k}
          /\ attempt' = [attempt EXCEPT ![t] = "authenticating"]
          /\ incomingMessageQueue' = [incomingMessageQueue EXCEPT ![k] = queue]
          /\ accepted' = accepted
      BY <2>1 DEF ReceiveQueueing
    <3> HIDE DEF t, queue
    <3> QED BY <1>2, <3>1 DEF StartInv, TypeOK
  <2>2. CASE ~StartsAttempt(k, kind)
    <3>1. /\ established' = established /\ attempt' = attempt
          /\ incomingMessageQueue' = [incomingMessageQueue EXCEPT ![k] = Append(queue, m)]
          /\ accepted' = [accepted EXCEPT ![t] = Append(accepted[t], m)]
      BY <2>2 DEF ReceiveQueueing
    <3> HIDE DEF t, queue, m
    <3>2. Append(queue, m) \in Seq(Messages)
      BY <1>1, <1>2
    <3>3. t \in Sessions => Append(accepted[t], m) \in Seq(Messages)
      BY <1>1 DEF StartInv, TypeOK
    <3> QED BY <3>1, <3>2, <3>3 DEF StartInv, TypeOK
  <2> QED BY <2>1, <2>2
<1>6. TypeOK'
  BY <1>1, <1>3, <1>4, <1>5 DEF ReceiveQueueing, StartInv, TypeOK, connectionVars
<1>7. EntriesAreStarted'
  <2>1. \A j \in Keys : documentConnections'[j] # NoSession => keyOf'[documentConnections'[j]] = j
    BY <1>3, <1>4, KeysAssumption DEF StartInv, EntriesAreStarted, TypeOK
  <2>2. \A s \in Sessions : attempt'[s] # "none" => keyOf'[s] \in Keys
    <3> SUFFICES ASSUME NEW s \in Sessions, attempt'[s] # "none" PROVE keyOf'[s] \in Keys
      OBVIOUS
    <3>1. CASE attempt[s] # "none"
      BY <3>1, <1>3, KeysAssumption DEF StartInv, EntriesAreStarted
    <3>2. CASE s = t
      BY <3>2, <1>3, SessionsAreNumbers
    <3> QED BY <3>1, <3>2, <1>5
  <2> QED BY <1>3, <2>1, <2>2 DEF EntriesAreStarted
<1> QED BY <1>3, <1>6, <1>7 DEF StartInv

\* What the rejection of s deletes.
LEMMA RejectKeepsStart ==
    ASSUME StartInv, NEW s \in Sessions, NEW outcome \in {"rejected", "denied"},
           attempt[s] # "none", Reject(s, outcome)
    PROVE  /\ hookPayloads' \in [Keys -> Sessions \cup {NoSession}]
           /\ incomingMessageQueue' \in [Keys -> {Undefined} \cup Seq(Messages)]
           /\ established' \subseteq Keys /\ robbed' \subseteq Sessions
           /\ attempt' \in [Sessions -> {"none", "authenticating", "loading", "connecting",
                                      "connected", "rejected", "denied", "abandoned"}]
           /\ \A t \in Sessions : attempt'[t] # "none" => attempt[t] # "none"
           /\ \A k \in Keys : hookPayloads'[k] # NoSession => hookPayloads'[k] = hookPayloads[k]
<1>1. keyOf[s] \in Keys
  BY DEF StartInv, EntriesAreStarted
<1> QED BY <1>1 DEF Reject, Victims, StartInv, TypeOK

\* The catch of handleQueueingMessage, with the variables it leaves alone.
LEMMA StartReject ==
    ASSUME StartInv, NEW s \in Sessions, NEW outcome \in {"rejected", "denied"},
           attempt[s] # "none", Reject(s, outcome),
           UNCHANGED <<ws, received, keyOf, documentConnections, payload, connectionVars,
                       messageQueue, tokenSync, accepted, delivered>>
    PROVE  StartInv'
<1>1. TypeOK'
  BY RejectKeepsStart DEF StartInv, TypeOK, connectionVars
<1>2. StartedInOrder'
  BY DEF StartInv, StartedInOrder
<1>3. EntriesAreStarted'
  BY RejectKeepsStart DEF StartInv, EntriesAreStarted
<1> QED BY <1>1, <1>2, <1>3 DEF StartInv

\* Connections are closed, and nothing else happens to what StartInv is about, except that
\* connections get messages to handle.
LEMMA StartClose ==
    ASSUME StartInv, NEW C, Close(C), UNCHANGED <<received, keyOf, attempt, payload, robbed>>,
           ws' \in {"open", "closing", "closed"}, tokenSync' \subseteq Sessions,
           messageQueue' \in [Sessions -> Seq(Messages)],
           delivered' \in [Sessions -> Seq(Messages)],
           accepted' \in [Sessions -> Seq(Messages)]
    PROVE  StartInv'
<1>1. CloseConnections(C, attached, documentConnections, incomingMessageQueue)
  BY DEF Close
<1>2. /\ hookPayloads' \in [Keys -> Sessions \cup {NoSession}]
      /\ documentConnections' \in [Keys -> Sessions \cup {NoSession}]
      /\ incomingMessageQueue' \in [Keys -> {Undefined} \cup Seq(Messages)]
      /\ established' \subseteq Keys /\ attached' \subseteq Sessions
      /\ disconnect' \in [Sessions -> {"none", "draining", "hook", "done"}]
      /\ \A k \in Keys :
           /\ hookPayloads'[k] # NoSession => keyOf[hookPayloads'[k]] = k
           /\ documentConnections'[k] # NoSession => keyOf[documentConnections'[k]] = k
  BY <1>1, CloseKeepsStart DEF StartInv, TypeOK, EntriesAreStarted
<1>3. TypeOK'
  BY <1>2 DEF StartInv, TypeOK
<1>4. StartedInOrder' /\ EntriesAreStarted'
  BY <1>2 DEF StartInv, StartedInOrder, EntriesAreStarted
<1> QED BY <1>3, <1>4 DEF StartInv

\* The connection of an authenticated session is made.
LEMMA StartDocumentLoaded ==
    ASSUME StartInv, NEW s \in Sessions, DocumentLoaded(s)
    PROVE  StartInv'
<1> DEFINE table == [documentConnections EXCEPT ![keyOf[s]] = s]
           connections == AttachConnection(s)
<1>1. keyOf[s] \in Keys
  BY DEF StartInv, EntriesAreStarted, DocumentLoaded
<1>2. /\ table \in [Keys -> Sessions \cup {NoSession}]
      /\ \A k \in Keys : table[k] # NoSession => keyOf[table[k]] = k
  BY <1>1 DEF StartInv, TypeOK, EntriesAreStarted
<1>3. connections \in SUBSET Sessions
  BY DEF AttachConnection, StartInv, TypeOK
<1>4. UNCHANGED <<ws, received, keyOf, payload, tokenSync, history>>
  BY DEF DocumentLoaded
<1>5. CASE WebSocketGone
  <2>1. /\ attempt' = [attempt EXCEPT ![s] = "abandoned"]
        /\ CloseConnections(Range(table), connections, table, incomingMessageQueue)
        /\ UNCHANGED messageQueue
    BY <1>5 DEF DocumentLoaded, CloseAtSetUp
  <2> HIDE DEF table, connections
  <2>2. /\ hookPayloads' \in [Keys -> Sessions \cup {NoSession}]
        /\ documentConnections' \in [Keys -> Sessions \cup {NoSession}]
        /\ incomingMessageQueue' \in [Keys -> {Undefined} \cup Seq(Messages)]
        /\ established' \subseteq Keys /\ attached' \subseteq Sessions
        /\ disconnect' \in [Sessions -> {"none", "draining", "hook", "done"}]
        /\ \A k \in Keys :
             /\ hookPayloads'[k] # NoSession => keyOf[hookPayloads'[k]] = k
             /\ documentConnections'[k] # NoSession => keyOf[documentConnections'[k]] = k
    BY <1>2, <1>3, <2>1, CloseKeepsStart
  <2>3. TypeOK'
    BY <1>4, <2>1, <2>2 DEF StartInv, TypeOK, history
  <2>4. StartedInOrder' /\ EntriesAreStarted'
    BY <1>1, <1>4, <2>1, <2>2 DEF StartInv, TypeOK, StartedInOrder, EntriesAreStarted
  <2> QED BY <2>3, <2>4 DEF StartInv
<1>6. CASE ~WebSocketGone
  <2>1. /\ attempt' = [attempt EXCEPT ![s] = "connecting"]
        /\ attached' = connections /\ documentConnections' = table
        /\ messageQueue' = [messageQueue EXCEPT ![s] = Drained(s)]
        /\ UNCHANGED <<hookPayloads, incomingMessageQueue, established, disconnect>>
    BY <1>6 DEF DocumentLoaded
  <2>2. Drained(s) \in Seq(Messages)
    BY <1>1 DEF Drained, StartInv, TypeOK
  <2> HIDE DEF table, connections
  <2>3. messageQueue' \in [Sessions -> Seq(Messages)]
    BY <2>1, <2>2 DEF StartInv, TypeOK
  <2>4. TypeOK'
    BY <1>2, <1>3, <1>4, <2>1, <2>3 DEF StartInv, TypeOK, history
  <2>5. StartedInOrder' /\ EntriesAreStarted'
    BY <1>1, <1>2, <1>4, <2>1 DEF StartInv, TypeOK, StartedInOrder, EntriesAreStarted
  <2> QED BY <2>4, <2>5 DEF StartInv
<1> QED BY <1>5, <1>6

LEMMA StartProcessMessage ==
    ASSUME StartInv, NEW s \in Sessions, ProcessMessage(s)
    PROVE  StartInv'
<1> DEFINE m == Head(messageQueue[s])
<1>1. messageQueue[s] \in Seq(Messages) /\ messageQueue[s] # <<>>
  BY DEF StartInv, TypeOK, ProcessMessage
<1>2. m \in Messages /\ Tail(messageQueue[s]) \in Seq(Messages)
  BY <1>1
<1>3. /\ messageQueue' = [messageQueue EXCEPT ![s] = Tail(messageQueue[s])]
      /\ delivered' = [delivered EXCEPT ![s] = Append(delivered[s], m)]
      /\ tokenSync' \in {tokenSync, tokenSync \cup {s}}
      /\ UNCHANGED <<ws, received, keyOf, attempt, payload, accepted, robbed>>
      /\ Close({s}) \/ UNCHANGED <<clientVars, connectionVars>>
  BY DEF ProcessMessage
<1> HIDE DEF m
<1>4. messageQueue' \in [Sessions -> Seq(Messages)]
  BY <1>2, <1>3 DEF StartInv, TypeOK
<1>5. delivered' \in [Sessions -> Seq(Messages)]
  BY <1>2, <1>3 DEF StartInv, TypeOK
<1>6. tokenSync' \subseteq Sessions
  BY <1>3 DEF StartInv, TypeOK
<1>7. CASE Close({s})
  BY <1>3, <1>4, <1>5, <1>6, <1>7, StartClose DEF StartInv, TypeOK
<1>8. CASE UNCHANGED <<clientVars, connectionVars>>
  BY <1>3, <1>4, <1>5, <1>6, <1>8
     DEF StartInv, TypeOK, StartedInOrder, EntriesAreStarted, clientVars, connectionVars
<1> QED BY <1>3, <1>7, <1>8

LEMMA StartNext ==
    ASSUME StartInv, [Next]_vars
    PROVE  StartInv'
<1> USE DEF vars, clientVars, connectionVars, history
<1>1. CASE \E k \in Keys, kind \in Kinds : ReceiveConnected(k, kind) \/ ReceiveQueueing(k, kind)
  BY <1>1, StartReceiveConnected, StartReceiveQueueing
<1>2. ASSUME NEW s \in Sessions, Authenticate(s) PROVE StartInv'
  <2>1. keyOf[s] \in Keys
    BY <1>2 DEF StartInv, EntriesAreStarted, Authenticate
  <2>2. CASE hookPayloads[keyOf[s]] # NoSession
    <3>1. TypeOK'
      BY <1>2, <2>1, <2>2 DEF Authenticate, StartInv, TypeOK
    <3>2. StartedInOrder' /\ EntriesAreStarted'
      BY <1>2, <2>1, <2>2 DEF Authenticate, StartInv, TypeOK, StartedInOrder, EntriesAreStarted
    <3> QED BY <3>1, <3>2 DEF StartInv
  <2>3. CASE ~(hookPayloads[keyOf[s]] # NoSession)
    BY <1>2, <2>3, StartReject DEF Authenticate
  <2> QED BY <2>2, <2>3
<1>3. ASSUME NEW s \in Sessions, HookRejects(s) PROVE StartInv'
  BY <1>3, StartReject DEF HookRejects
<1>4. CASE \E s \in Sessions : DocumentLoaded(s)
  BY <1>4, StartDocumentLoaded
<1>5. ASSUME NEW s \in Sessions, ConnectedResolves(s) PROVE StartInv'
  <2>1. keyOf[s] \in Keys
    BY <1>5 DEF StartInv, EntriesAreStarted, ConnectedResolves
  <2> QED BY <1>5, <2>1 DEF ConnectedResolves, StartInv, TypeOK, StartedInOrder, EntriesAreStarted
<1>6. ASSUME NEW s \in Sessions, ConnectedRejects(s) PROVE StartInv'
  BY <1>6, StartReject DEF ConnectedRejects
<1>7. CASE \E s \in Sessions : ProcessMessage(s)
  BY <1>7, StartProcessMessage
<1>8. ASSUME NEW s \in Sessions, TokenSyncSettles(s) PROVE StartInv'
  <2>1. CASE Close({s})
    BY <1>8, <2>1, StartClose DEF TokenSyncSettles, StartInv, TypeOK
  <2>2. CASE UNCHANGED <<clientVars, connectionVars>>
    BY <1>8, <2>2 DEF TokenSyncSettles, StartInv, TypeOK, StartedInOrder, EntriesAreStarted
  <2> QED BY <1>8, <2>1, <2>2 DEF TokenSyncSettles
<1>9. ASSUME NEW s \in Sessions, CallOnDisconnect(s) \/ Disconnected(s) PROVE StartInv'
  BY <1>9 DEF CallOnDisconnect, Disconnected, StartInv, TypeOK, StartedInOrder, EntriesAreStarted
<1>10. CASE WebSocketCloses
  BY <1>10 DEF WebSocketCloses, StartInv, TypeOK, StartedInOrder, EntriesAreStarted
<1>11. CASE HandleClose
  BY <1>11, StartClose DEF HandleClose, CloseAll, StartInv, TypeOK
<1>12. CASE Check
  BY <1>12, StartClose DEF Check, CloseAll, StartInv, TypeOK
<1>13. CASE UNCHANGED vars
  BY <1>13 DEF StartInv, TypeOK, StartedInOrder, EntriesAreStarted
<1> QED BY <1>1, <1>2, <1>3, <1>4, <1>5, <1>6, <1>7, <1>8, <1>9, <1>10, <1>11, <1>12, <1>13 DEF Next

-----------------------------------------------------------------------------
(* Who is attached, until a session is robbed.                             *)

\* What SessionInv says of the sessions, without the exception.
AloneInv == AttemptsAreAlone /\ AttachedIsMade
            /\ (\A s \in attached : documentConnections[keyOf[s]] = s /\ payload[s] = s)
            /\ (ws = "closed" => attached = {})

LEMMA AttachedHasKey ==
    ASSUME StartInv, AloneInv
    PROVE  \A s \in attached :
              s \in Sessions /\ keyOf[s] \in Keys /\ documentConnections[keyOf[s]] = s
<1> SUFFICES ASSUME NEW s \in attached
             PROVE  s \in Sessions /\ keyOf[s] \in Keys /\ documentConnections[keyOf[s]] = s
  OBVIOUS
<1>1. s \in Sessions /\ attempt[s] # "none"
  BY DEF StartInv, TypeOK, AloneInv, AttachedIsMade
<1> QED BY <1>1 DEF StartInv, EntriesAreStarted, AloneInv

\* Closing connections of the document disturbs no attempt: the raw key of an attempt
\* has no connection.
LEMMA CloseKeepsAlone ==
    ASSUME StartInv, AloneInv, NEW C, Close(C), UNCHANGED <<keyOf, attempt, payload>>,
           ws' = "closed" => (ws = "closed" \/ attached' = {})
    PROVE  AloneInv'
<1> DEFINE gone == {keyOf[s] : s \in C \cap attached}
<1>1. /\ hookPayloads' = [k \in Keys |-> IF k \in gone THEN NoSession ELSE hookPayloads[k]]
      /\ documentConnections' = [k \in Keys |-> IF k \in gone THEN NoSession ELSE documentConnections[k]]
      /\ attached' = attached \ (C \cap attached)
  BY DEF Close, CloseConnections
<1>2. \A s \in Sessions : attempt[s] \in {"authenticating", "loading"} => keyOf[s] \in Keys \ gone
  BY SessionsAreNumbers DEF StartInv, TypeOK, EntriesAreStarted, AloneInv, AttemptsAreAlone
<1>3. \A s \in attached' : keyOf[s] \in Keys \ gone
  BY <1>1, AttachedHasKey
<1> HIDE DEF gone
<1>4. AttemptsAreAlone' /\ AttachedIsMade'
  BY <1>1, <1>2 DEF AloneInv, AttemptsAreAlone, AttachedIsMade
<1>5. \A s \in attached' : documentConnections'[keyOf[s]] = s /\ payload'[s] = s
  BY <1>1, <1>3 DEF AloneInv
<1>6. ws' = "closed" => attached' = {}
  BY <1>1 DEF AloneInv
<1> QED BY <1>4, <1>5, <1>6 DEF AloneInv

LEMMA AloneReceiveQueueing ==
    ASSUME StartInv, StartInv', AloneInv, NEW k \in Keys, NEW kind \in Kinds,
           ReceiveQueueing(k, kind)
    PROVE  AloneInv'
<1> DEFINE t == hookPayloads'[k]
<1>1. documentConnections[k] = NoSession /\ documentConnections' = documentConnections
  BY DEF ReceiveQueueing, ConnectionFor
<1>2. /\ \A s \in Sessions : keyOf[s] # Undefined => keyOf'[s] = keyOf[s]
      /\ \A j \in Keys : hookPayloads[j] # NoSession => hookPayloads'[j] = hookPayloads[j]
  <2>1. CASE incomingMessageQueue[k] = Undefined
    <3> DEFINE s == Cardinality({u \in Sessions : keyOf[u] # Undefined}) + 1
    <3>1. s \in Sessions /\ keyOf' = [keyOf EXCEPT ![s] = k]
          /\ hookPayloads[k] = NoSession /\ hookPayloads' = [hookPayloads EXCEPT ![k] = s]
      BY <2>1 DEF ReceiveQueueing, StartSession
    <3>2. \A u \in Sessions : keyOf[u] # Undefined <=> u <= s - 1
      BY <3>1, NextSessionIsFree DEF StartInv
    <3> HIDE DEF s
    <3>3. keyOf[s] = Undefined
      BY <3>1, <3>2, SessionsAreNumbers
    <3> QED BY <3>1, <3>3 DEF StartInv, TypeOK
  <2>2. CASE ~(incomingMessageQueue[k] = Undefined)
    BY <2>2 DEF ReceiveQueueing
  <2> QED BY <2>1, <2>2
<1>3. UNCHANGED <<ws, payload, attached>>
  BY DEF ReceiveQueueing, connectionVars
<1>4. \A s \in attached : attempt[s] # "none" /\ keyOf[s] \in Keys /\ keyOf'[s] = keyOf[s]
  <2>1. \A s \in attached : attempt[s] # "none"
    BY DEF AloneInv, AttachedIsMade
  <2> QED BY <2>1, <1>2, AttachedHasKey, KeysAssumption
<1>5. attempt' = attempt \/ attempt' = [attempt EXCEPT ![t] = "authenticating"]
  BY DEF ReceiveQueueing
<1> HIDE DEF t
<1>6. t \in Sessions => keyOf'[t] = k
  BY SessionsAreNumbers DEF t, StartInv, EntriesAreStarted
<1>7. \A s \in attached : s # t
  BY <1>1, <1>4, <1>6, SessionsAreNumbers DEF AloneInv, StartInv, TypeOK
<1>8. AttachedIsMade'
  BY <1>3, <1>5, <1>7 DEF AloneInv, AttachedIsMade, StartInv, TypeOK
<1>9. AttemptsAreAlone'
  <2> SUFFICES ASSUME NEW s \in Sessions, attempt'[s] \in {"authenticating", "loading"}
               PROVE  /\ hookPayloads'[keyOf'[s]] = s /\ documentConnections'[keyOf'[s]] = NoSession
                      /\ attempt'[s] = "loading" => payload'[s] = s
    BY DEF AttemptsAreAlone
  <2>1. CASE attempt'[s] = attempt[s]
    <3>1. keyOf[s] \in Keys /\ keyOf'[s] = keyOf[s]
      BY <2>1, <1>2, KeysAssumption DEF StartInv, EntriesAreStarted
    <3> QED BY <2>1, <3>1, <1>1, <1>2, <1>3, SessionsAreNumbers DEF AloneInv, AttemptsAreAlone
  <2>2. CASE attempt'[s] # attempt[s]
    <3>1. s = t /\ attempt'[s] = "authenticating"
      BY <2>2, <1>5 DEF StartInv, TypeOK
    <3> QED BY <3>1, <1>1, <1>6 DEF t
  <2> QED BY <2>1, <2>2
<1> QED BY <1>1, <1>3, <1>4, <1>8, <1>9 DEF AloneInv

\* Rejecting an attempt that is alone takes nothing from another session.
LEMMA RejectKeepsAlone ==
    ASSUME StartInv, AloneInv, NEW s \in Sessions, NEW outcome \in {"rejected", "denied"},
           attempt[s] \in {"authenticating", "loading"} \/ outcome = "denied",
           attempt[s] # "none", Reject(s, outcome), robbed' = {},
           UNCHANGED <<ws, keyOf, documentConnections, payload, attached>>
    PROVE  AloneInv'
<1>1. keyOf[s] \in Keys
  BY DEF StartInv, EntriesAreStarted
<1>2. hookPayloads[keyOf[s]] \in {s, NoSession}
  BY DEF Reject, Victims
<1>3. /\ attempt' = [attempt EXCEPT ![s] = outcome]
      /\ hookPayloads' = [hookPayloads EXCEPT ![keyOf[s]] = NoSession]
  BY DEF Reject
<1>4. \A t \in Sessions : t # s /\ attempt[t] \in {"authenticating", "loading"} =>
         keyOf[t] \in Keys /\ keyOf[t] # keyOf[s]
  BY <1>2, SessionsAreNumbers DEF StartInv, EntriesAreStarted, AloneInv, AttemptsAreAlone
<1>5. AttemptsAreAlone'
  BY <1>1, <1>3, <1>4 DEF AloneInv, AttemptsAreAlone, StartInv, TypeOK
<1>6. AttachedIsMade'
  BY <1>3 DEF AloneInv, AttachedIsMade, StartInv, TypeOK
<1> QED BY <1>5, <1>6 DEF AloneInv

LEMMA AloneDocumentLoaded ==
    ASSUME StartInv, AloneInv, NEW s \in Sessions, DocumentLoaded(s)
    PROVE  AloneInv'
<1> DEFINE table == [documentConnections EXCEPT ![keyOf[s]] = s]
           connections == AttachConnection(s)
           gone == {keyOf[t] : t \in Range(table) \cap connections}
<1>1. /\ keyOf[s] \in Keys /\ attempt[s] = "loading"
      /\ hookPayloads[keyOf[s]] = s /\ documentConnections[keyOf[s]] = NoSession /\ payload[s] = s
  BY DEF StartInv, EntriesAreStarted, DocumentLoaded, AloneInv, AttemptsAreAlone
<1>2. \A t \in Sessions \ {s} : attempt[t] \in {"authenticating", "loading"} =>
         keyOf[t] \in Keys /\ keyOf[t] # keyOf[s]
  BY <1>1 DEF StartInv, EntriesAreStarted, AloneInv, AttemptsAreAlone
<1>3. \A t \in attached : t # s /\ keyOf[t] \in Keys /\ keyOf[t] # keyOf[s]
  BY <1>1, AttachedHasKey, SessionsAreNumbers
<1>4. connections \subseteq attached \cup {s} /\ (~WebSocketGone => connections = attached \cup {s})
  BY DEF AttachConnection, WebSocketGone
<1>5. \A t \in connections : table[keyOf[t]] = t /\ payload[t] = t /\ keyOf[t] \in Keys
  BY <1>1, <1>3, <1>4 DEF AloneInv, StartInv, TypeOK
<1>6. UNCHANGED <<ws, keyOf, payload>>
  BY DEF DocumentLoaded
<1>7. CASE WebSocketGone
  <2>1. /\ attempt' = [attempt EXCEPT ![s] = "abandoned"]
        /\ attached' = connections \ (Range(table) \cap connections)
        /\ hookPayloads' = [k \in Keys |-> IF k \in gone THEN NoSession ELSE hookPayloads[k]]
        /\ documentConnections' = [k \in Keys |-> IF k \in gone THEN NoSession ELSE table[k]]
    BY <1>7 DEF DocumentLoaded, CloseAtSetUp, CloseConnections
  <2>2. connections \subseteq Range(table)
    BY <1>5 DEF Range, StartInv, TypeOK
  <2>3. attached' = {}
    BY <2>1, <2>2
  <2>4. \A t \in Sessions \ {s} : attempt[t] \in {"authenticating", "loading"} =>
           keyOf[t] \notin gone
    <3> SUFFICES ASSUME NEW t \in Sessions \ {s}, attempt[t] \in {"authenticating", "loading"},
                        NEW u \in connections, keyOf[t] = keyOf[u]
                 PROVE  FALSE
      OBVIOUS
    <3>1. u \in attached
      BY <1>2, <1>4
    <3>2. documentConnections[keyOf[t]] = NoSession
      BY DEF AloneInv, AttemptsAreAlone
    <3>3. documentConnections[keyOf[u]] = u /\ u \in Sessions
      BY <3>1, AttachedHasKey
    <3> QED BY <3>2, <3>3, SessionsAreNumbers
  <2> HIDE DEF gone, connections, table
  <2>5. AttemptsAreAlone'
    BY <1>2, <1>6, <2>1, <2>4 DEF AloneInv, AttemptsAreAlone, StartInv, TypeOK, table
  <2> QED BY <1>6, <2>3, <2>5 DEF AloneInv, AttachedIsMade
<1>8. CASE ~WebSocketGone
  <2>1. /\ attempt' = [attempt EXCEPT ![s] = "connecting"]
        /\ attached' = connections /\ documentConnections' = table
        /\ hookPayloads' = hookPayloads
    BY <1>8 DEF DocumentLoaded
  <2>2. AttachedIsMade'
    BY <1>3, <1>4, <2>1 DEF AloneInv, AttachedIsMade, StartInv, TypeOK
  <2>3. AttemptsAreAlone'
    BY <1>2, <1>6, <2>1 DEF AloneInv, AttemptsAreAlone, StartInv, TypeOK
  <2>4. ws' # "closed"
    BY <1>6, <1>8 DEF WebSocketGone
  <2> QED BY <1>5, <1>6, <2>1, <2>2, <2>3, <2>4 DEF AloneInv
<1> QED BY <1>7, <1>8

LEMMA AloneNext ==
    ASSUME StartInv, StartInv', AloneInv, [Next]_vars, robbed' = {}
    PROVE  AloneInv'
<1> USE DEF vars, clientVars, connectionVars, history
<1>1. ASSUME NEW k \in Keys, NEW kind \in Kinds, ReceiveConnected(k, kind) PROVE AloneInv'
  BY <1>1 DEF ReceiveConnected, AloneInv, AttemptsAreAlone, AttachedIsMade
<1>2. CASE \E k \in Keys, kind \in Kinds : ReceiveQueueing(k, kind)
  BY <1>2, AloneReceiveQueueing
<1>3. ASSUME NEW s \in Sessions, Authenticate(s) PROVE AloneInv'
  <2>1. attempt[s] = "authenticating" /\ keyOf[s] \in Keys /\ hookPayloads[keyOf[s]] = s
    BY <1>3 DEF Authenticate, StartInv, EntriesAreStarted, AloneInv, AttemptsAreAlone
  <2>2. /\ attempt' = [attempt EXCEPT ![s] = "loading"] /\ payload' = [payload EXCEPT ![s] = s]
        /\ UNCHANGED <<ws, keyOf, hookPayloads, documentConnections, attached>>
    BY <1>3, <2>1, SessionsAreNumbers DEF Authenticate
  <2>3. \A t \in attached : t # s
    BY <2>1 DEF AloneInv, AttachedIsMade
  <2>4. AttemptsAreAlone' /\ AttachedIsMade'
    BY <2>1, <2>2, <2>3 DEF AloneInv, AttemptsAreAlone, AttachedIsMade, StartInv, TypeOK
  <2> QED BY <2>2, <2>3, <2>4 DEF AloneInv, StartInv, TypeOK
<1>4. ASSUME NEW s \in Sessions, HookRejects(s) PROVE AloneInv'
  BY <1>4, RejectKeepsAlone DEF HookRejects
<1>5. CASE \E s \in Sessions : DocumentLoaded(s)
  BY <1>5, AloneDocumentLoaded
<1>6. ASSUME NEW s \in Sessions, ConnectedResolves(s) PROVE AloneInv'
  BY <1>6 DEF ConnectedResolves, AloneInv, AttemptsAreAlone, AttachedIsMade, StartInv, TypeOK
<1>7. ASSUME NEW s \in Sessions, ConnectedRejects(s) PROVE AloneInv'
  BY <1>7, RejectKeepsAlone DEF ConnectedRejects
<1>8. ASSUME NEW s \in Sessions, ProcessMessage(s) PROVE AloneInv'
  <2>1. CASE Close({s})
    BY <1>8, <2>1, CloseKeepsAlone DEF ProcessMessage
  <2>2. CASE UNCHANGED <<clientVars, connectionVars>>
    BY <1>8, <2>2 DEF ProcessMessage, AloneInv, AttemptsAreAlone, AttachedIsMade
  <2> QED BY <1>8, <2>1, <2>2 DEF ProcessMessage
<1>9. ASSUME NEW s \in Sessions, TokenSyncSettles(s) PROVE AloneInv'
  <2>1. CASE Close({s})
    BY <1>9, <2>1, CloseKeepsAlone DEF TokenSyncSettles
  <2>2. CASE UNCHANGED <<clientVars, connectionVars>>
    BY <1>9, <2>2 DEF TokenSyncSettles, AloneInv, AttemptsAreAlone, AttachedIsMade
  <2> QED BY <1>9, <2>1, <2>2 DEF TokenSyncSettles
<1>10. ASSUME NEW s \in Sessions, CallOnDisconnect(s) \/ Disconnected(s) PROVE AloneInv'
  BY <1>10 DEF CallOnDisconnect, Disconnected, AloneInv, AttemptsAreAlone, AttachedIsMade
<1>11. CASE WebSocketCloses
  BY <1>11 DEF WebSocketCloses, AloneInv, AttemptsAreAlone, AttachedIsMade
<1>12. CASE HandleClose
  \* Every connection of the document is in documentConnections, and so is closed.
  <2>1. attached \subseteq Range(documentConnections) \ {NoSession}
    <3> SUFFICES ASSUME NEW s \in attached PROVE s \in Range(documentConnections) \ {NoSession}
      OBVIOUS
    <3>1. /\ s \in Sessions /\ keyOf[s] \in Keys /\ documentConnections[keyOf[s]] = s
          /\ DOMAIN documentConnections = Keys
      BY AttachedHasKey DEF StartInv, TypeOK
    <3> QED BY <3>1, SessionsAreNumbers DEF Range
  <2>2. attached' = {}
    BY <1>12, <2>1 DEF HandleClose, CloseAll, Close, CloseConnections
  <2> QED BY <1>12, <2>2, CloseKeepsAlone DEF HandleClose, CloseAll
<1>13. CASE Check
  BY <1>13, CloseKeepsAlone DEF Check, CloseAll
<1>14. CASE UNCHANGED vars
  BY <1>14 DEF AloneInv, AttemptsAreAlone, AttachedIsMade
<1> QED BY <1>1, <1>2, <1>3, <1>4, <1>5, <1>6, <1>7, <1>8, <1>9, <1>10, <1>11, <1>12, <1>13, <1>14
        DEF Next

\* A session that has been robbed stays so.
LEMMA RobbedGrows ==
    ASSUME [Next]_vars
    PROVE  robbed \subseteq robbed'
BY DEF Next, vars, history, ReceiveConnected, ReceiveQueueing, Authenticate, HookRejects, Reject,
       DocumentLoaded, ConnectedResolves, ConnectedRejects, ProcessMessage, TokenSyncSettles,
       CallOnDisconnect, Disconnected, WebSocketCloses, HandleClose, Check

LEMMA SessionNextInv ==
    ASSUME SessionInv, [Next]_vars
    PROVE  SessionInv'
<1>1. StartInv'
  BY StartNext DEF SessionInv
<1>2. robbed' = {} => AloneInv'
  BY <1>1, AloneNext, RobbedGrows DEF SessionInv, AloneInv, AttachedIsCurrent, ClosedIsDetached
<1> QED BY <1>1, <1>2 DEF SessionInv, AloneInv, AttachedIsCurrent, ClosedIsDetached

THEOREM SessionInvariant == Spec => []SessionInv
<1>1. SessionInv /\ [Next]_vars => SessionInv'
  BY SessionNextInv
<1> QED BY <1>1, SessionInitInv, PTL DEF Spec

\* For any number of sessions, messages and raw keys: every variable of the session has
\* the type that ClientConnection.ts gives it.
THEOREM SessionTypeOK == Spec => []TypeOK
<1>1. SessionInv => TypeOK
  BY DEF SessionInv, StartInv
<1> QED BY <1>1, SessionInvariant, PTL

\* A connection of a document is the one that its raw key finds, made from the payload
\* that its own hooks authenticated (ClientConnection.ts:275).
THEOREM SessionAttachedIsCurrent == Spec => []AttachedIsCurrent
<1>1. SessionInv => AttachedIsCurrent
  BY DEF SessionInv
<1> QED BY <1>1, SessionInvariant, PTL

\* A websocket that has closed leaves no connection behind, whatever hooks and loads were
\* in progress (ClientConnection.ts:277-285).
THEOREM SessionClosedIsDetached == Spec => []ClosedIsDetached
<1>1. SessionInv => ClosedIsDetached
  BY DEF SessionInv
<1> QED BY <1>1, SessionInvariant, PTL

-----------------------------------------------------------------------------
(* The session is the ordered exactly-once channel of module Channel.      *)

Made == {"connecting", "connected", "denied"}
Waiting == {"none", "authenticating", "loading"}

\* The payload of a raw key is that of the session that has the connection, or of one
\* that waits for it, and the queue exists as long as the payload.
EntriesBelongTogether ==
    \A k \in Keys :
        /\ documentConnections[k] # NoSession =>
             /\ hookPayloads[k] \in {documentConnections[k], NoSession}
             /\ attempt[documentConnections[k]] \in Made \cup {"abandoned"}
        /\ hookPayloads[k] # NoSession /\ documentConnections[k] = NoSession =>
             attempt[hookPayloads[k]] \in Waiting
        /\ hookPayloads[k] = NoSession => incomingMessageQueue[k] = Undefined

\* What a session has accepted waits in the queue of its raw key ...
WaitingIsQueued ==
    \A k \in Keys : LET s == hookPayloads[k] IN
        s # NoSession /\ attempt[s] \in Waiting =>
            incomingMessageQueue[k] # Undefined /\ accepted[s] = incomingMessageQueue[k]

\* ... until its connection is made; then it is handled, in that order, and what is not
\* handled yet is in the connection's queue.
AcceptedIsInOrder ==
    \A s \in Sessions :
        /\ keyOf[s] = Undefined => accepted[s] = <<>>
        /\ attempt[s] \in Waiting \cup {"rejected"} =>
             delivered[s] = <<>> /\ messageQueue[s] = <<>> /\ disconnect[s] = "none"
        /\ attempt[s] \in Made => accepted[s] = delivered[s] \o messageQueue[s]

\* A connection that is closed is given no message any more; an abandoned one has none.
ClosedIsLeft ==
    \A s \in Sessions :
        /\ disconnect[s] # "none" => \A k \in Keys : documentConnections[k] # s
        /\ disconnect[s] \in {"hook", "done"} => messageQueue[s] = <<>>
        /\ attempt[s] = "abandoned" /\ (disconnect[s] # "none" \/ ~DocumentAwareness) =>
             /\ delivered[s] = <<>> /\ messageQueue[s] = <<>>
             /\ \A k \in Keys : documentConnections[k] # s /\ hookPayloads[k] # s

\* The inductive invariant, with SessionInv.
QueueInv == EntriesBelongTogether /\ WaitingIsQueued /\ AcceptedIsInOrder /\ ClosedIsLeft
ChannelInv == SessionInv /\ (robbed = {} => QueueInv)

LEMMA ChannelInitInv == Init => ChannelInv
BY SessionInitInv DEF Init, ChannelInv, QueueInv, EntriesBelongTogether, WaitingIsQueued,
   AcceptedIsInOrder, ClosedIsLeft, Made, Waiting

-----------------------------------------------------------------------------
(* Queues.                                                                 *)

\* Handling the first message of a queue moves it to the messages handled before.
LEMMA HeadMoves ==
    ASSUME NEW S, NEW done \in Seq(S), NEW queue \in Seq(S), queue # <<>>
    PROVE  Append(done, Head(queue)) \o Tail(queue) = done \o queue
<1> DEFINE left == Append(done, Head(queue)) \o Tail(queue)
           right == done \o queue
<1>1. /\ Head(queue) = queue[1] /\ Tail(queue) \in Seq(S) /\ Len(Tail(queue)) = Len(queue) - 1
      /\ \A i \in 1 .. Len(Tail(queue)) : Tail(queue)[i] = queue[i + 1]
  BY HeadTailProperties
<1>2. Head(queue) \in S
  BY HeadTailProperties
<1>3. /\ Append(done, Head(queue)) \in Seq(S)
      /\ Len(Append(done, Head(queue))) = Len(done) + 1
      /\ \A i \in 1 .. Len(done) : Append(done, Head(queue))[i] = done[i]
      /\ Append(done, Head(queue))[Len(done) + 1] = Head(queue)
  BY <1>2, AppendProperties
<1>4. /\ left \in Seq(S) /\ Len(left) = Len(done) + Len(queue)
      /\ \A i \in 1 .. Len(done) + Len(queue) :
            left[i] = IF i <= Len(done) + 1 THEN Append(done, Head(queue))[i]
                      ELSE Tail(queue)[i - (Len(done) + 1)]
  BY <1>1, <1>3, ConcatProperties
<1>5. /\ right \in Seq(S) /\ Len(right) = Len(done) + Len(queue)
      /\ \A i \in 1 .. Len(done) + Len(queue) :
            right[i] = IF i <= Len(done) THEN done[i] ELSE queue[i - Len(done)]
  BY ConcatProperties
<1> HIDE DEF left, right
<1>6. \A i \in 1 .. Len(left) : left[i] = right[i]
  <2> SUFFICES ASSUME NEW i \in 1 .. Len(left) PROVE left[i] = right[i]
    OBVIOUS
  <2>1. Len(done) \in Nat /\ Len(queue) \in Nat
    OBVIOUS
  <2>2. CASE i <= Len(done)
    BY <2>1, <2>2, <1>3, <1>4, <1>5
  <2>3. CASE i = Len(done) + 1
    <3>1. i \in 1 .. Len(done) + Len(queue) /\ i <= Len(done) + 1 /\ ~(i <= Len(done)) /\ i - Len(done) = 1
      BY <2>1, <2>3, <1>4
    <3>2. left[i] = Append(done, Head(queue))[Len(done) + 1]
      BY <3>1, <2>3, <1>4
    <3>3. right[i] = queue[1]
      BY <3>1, <1>5
    <3> QED BY <3>2, <3>3, <1>1, <1>3
  <2>4. CASE i > Len(done) + 1
    <3>1. i - (Len(done) + 1) \in 1 .. Len(Tail(queue))
      BY <2>1, <2>4, <1>1, <1>4
    <3>2. Tail(queue)[i - (Len(done) + 1)] = queue[i - Len(done)]
      BY <2>1, <3>1, <1>1
    <3> QED BY <2>1, <2>4, <3>2, <1>4, <1>5
  <2> QED BY <2>1, <2>2, <2>3, <2>4, <1>4
<1>7. left = right
  BY <1>4, <1>5, <1>6, SeqEqual
<1> QED BY <1>7 DEF left, right

\* The first message that is not handled is the one after those that are.
LEMMA HeadIsNext ==
    ASSUME NEW S, NEW done \in Seq(S), NEW queue \in Seq(S), queue # <<>>
    PROVE  Len(done) < Len(done \o queue) /\ (done \o queue)[Len(done) + 1] = Head(queue)
<1>1. Len(queue) > 0 /\ Len(queue) \in Nat /\ Len(done) \in Nat /\ Head(queue) = queue[1]
  BY EmptySeq
<1>2. /\ Len(done \o queue) = Len(done) + Len(queue)
      /\ \A i \in 1 .. Len(done) + Len(queue) :
            (done \o queue)[i] = IF i <= Len(done) THEN done[i] ELSE queue[i - Len(done)]
  BY ConcatProperties
<1>3. Len(done) + 1 \in 1 .. Len(done) + Len(queue) /\ Len(done) + 1 - Len(done) = 1
      /\ ~(Len(done) + 1 <= Len(done))
  BY <1>1
<1>4. (done \o queue)[Len(done) + 1] = queue[1]
  BY <1>2, <1>3
<1> QED BY <1>1, <1>2, <1>4

\* A message that comes is the last to be handled.
LEMMA NewIsLast ==
    ASSUME NEW S, NEW done \in Seq(S), NEW queue \in Seq(S), NEW m \in S
    PROVE  done \o Append(queue, m) = Append(done \o queue, m)
<1>1. done \o queue \in Seq(S) /\ <<m>> \in Seq(S)
  BY ConcatProperties
<1>2. done \o Append(queue, m) = done \o (queue \o <<m>>)
  BY AppendIsConcat
<1>3. Append(done \o queue, m) = (done \o queue) \o <<m>>
  BY <1>1, AppendIsConcat
<1> QED BY <1>1, <1>2, <1>3, ConcatAssociative

-----------------------------------------------------------------------------
(* The queues of the session.                                              *)

\* Connections are closed, and connections may have handled messages.
LEMMA CloseKeepsQueue ==
    ASSUME StartInv, AloneInv, QueueInv, NEW C, Close(C), UNCHANGED <<keyOf, attempt, accepted>>,
           \A s \in Sessions : messageQueue[s] = <<>> =>
              messageQueue'[s] = <<>> /\ delivered'[s] = delivered[s],
           \A s \in Sessions : attempt[s] \in Made =>
              delivered'[s] \o messageQueue'[s] = delivered[s] \o messageQueue[s]
    PROVE  QueueInv'
<1> DEFINE closed == C \cap attached
           gone == {keyOf[s] : s \in closed}
<1>1. /\ hookPayloads' = [k \in Keys |-> IF k \in gone THEN NoSession ELSE hookPayloads[k]]
      /\ documentConnections' = [k \in Keys |-> IF k \in gone THEN NoSession ELSE documentConnections[k]]
      /\ incomingMessageQueue' =
            [k \in Keys |-> IF k \in gone THEN Undefined ELSE incomingMessageQueue[k]]
      /\ disconnect' = [s \in Sessions |-> IF s \in closed THEN "draining" ELSE disconnect[s]]
  BY DEF Close, CloseConnections
<1>2. \A s \in closed : s \in Sessions /\ keyOf[s] \in gone /\ attempt[s] \in Made
  BY DEF AloneInv, AttachedIsMade, Made, StartInv, TypeOK
<1> HIDE DEF closed, gone
<1>3. EntriesBelongTogether'
  BY <1>1 DEF QueueInv, EntriesBelongTogether
<1>4. WaitingIsQueued'
  BY <1>1 DEF QueueInv, WaitingIsQueued
<1>5. AcceptedIsInOrder'
  <2> SUFFICES ASSUME NEW s \in Sessions
               PROVE  /\ keyOf[s] = Undefined => accepted[s] = <<>>
                      /\ attempt[s] \in Waiting \cup {"rejected"} =>
                           delivered'[s] = <<>> /\ messageQueue'[s] = <<>> /\ disconnect'[s] = "none"
                      /\ attempt[s] \in Made => accepted[s] = delivered'[s] \o messageQueue'[s]
    BY DEF AcceptedIsInOrder, Made, Waiting
  <2>1. keyOf[s] = Undefined => accepted[s] = <<>>
    BY DEF QueueInv, AcceptedIsInOrder
  <2>2. attempt[s] \in Waiting \cup {"rejected"} => disconnect'[s] = disconnect[s]
    BY <1>1, <1>2 DEF Waiting, Made
  <2>3. attempt[s] \in Waiting \cup {"rejected"} =>
           delivered[s] = <<>> /\ messageQueue[s] = <<>> /\ disconnect[s] = "none"
    BY DEF QueueInv, AcceptedIsInOrder
  <2>4. attempt[s] \in Made => accepted[s] = delivered[s] \o messageQueue[s]
    BY DEF QueueInv, AcceptedIsInOrder
  <2> QED BY <2>1, <2>2, <2>3, <2>4
<1>6. ClosedIsLeft'
  <2> SUFFICES ASSUME NEW s \in Sessions
               PROVE  /\ disconnect'[s] # "none" => \A k \in Keys : documentConnections'[k] # s
                      /\ disconnect'[s] \in {"hook", "done"} => messageQueue'[s] = <<>>
                      /\ attempt[s] = "abandoned" /\ (disconnect'[s] # "none" \/ ~DocumentAwareness) =>
                           /\ delivered'[s] = <<>> /\ messageQueue'[s] = <<>>
                           /\ \A k \in Keys : documentConnections'[k] # s /\ hookPayloads'[k] # s
    BY DEF ClosedIsLeft
  <2>1. CASE s \in closed
    <3>1. \A k \in Keys : documentConnections'[k] # s
      BY <2>1, <1>1, <1>2, SessionsAreNumbers DEF StartInv, EntriesAreStarted
    <3> QED BY <2>1, <3>1, <1>1, <1>2 DEF Made
  <2>2. CASE s \notin closed
    <3>1. disconnect'[s] = disconnect[s]
      BY <2>2, <1>1
    <3>2. \A k \in Keys : /\ documentConnections'[k] \in {documentConnections[k], NoSession}
                         /\ hookPayloads'[k] \in {hookPayloads[k], NoSession}
      BY <1>1
    <3> QED BY <3>1, <3>2, SessionsAreNumbers DEF QueueInv, ClosedIsLeft
  <2> QED BY <2>1, <2>2
<1> QED BY <1>3, <1>4, <1>5, <1>6 DEF QueueInv

\* Closing no connection leaves everything as it is.
LEMMA NothingIsClosed ==
    ASSUME StartInv, UNCHANGED <<clientVars, connectionVars>>
    PROVE  Close({})
BY DEF StartInv, TypeOK, Close, CloseConnections, clientVars, connectionVars

\* A message that is handled moves from one sequence to the other.
LEMMA MessageIsMoved ==
    ASSUME StartInv, NEW s \in Sessions, ProcessMessage(s)
    PROVE  /\ delivered' = [delivered EXCEPT ![s] = Append(delivered[s], Head(messageQueue[s]))]
           /\ messageQueue' = [messageQueue EXCEPT ![s] = Tail(messageQueue[s])]
           /\ delivered'[s] \o messageQueue'[s] = delivered[s] \o messageQueue[s]
<1>1. messageQueue[s] # <<>> /\ messageQueue[s] \in Seq(Messages) /\ delivered[s] \in Seq(Messages)
  BY DEF ProcessMessage, StartInv, TypeOK
<1>2. /\ delivered' = [delivered EXCEPT ![s] = Append(delivered[s], Head(messageQueue[s]))]
      /\ messageQueue' = [messageQueue EXCEPT ![s] = Tail(messageQueue[s])]
  BY DEF ProcessMessage
<1>3. delivered'[s] = Append(delivered[s], Head(messageQueue[s])) /\ messageQueue'[s] = Tail(messageQueue[s])
  BY <1>2 DEF StartInv, TypeOK
<1>4. Append(delivered[s], Head(messageQueue[s])) \o Tail(messageQueue[s])
         = delivered[s] \o messageQueue[s]
  BY <1>1, HeadMoves
<1> QED BY <1>2, <1>3, <1>4

LEMMA QueueProcessMessage ==
    ASSUME StartInv, AloneInv, QueueInv, NEW s \in Sessions, ProcessMessage(s)
    PROVE  QueueInv'
<1>1. \A t \in Sessions : messageQueue[t] = <<>> =>
         messageQueue'[t] = <<>> /\ delivered'[t] = delivered[t]
  BY MessageIsMoved DEF ProcessMessage, StartInv, TypeOK
<1>2. \A t \in Sessions : delivered'[t] \o messageQueue'[t] = delivered[t] \o messageQueue[t]
  BY MessageIsMoved DEF StartInv, TypeOK
<1>3. UNCHANGED <<keyOf, attempt, accepted>>
  BY DEF ProcessMessage
<1>4. Close({s}) \/ Close({})
  BY NothingIsClosed DEF ProcessMessage
<1> QED BY <1>1, <1>2, <1>3, <1>4, CloseKeepsQueue

\* A message for a connection.
LEMMA QueueReceiveConnected ==
    ASSUME StartInv, QueueInv, NEW k \in Keys, NEW kind \in Kinds, ReceiveConnected(k, kind)
    PROVE  QueueInv'
<1> DEFINE s == ConnectionFor(k)
           m == MessageOf(kind)
<1>1. PICK j \in Keys : documentConnections[j] = s
  BY KeysAssumption DEF ConnectionFor
<1>2. /\ s \in Sessions /\ s # NoSession /\ keyOf[s] = j /\ attempt[s] \in Made \cup {"abandoned"}
      /\ keyOf[s] # Undefined
  BY <1>1, KeysAssumption DEF StartInv, TypeOK, EntriesAreStarted, ReceiveConnected, QueueInv,
     EntriesBelongTogether
<1>3. m \in Messages
  BY MessageIsTyped DEF StartInv, ReceiveConnected
<1>4. /\ messageQueue' = [messageQueue EXCEPT ![s] = Append(messageQueue[s], m)]
      /\ accepted' = [accepted EXCEPT ![s] = Append(accepted[s], m)]
      /\ UNCHANGED <<keyOf, clientVars, attempt, connectionVars, delivered>>
  BY DEF ReceiveConnected
<1>5. disconnect[s] = "none" /\ ~(attempt[s] = "abandoned" /\ ~DocumentAwareness)
  BY <1>1, <1>2 DEF QueueInv, ClosedIsLeft
<1> HIDE DEF s, m
<1>6. EntriesBelongTogether'
  BY <1>4 DEF QueueInv, EntriesBelongTogether, clientVars
<1>7. WaitingIsQueued'
  BY <1>2, <1>4 DEF QueueInv, WaitingIsQueued, clientVars, Made, Waiting, StartInv, TypeOK
<1>8. AcceptedIsInOrder'
  <2> SUFFICES ASSUME NEW t \in Sessions
               PROVE  /\ keyOf[t] = Undefined => accepted'[t] = <<>>
                      /\ attempt[t] \in Waiting \cup {"rejected"} =>
                           delivered[t] = <<>> /\ messageQueue'[t] = <<>> /\ disconnect[t] = "none"
                      /\ attempt[t] \in Made => accepted'[t] = delivered[t] \o messageQueue'[t]
    BY <1>4 DEF AcceptedIsInOrder, Made, Waiting, connectionVars
  <2>1. CASE t = s
    <3>1. attempt[t] \notin Waiting \cup {"rejected"}
      BY <2>1, <1>2 DEF Made, Waiting
    <3>2. accepted'[t] = Append(accepted[t], m) /\ messageQueue'[t] = Append(messageQueue[t], m)
      BY <2>1, <1>4 DEF StartInv, TypeOK
    <3>3. messageQueue[t] \in Seq(Messages) /\ delivered[t] \in Seq(Messages)
      BY DEF StartInv, TypeOK
    <3>4. attempt[t] \in Made => accepted[t] = delivered[t] \o messageQueue[t]
      BY DEF QueueInv, AcceptedIsInOrder
    <3>5. delivered[t] \o Append(messageQueue[t], m) = Append(delivered[t] \o messageQueue[t], m)
      <4>1. \A d, q \in Seq(Messages), x \in Messages : d \o Append(q, x) = Append(d \o q, x)
        BY NewIsLast
      <4> QED BY <1>3, <3>3, <4>1
    <3> QED BY <2>1, <1>2, <3>1, <3>2, <3>4, <3>5
  <2>2. CASE t # s
    BY <2>2, <1>4 DEF QueueInv, AcceptedIsInOrder, StartInv, TypeOK
  <2> QED BY <2>1, <2>2
<1>9. ClosedIsLeft'
  BY <1>2, <1>4, <1>5 DEF QueueInv, ClosedIsLeft, StartInv, TypeOK, clientVars, connectionVars
<1> QED BY <1>6, <1>7, <1>8, <1>9 DEF QueueInv

\* The session that a message for a raw key without a connection belongs to.
LEMMA QueueingSession ==
    ASSUME StartInv, StartInv', QueueInv, NEW k \in Keys, NEW kind \in Kinds, ReceiveQueueing(k, kind)
    PROVE  LET t == hookPayloads'[k]
               queue == IF incomingMessageQueue[k] = Undefined THEN <<>> ELSE incomingMessageQueue[k]
           IN  /\ t \in Sessions /\ keyOf'[t] = k /\ attempt[t] \in Waiting
               /\ accepted[t] = queue /\ queue \in Seq(Messages)
               /\ hookPayloads' = [hookPayloads EXCEPT ![k] = t]
               /\ keyOf' = [keyOf EXCEPT ![t] = k]
               /\ \A j \in Keys \ {k} : hookPayloads[j] # t
               /\ \A j \in Keys : documentConnections[j] # t
               /\ documentConnections[k] = NoSession
               /\ hookPayloads[k] # NoSession => hookPayloads[k] = t
<1> DEFINE t == hookPayloads'[k]
           queue == IF incomingMessageQueue[k] = Undefined THEN <<>> ELSE incomingMessageQueue[k]
<1>1. documentConnections[k] = NoSession
  BY DEF ReceiveQueueing, ConnectionFor
<1>2. queue \in Seq(Messages)
  BY DEF StartInv, TypeOK
<1>3. CASE incomingMessageQueue[k] = Undefined
  <2>1. /\ t \in Sessions /\ keyOf' = [keyOf EXCEPT ![t] = k]
        /\ t = Cardinality({u \in Sessions : keyOf[u] # Undefined}) + 1
        /\ hookPayloads[k] = NoSession /\ hookPayloads' = [hookPayloads EXCEPT ![k] = t]
    <3>1. StartSession(k) /\ hookPayloads[k] = NoSession
      BY <1>3 DEF ReceiveQueueing
    <3> QED BY <3>1 DEF StartSession, StartInv, TypeOK
  <2> HIDE DEF t
  <2>2. keyOf[t] = Undefined
    <3>1. \A u \in Sessions : keyOf[u] # Undefined <=> u <= t - 1
      BY <2>1, NextSessionIsFree DEF StartInv
    <3> QED BY <2>1, <3>1, SessionsAreNumbers
  <2>3. attempt[t] = "none" /\ accepted[t] = <<>>
    BY <2>1, <2>2, KeysAssumption DEF StartInv, EntriesAreStarted, QueueInv, AcceptedIsInOrder
  <2>4. \A j \in Keys : hookPayloads[j] # t /\ documentConnections[j] # t
    BY <2>1, <2>2, KeysAssumption, SessionsAreNumbers DEF StartInv, EntriesAreStarted
  <2> QED BY <1>1, <1>2, <1>3, <2>1, <2>3, <2>4 DEF t, Waiting, StartInv, TypeOK
<1>4. CASE incomingMessageQueue[k] # Undefined
  <2>1. /\ UNCHANGED <<keyOf, hookPayloads>> /\ t = hookPayloads[k] /\ t \in Sessions
        /\ t # NoSession /\ keyOf[t] = k
    BY <1>4, SessionsAreNumbers DEF ReceiveQueueing, QueueInv, EntriesBelongTogether, StartInv, TypeOK,
       EntriesAreStarted
  <2> HIDE DEF t
  <2>2. attempt[t] \in Waiting
    BY <1>1, <2>1 DEF QueueInv, EntriesBelongTogether
  <2>3. accepted[t] = queue
    BY <1>4, <2>1, <2>2 DEF QueueInv, WaitingIsQueued
  <2>4. \A j \in Keys \ {k} : hookPayloads[j] # t /\ documentConnections[j] # t
    BY <2>1 DEF StartInv, EntriesAreStarted
  <2>5. documentConnections[k] # t
    BY <1>1, <2>1
  <2>6. keyOf' = [keyOf EXCEPT ![t] = k] /\ hookPayloads' = [hookPayloads EXCEPT ![k] = t]
    BY <2>1 DEF StartInv, TypeOK
  <2> QED BY <1>1, <1>2, <2>1, <2>2, <2>3, <2>4, <2>5, <2>6 DEF t
<1> QED BY <1>3, <1>4

LEMMA QueueReceiveQueueing ==
    ASSUME StartInv, StartInv', QueueInv, NEW k \in Keys, NEW kind \in Kinds, ReceiveQueueing(k, kind)
    PROVE  QueueInv'
<1> DEFINE t == hookPayloads'[k]
           m == MessageOf(kind)
           queue == IF incomingMessageQueue[k] = Undefined THEN <<>> ELSE incomingMessageQueue[k]
<1>1. /\ t \in Sessions /\ keyOf'[t] = k /\ attempt[t] \in Waiting
      /\ accepted[t] = queue /\ queue \in Seq(Messages)
      /\ hookPayloads' = [hookPayloads EXCEPT ![k] = t]
      /\ keyOf' = [keyOf EXCEPT ![t] = k]
      /\ \A j \in Keys \ {k} : hookPayloads[j] # t
      /\ \A j \in Keys : documentConnections[j] # t
      /\ documentConnections[k] = NoSession
  BY QueueingSession
<1>2. m \in Messages
  BY MessageIsTyped DEF StartInv, ReceiveQueueing
<1>3. UNCHANGED <<documentConnections, disconnect, messageQueue, delivered>>
  BY DEF ReceiveQueueing, connectionVars
\* What waits is either left alone or extended, in both places.
<1>4. \E waits \in Seq(Messages) :
         /\ incomingMessageQueue' = [incomingMessageQueue EXCEPT ![k] = waits]
         /\ accepted' = [accepted EXCEPT ![t] = waits]
  <2>1. CASE StartsAttempt(k, kind)
    <3>1. incomingMessageQueue' = [incomingMessageQueue EXCEPT ![k] = queue] /\ accepted' = accepted
      BY <2>1 DEF ReceiveQueueing
    <3>2. accepted' = [accepted EXCEPT ![t] = queue]
      BY <1>1, <3>1 DEF StartInv, TypeOK
    <3> QED BY <1>1, <3>1, <3>2
  <2>2. CASE ~StartsAttempt(k, kind)
    <3>1. /\ incomingMessageQueue' = [incomingMessageQueue EXCEPT ![k] = Append(queue, m)]
          /\ accepted' = [accepted EXCEPT ![t] = Append(accepted[t], m)]
      BY <2>2 DEF ReceiveQueueing
    <3> HIDE DEF t, m, queue
    <3>2. Append(queue, m) \in Seq(Messages)
      BY <1>1, <1>2
    <3> QED BY <1>1, <3>1, <3>2
  <2> QED BY <2>1, <2>2
<1>5. attempt' \in {attempt, [attempt EXCEPT ![t] = "authenticating"]}
  BY DEF ReceiveQueueing
<1> HIDE DEF t, m, queue
<1>6. PICK waits \in Seq(Messages) :
         /\ incomingMessageQueue' = [incomingMessageQueue EXCEPT ![k] = waits]
         /\ accepted' = [accepted EXCEPT ![t] = waits]
  BY <1>4
<1>7. attempt'[t] \in Waiting /\ \A s \in Sessions \ {t} : attempt'[s] = attempt[s]
  BY <1>1, <1>5 DEF Waiting, StartInv, TypeOK
<1>8. EntriesBelongTogether'
  <2> SUFFICES ASSUME NEW j \in Keys
               PROVE  /\ documentConnections[j] # NoSession =>
                           /\ hookPayloads'[j] \in {documentConnections[j], NoSession}
                           /\ attempt'[documentConnections[j]] \in Made \cup {"abandoned"}
                      /\ hookPayloads'[j] # NoSession /\ documentConnections[j] = NoSession =>
                           attempt'[hookPayloads'[j]] \in Waiting
                      /\ hookPayloads'[j] = NoSession => incomingMessageQueue'[j] = Undefined
    BY <1>3 DEF EntriesBelongTogether, Made, Waiting
  <2>1. CASE j = k
    BY <2>1, <1>1, <1>7, SessionsAreNumbers DEF StartInv, TypeOK
  <2>2. CASE j # k
    <3>1. hookPayloads'[j] = hookPayloads[j] /\ incomingMessageQueue'[j] = incomingMessageQueue[j]
      BY <2>2, <1>1, <1>6 DEF StartInv, TypeOK
    <3>2. documentConnections[j] # NoSession =>
             attempt'[documentConnections[j]] = attempt[documentConnections[j]]
      BY <1>1, <1>7 DEF StartInv, TypeOK
    <3>3. hookPayloads[j] # NoSession => attempt'[hookPayloads[j]] = attempt[hookPayloads[j]]
      BY <2>2, <1>1, <1>7 DEF StartInv, TypeOK
    <3> QED BY <3>1, <3>2, <3>3 DEF QueueInv, EntriesBelongTogether
  <2> QED BY <2>1, <2>2
<1>9. WaitingIsQueued'
  <2> SUFFICES ASSUME NEW j \in Keys, hookPayloads'[j] # NoSession, attempt'[hookPayloads'[j]] \in Waiting
               PROVE  /\ incomingMessageQueue'[j] # Undefined
                      /\ accepted'[hookPayloads'[j]] = incomingMessageQueue'[j]
    BY DEF WaitingIsQueued, Waiting
  <2>1. CASE j = k
    <3>1. hookPayloads'[j] = t /\ incomingMessageQueue'[j] = waits /\ accepted'[t] = waits
      BY <2>1, <1>1, <1>6 DEF StartInv, TypeOK
    <3> QED BY <3>1, UndefinedAssumption
  <2>2. CASE j # k
    <3>1. /\ hookPayloads'[j] = hookPayloads[j] /\ incomingMessageQueue'[j] = incomingMessageQueue[j]
          /\ hookPayloads[j] \in Sessions \ {t}
      BY <2>2, <1>1, <1>6 DEF StartInv, TypeOK
    <3>2. /\ attempt'[hookPayloads[j]] = attempt[hookPayloads[j]]
          /\ accepted'[hookPayloads[j]] = accepted[hookPayloads[j]]
      BY <3>1, <1>6, <1>7 DEF StartInv, TypeOK
    <3> QED BY <3>1, <3>2 DEF QueueInv, WaitingIsQueued
  <2> QED BY <2>1, <2>2
<1>10. AcceptedIsInOrder'
  <2> SUFFICES ASSUME NEW s \in Sessions
               PROVE  /\ keyOf'[s] = Undefined => accepted'[s] = <<>>
                      /\ attempt'[s] \in Waiting \cup {"rejected"} =>
                           delivered[s] = <<>> /\ messageQueue[s] = <<>> /\ disconnect[s] = "none"
                      /\ attempt'[s] \in Made => accepted'[s] = delivered[s] \o messageQueue[s]
    BY <1>3 DEF AcceptedIsInOrder, Made, Waiting
  <2>1. CASE s = t
    BY <2>1, <1>1, <1>7, KeysAssumption DEF QueueInv, AcceptedIsInOrder, Made, Waiting
  <2>2. CASE s # t
    <3>1. keyOf'[s] = keyOf[s] /\ accepted'[s] = accepted[s] /\ attempt'[s] = attempt[s]
      BY <2>2, <1>1, <1>6, <1>7 DEF StartInv, TypeOK
    <3> QED BY <3>1 DEF QueueInv, AcceptedIsInOrder
  <2> QED BY <2>1, <2>2
<1>11. ClosedIsLeft'
  <2> SUFFICES ASSUME NEW s \in Sessions
               PROVE  /\ disconnect[s] # "none" => \A j \in Keys : documentConnections[j] # s
                      /\ disconnect[s] \in {"hook", "done"} => messageQueue[s] = <<>>
                      /\ attempt'[s] = "abandoned" /\ (disconnect[s] # "none" \/ ~DocumentAwareness) =>
                           /\ delivered[s] = <<>> /\ messageQueue[s] = <<>>
                           /\ \A j \in Keys : documentConnections[j] # s /\ hookPayloads'[j] # s
    BY <1>3 DEF ClosedIsLeft
  <2>1. attempt'[s] = "abandoned" => s # t /\ attempt[s] = "abandoned"
    BY <1>7 DEF Waiting
  <2>2. \A j \in Keys : hookPayloads'[j] \in {hookPayloads[j], t}
    BY <1>1 DEF StartInv, TypeOK
  <2> QED BY <2>1, <2>2 DEF QueueInv, ClosedIsLeft
<1> QED BY <1>8, <1>9, <1>10, <1>11 DEF QueueInv

\* The rejection of a session that takes nothing from another one.
LEMMA QueueReject ==
    ASSUME StartInv, AloneInv, QueueInv, NEW s \in Sessions, NEW outcome \in {"rejected", "denied"},
           \/ outcome = "rejected" /\ attempt[s] \in {"authenticating", "loading"}
           \/ outcome = "denied" /\ attempt[s] = "connecting",
           Reject(s, outcome), robbed' = {},
           UNCHANGED <<keyOf, documentConnections, disconnect, messageQueue, accepted, delivered>>
    PROVE  QueueInv'
<1> DEFINE k == keyOf[s]
<1>1. k \in Keys
  BY DEF StartInv, EntriesAreStarted
<1>2. hookPayloads[k] \in {s, NoSession}
  BY DEF Reject, Victims
<1>3. outcome = "rejected" => documentConnections[k] = NoSession
  BY DEF AloneInv, AttemptsAreAlone
<1>4. /\ attempt' = [attempt EXCEPT ![s] = outcome]
      /\ hookPayloads' = [hookPayloads EXCEPT ![k] = NoSession]
      /\ incomingMessageQueue' = [incomingMessageQueue EXCEPT ![k] = Undefined]
  BY DEF Reject
<1>5. \A j \in Keys \ {k} : hookPayloads[j] # s /\ documentConnections[j] # s
  BY SessionsAreNumbers DEF StartInv, EntriesAreStarted
<1> HIDE DEF k
<1>6. /\ attempt'[s] = outcome
      /\ \A t \in Sessions \ {s} : attempt'[t] = attempt[t]
      /\ hookPayloads'[k] = NoSession /\ incomingMessageQueue'[k] = Undefined
      /\ \A j \in Keys \ {k} : /\ hookPayloads'[j] = hookPayloads[j]
                             /\ incomingMessageQueue'[j] = incomingMessageQueue[j]
  BY <1>1, <1>4 DEF StartInv, TypeOK
<1>7. EntriesBelongTogether'
  <2> SUFFICES ASSUME NEW j \in Keys
               PROVE  /\ documentConnections[j] # NoSession =>
                           /\ hookPayloads'[j] \in {documentConnections[j], NoSession}
                           /\ attempt'[documentConnections[j]] \in Made \cup {"abandoned"}
                      /\ hookPayloads'[j] # NoSession /\ documentConnections[j] = NoSession =>
                           attempt'[hookPayloads'[j]] \in Waiting
                      /\ hookPayloads'[j] = NoSession => incomingMessageQueue'[j] = Undefined
    BY DEF EntriesBelongTogether, Made, Waiting
  <2>1. CASE j = k
    <3>1. documentConnections[k] = s => outcome = "denied"
      BY <1>3, SessionsAreNumbers
    <3>2. documentConnections[k] # NoSession => attempt'[documentConnections[k]] \in Made \cup {"abandoned"}
      BY <1>1, <1>6, <3>1 DEF QueueInv, EntriesBelongTogether, Made, StartInv, TypeOK
    <3> QED BY <2>1, <1>6, <3>2
  <2>2. CASE j # k
    <3>1. documentConnections[j] \in (Sessions \ {s}) \cup {NoSession}
          /\ hookPayloads[j] \in (Sessions \ {s}) \cup {NoSession}
      BY <2>2, <1>5 DEF StartInv, TypeOK
    <3> QED BY <2>2, <3>1, <1>6 DEF QueueInv, EntriesBelongTogether
  <2> QED BY <2>1, <2>2
<1>8. WaitingIsQueued'
  <2> SUFFICES ASSUME NEW j \in Keys, hookPayloads'[j] # NoSession, attempt'[hookPayloads'[j]] \in Waiting
               PROVE  /\ incomingMessageQueue'[j] # Undefined
                      /\ accepted[hookPayloads'[j]] = incomingMessageQueue'[j]
    BY DEF WaitingIsQueued, Waiting
  <2>1. j # k
    BY <1>6
  <2>2. hookPayloads[j] \in Sessions \ {s} /\ hookPayloads'[j] = hookPayloads[j]
    BY <2>1, <1>5, <1>6 DEF StartInv, TypeOK
  <2> QED BY <2>1, <2>2, <1>6 DEF QueueInv, WaitingIsQueued
<1>9. AcceptedIsInOrder'
  <2> SUFFICES ASSUME NEW t \in Sessions
               PROVE  /\ keyOf[t] = Undefined => accepted[t] = <<>>
                      /\ attempt'[t] \in Waiting \cup {"rejected"} =>
                           delivered[t] = <<>> /\ messageQueue[t] = <<>> /\ disconnect[t] = "none"
                      /\ attempt'[t] \in Made => accepted[t] = delivered[t] \o messageQueue[t]
    BY DEF AcceptedIsInOrder, Made, Waiting
  <2>1. CASE t = s
    <3>1. attempt'[t] \in Waiting \cup {"rejected"} => attempt[t] \in Waiting
      BY <2>1, <1>6 DEF Waiting
    <3>2. attempt'[t] \in Made => attempt[t] \in Made
      BY <2>1, <1>6 DEF Made
    <3> QED BY <3>1, <3>2 DEF QueueInv, AcceptedIsInOrder
  <2>2. CASE t # s
    BY <2>2, <1>6 DEF QueueInv, AcceptedIsInOrder
  <2> QED BY <2>1, <2>2
<1>10. ClosedIsLeft'
  <2>1. \A t \in Sessions : attempt'[t] = "abandoned" => attempt[t] = "abandoned"
    BY <1>6
  <2>2. \A j \in Keys : hookPayloads'[j] \in {hookPayloads[j], NoSession}
    BY <1>6
  <2> QED BY <2>1, <2>2, SessionsAreNumbers DEF QueueInv, ClosedIsLeft
<1> QED BY <1>7, <1>8, <1>9, <1>10 DEF QueueInv

\* The connection is made and given the queue, or is closed again at once.
LEMMA QueueDocumentLoaded ==
    ASSUME StartInv, AloneInv, QueueInv, NEW s \in Sessions, DocumentLoaded(s)
    PROVE  QueueInv'
<1> DEFINE k == keyOf[s]
           table == [documentConnections EXCEPT ![k] = s]
           connections == AttachConnection(s)
           closed == Range(table) \cap connections
           gone == {keyOf[t] : t \in closed}
<1>1. /\ k \in Keys /\ attempt[s] = "loading"
      /\ hookPayloads[k] = s /\ documentConnections[k] = NoSession
  BY DEF StartInv, EntriesAreStarted, DocumentLoaded, AloneInv, AttemptsAreAlone
<1>2. /\ accepted[s] = incomingMessageQueue[k] /\ incomingMessageQueue[k] # Undefined
      /\ delivered[s] = <<>> /\ messageQueue[s] = <<>> /\ disconnect[s] = "none"
  BY <1>1, SessionsAreNumbers DEF QueueInv, WaitingIsQueued, AcceptedIsInOrder, Waiting
<1>3. \A j \in Keys \ {k} : hookPayloads[j] # s /\ documentConnections[j] # s
  BY SessionsAreNumbers DEF StartInv, EntriesAreStarted
<1>4. /\ table[k] = s
      /\ \A j \in Keys \ {k} : table[j] = documentConnections[j]
  BY <1>1 DEF StartInv, TypeOK
<1>5. UNCHANGED <<keyOf, accepted, delivered>>
  BY DEF DocumentLoaded, history
<1>6. \A j \in Keys \ {k} : /\ documentConnections[j] \in (Sessions \ {s}) \cup {NoSession}
                         /\ hookPayloads[j] \in (Sessions \ {s}) \cup {NoSession}
  BY <1>3 DEF StartInv, TypeOK
<1>7. CASE WebSocketGone
  <2>1. /\ attempt' = [attempt EXCEPT ![s] = "abandoned"]
        /\ messageQueue' = messageQueue
        /\ hookPayloads' = [j \in Keys |-> IF j \in gone THEN NoSession ELSE hookPayloads[j]]
        /\ documentConnections' = [j \in Keys |-> IF j \in gone THEN NoSession ELSE table[j]]
        /\ incomingMessageQueue' = [j \in Keys |-> IF j \in gone THEN Undefined ELSE incomingMessageQueue[j]]
        /\ disconnect' = [t \in Sessions |-> IF t \in closed THEN "draining" ELSE disconnect[t]]
    BY <1>7 DEF DocumentLoaded, CloseAtSetUp, CloseConnections
  <2>2. connections \subseteq attached \cup {s} /\ (~DocumentAwareness => s \in connections)
    BY DEF AttachConnection
  <2>3. s \in Range(table)
    <3>1. DOMAIN table = Keys
      BY DEF StartInv, TypeOK
    <3> QED BY <1>1, <1>4, <3>1 DEF Range
  <2>4. \A t \in closed \ {s} : t \in Sessions /\ attempt[t] \in Made /\ keyOf[t] # k
    <3> SUFFICES ASSUME NEW t \in closed \ {s}
                 PROVE  t \in Sessions /\ attempt[t] \in Made /\ keyOf[t] # k
      OBVIOUS
    <3>1. t \in attached
      BY <2>2
    <3>2. t \in Sessions /\ documentConnections[keyOf[t]] = t
      BY <3>1, AttachedHasKey
    <3> QED BY <3>1, <3>2, <1>1, SessionsAreNumbers DEF AloneInv, AttachedIsMade, Made
  <2>5. ~DocumentAwareness => s \in closed /\ k \in gone
    BY <2>2, <2>3
  <2>6. s \notin closed => k \notin gone
    <3> SUFFICES ASSUME s \notin closed, NEW t \in closed, keyOf[t] = k PROVE FALSE
      OBVIOUS
    <3>1. t \in closed \ {s}
      OBVIOUS
    <3> HIDE DEF k, closed
    <3> QED BY <3>1, <2>4
  <2>7. \A t \in closed : keyOf[t] \in gone
    OBVIOUS
  <2>8. /\ attempt'[s] = "abandoned"
        /\ \A t \in Sessions \ {s} : attempt'[t] = attempt[t]
        /\ \A t \in Sessions \ closed : disconnect'[t] = disconnect[t]
        /\ \A t \in closed \cap Sessions : disconnect'[t] = "draining"
    BY <2>1 DEF StartInv, TypeOK
  <2>9. s \in closed => k \in gone
    BY <2>7
  <2> HIDE DEF k, table, connections, closed, gone
  <2>10. EntriesBelongTogether'
    <3> SUFFICES ASSUME NEW j \in Keys
                 PROVE  /\ documentConnections'[j] # NoSession =>
                             /\ hookPayloads'[j] \in {documentConnections'[j], NoSession}
                             /\ attempt'[documentConnections'[j]] \in Made \cup {"abandoned"}
                        /\ hookPayloads'[j] # NoSession /\ documentConnections'[j] = NoSession =>
                             attempt'[hookPayloads'[j]] \in Waiting
                        /\ hookPayloads'[j] = NoSession => incomingMessageQueue'[j] = Undefined
      BY DEF EntriesBelongTogether, Made, Waiting
    <3>1. CASE j \in gone
      BY <3>1, <2>1
    <3>2. CASE j \notin gone /\ j = k
      BY <3>2, <2>1, <2>8, <1>1, <1>4, SessionsAreNumbers
    <3>3. CASE j \notin gone /\ j # k
      <4>1. /\ documentConnections'[j] = documentConnections[j] /\ hookPayloads'[j] = hookPayloads[j]
            /\ incomingMessageQueue'[j] = incomingMessageQueue[j]
        BY <3>3, <2>1, <1>4
      <4> QED BY <3>3, <4>1, <1>6, <2>8 DEF QueueInv, EntriesBelongTogether
    <3> QED BY <3>1, <3>2, <3>3
  <2>11. WaitingIsQueued'
    <3> SUFFICES ASSUME NEW j \in Keys, hookPayloads'[j] # NoSession, attempt'[hookPayloads'[j]] \in Waiting
                 PROVE  /\ incomingMessageQueue'[j] # Undefined
                        /\ accepted[hookPayloads'[j]] = incomingMessageQueue'[j]
      BY <1>5 DEF WaitingIsQueued, Waiting
    <3>1. j \notin gone /\ hookPayloads'[j] = hookPayloads[j] /\ incomingMessageQueue'[j] = incomingMessageQueue[j]
      BY <2>1
    <3>2. j # k
      BY <3>1, <1>1, <2>8 DEF Waiting
    <3> QED BY <3>1, <3>2, <1>6, <2>8 DEF QueueInv, WaitingIsQueued
  <2>12. AcceptedIsInOrder'
    <3> SUFFICES ASSUME NEW t \in Sessions
                 PROVE  /\ keyOf[t] = Undefined => accepted[t] = <<>>
                        /\ attempt'[t] \in Waiting \cup {"rejected"} =>
                             delivered[t] = <<>> /\ messageQueue[t] = <<>> /\ disconnect'[t] = "none"
                        /\ attempt'[t] \in Made => accepted[t] = delivered[t] \o messageQueue[t]
      BY <1>5, <2>1 DEF AcceptedIsInOrder, Made, Waiting
    <3>1. CASE t = s
      BY <3>1, <2>8 DEF QueueInv, AcceptedIsInOrder, Made, Waiting
    <3>2. CASE t # s
      <4>1. attempt[t] \in Waiting \cup {"rejected"} => t \notin closed
        BY <3>2, <2>4 DEF Made, Waiting
      <4> QED BY <3>2, <4>1, <2>8 DEF QueueInv, AcceptedIsInOrder
    <3> QED BY <3>1, <3>2
  <2>13. ClosedIsLeft'
    <3> SUFFICES ASSUME NEW t \in Sessions
                 PROVE  /\ disconnect'[t] # "none" => \A j \in Keys : documentConnections'[j] # t
                        /\ disconnect'[t] \in {"hook", "done"} => messageQueue[t] = <<>>
                        /\ attempt'[t] = "abandoned" /\ (disconnect'[t] # "none" \/ ~DocumentAwareness) =>
                             /\ delivered[t] = <<>> /\ messageQueue[t] = <<>>
                             /\ \A j \in Keys : documentConnections'[j] # t /\ hookPayloads'[j] # t
      BY <1>5, <2>1 DEF ClosedIsLeft
    <3>1. CASE t = s
      <4>1. s \in closed => \A j \in Keys : documentConnections'[j] # s /\ hookPayloads'[j] # s
        BY <1>3, <1>4, <2>1, <2>9, SessionsAreNumbers
      <4>2. s \notin closed => disconnect'[s] = "none" /\ DocumentAwareness
        BY <1>2, <2>5, <2>8
      <4>3. s \in closed => disconnect'[s] = "draining"
        BY <2>8
      <4> QED BY <3>1, <4>1, <4>2, <4>3, <1>2
    <3>2. CASE t # s
      <4>1. \A j \in Keys : /\ documentConnections'[j] \in {documentConnections[j], NoSession, s}
                           /\ hookPayloads'[j] \in {hookPayloads[j], NoSession}
        BY <1>4, <2>1
      <4>2. CASE t \in closed
        <5>1. \A j \in Keys : documentConnections'[j] # t
          <6> SUFFICES ASSUME NEW j \in Keys, documentConnections'[j] = t PROVE FALSE
            OBVIOUS
          <6>1. j \notin gone /\ documentConnections[j] = t
            BY <3>2, <1>4, <2>1, SessionsAreNumbers
          <6>2. keyOf[t] = j
            BY <6>1, SessionsAreNumbers DEF StartInv, EntriesAreStarted
          <6> QED BY <4>2, <6>1, <6>2, <2>7
        <5>2. disconnect'[t] = "draining" /\ attempt'[t] # "abandoned"
          BY <3>2, <4>2, <2>4, <2>8 DEF Made
        <5> QED BY <5>1, <5>2
      <4>3. CASE t \notin closed
        BY <3>2, <4>1, <4>3, <2>8, SessionsAreNumbers DEF QueueInv, ClosedIsLeft
      <4> QED BY <4>2, <4>3
    <3> QED BY <3>1, <3>2
  <2> QED BY <2>10, <2>11, <2>12, <2>13 DEF QueueInv
<1>8. CASE ~WebSocketGone
  <2>1. /\ attempt' = [attempt EXCEPT ![s] = "connecting"]
        /\ documentConnections' = table
        /\ messageQueue' = [messageQueue EXCEPT ![s] = accepted[s]]
        /\ UNCHANGED <<hookPayloads, incomingMessageQueue, disconnect>>
    BY <1>2, <1>8 DEF DocumentLoaded, Drained
  <2>2. /\ attempt'[s] = "connecting" /\ messageQueue'[s] = accepted[s]
        /\ \A t \in Sessions \ {s} : attempt'[t] = attempt[t] /\ messageQueue'[t] = messageQueue[t]
    BY <2>1 DEF StartInv, TypeOK
  <2> HIDE DEF k, table
  <2>3. EntriesBelongTogether'
    <3> SUFFICES ASSUME NEW j \in Keys
                 PROVE  /\ table[j] # NoSession =>
                             /\ hookPayloads[j] \in {table[j], NoSession}
                             /\ attempt'[table[j]] \in Made \cup {"abandoned"}
                        /\ hookPayloads[j] # NoSession /\ table[j] = NoSession =>
                             attempt'[hookPayloads[j]] \in Waiting
                        /\ hookPayloads[j] = NoSession => incomingMessageQueue[j] = Undefined
      BY <2>1 DEF EntriesBelongTogether, Made, Waiting
    <3>1. CASE j = k
      BY <3>1, <1>1, <1>4, <2>2, SessionsAreNumbers DEF Made
    <3>2. CASE j # k
      BY <3>2, <1>4, <1>6, <2>2 DEF QueueInv, EntriesBelongTogether
    <3> QED BY <3>1, <3>2
  <2>4. WaitingIsQueued'
    <3> SUFFICES ASSUME NEW j \in Keys, hookPayloads[j] # NoSession, attempt'[hookPayloads[j]] \in Waiting
                 PROVE  /\ incomingMessageQueue[j] # Undefined
                        /\ accepted[hookPayloads[j]] = incomingMessageQueue[j]
      BY <1>5, <2>1 DEF WaitingIsQueued, Waiting
    <3>1. j # k
      BY <1>1, <2>2 DEF Waiting
    <3> QED BY <3>1, <1>6, <2>2 DEF QueueInv, WaitingIsQueued
  <2>5. AcceptedIsInOrder'
    <3> SUFFICES ASSUME NEW t \in Sessions
                 PROVE  /\ keyOf[t] = Undefined => accepted[t] = <<>>
                        /\ attempt'[t] \in Waiting \cup {"rejected"} =>
                             delivered[t] = <<>> /\ messageQueue'[t] = <<>> /\ disconnect[t] = "none"
                        /\ attempt'[t] \in Made => accepted[t] = delivered[t] \o messageQueue'[t]
      BY <1>5, <2>1 DEF AcceptedIsInOrder, Made, Waiting
    <3>1. CASE t = s
      <4>1. accepted[s] \in Seq(Messages)
        BY DEF StartInv, TypeOK
      <4>2. <<>> \o accepted[s] = accepted[s]
        BY <4>1
      <4> QED BY <3>1, <4>2, <1>2, <2>2 DEF QueueInv, AcceptedIsInOrder, Made, Waiting
    <3>2. CASE t # s
      BY <3>2, <2>2 DEF QueueInv, AcceptedIsInOrder
    <3> QED BY <3>1, <3>2
  <2>6. ClosedIsLeft'
    <3> SUFFICES ASSUME NEW t \in Sessions
                 PROVE  /\ disconnect[t] # "none" => \A j \in Keys : table[j] # t
                        /\ disconnect[t] \in {"hook", "done"} => messageQueue'[t] = <<>>
                        /\ attempt'[t] = "abandoned" /\ (disconnect[t] # "none" \/ ~DocumentAwareness) =>
                             /\ delivered[t] = <<>> /\ messageQueue'[t] = <<>>
                             /\ \A j \in Keys : table[j] # t /\ hookPayloads[j] # t
      BY <1>5, <2>1 DEF ClosedIsLeft
    <3>1. CASE t = s
      BY <3>1, <1>2, <2>2
    <3>2. CASE t # s
      <4>1. \A j \in Keys : table[j] = t => documentConnections[j] = t
        BY <3>2, <1>4
      <4> QED BY <3>2, <4>1, <2>2 DEF QueueInv, ClosedIsLeft
    <3> QED BY <3>1, <3>2
  <2> QED BY <2>3, <2>4, <2>5, <2>6 DEF QueueInv
<1> QED BY <1>7, <1>8

\* One step of the handling of a session that moves it on within `Waiting' or `Made', or its
\* disconnection.
LEMMA QueueProgress ==
    ASSUME StartInv, QueueInv,
           UNCHANGED <<keyOf, hookPayloads, incomingMessageQueue, documentConnections, accepted,
                       delivered, messageQueue>>,
           \A s \in Sessions :
              /\ attempt[s] \in Waiting <=> attempt'[s] \in Waiting
              /\ attempt[s] \in Made <=> attempt'[s] \in Made
              /\ attempt'[s] \in {"rejected", "abandoned"} => attempt'[s] = attempt[s]
              /\ attempt[s] \in {"rejected", "abandoned"} => attempt'[s] = attempt[s]
              /\ disconnect'[s] = "none" <=> disconnect[s] = "none"
              /\ disconnect'[s] \in {"hook", "done"} =>
                   disconnect[s] \in {"hook", "done"} \/ messageQueue[s] = <<>>
    PROVE  QueueInv'
<1>1. EntriesBelongTogether'
  <2> SUFFICES ASSUME NEW j \in Keys
               PROVE  /\ documentConnections[j] # NoSession =>
                           /\ hookPayloads[j] \in {documentConnections[j], NoSession}
                           /\ attempt'[documentConnections[j]] \in Made \cup {"abandoned"}
                      /\ hookPayloads[j] # NoSession /\ documentConnections[j] = NoSession =>
                           attempt'[hookPayloads[j]] \in Waiting
                      /\ hookPayloads[j] = NoSession => incomingMessageQueue[j] = Undefined
    BY DEF EntriesBelongTogether, Made, Waiting
  <2>1. /\ documentConnections[j] # NoSession => documentConnections[j] \in Sessions
        /\ hookPayloads[j] # NoSession => hookPayloads[j] \in Sessions
    BY DEF StartInv, TypeOK
  <2> QED BY <2>1 DEF QueueInv, EntriesBelongTogether
<1>2. WaitingIsQueued'
  <2>1. \A j \in Keys : hookPayloads[j] # NoSession => hookPayloads[j] \in Sessions
    BY DEF StartInv, TypeOK
  <2> QED BY <2>1 DEF QueueInv, WaitingIsQueued, Waiting
<1>3. AcceptedIsInOrder'
  BY DEF QueueInv, AcceptedIsInOrder, Waiting, Made
<1>4. ClosedIsLeft'
  BY DEF QueueInv, ClosedIsLeft
<1> QED BY <1>1, <1>2, <1>3, <1>4 DEF QueueInv

LEMMA QueueNext ==
    ASSUME StartInv, StartInv', AloneInv, QueueInv, [Next]_vars, robbed' = {}
    PROVE  QueueInv'
<1> USE DEF vars, clientVars, connectionVars, history
<1>1. ASSUME NEW k \in Keys, NEW kind \in Kinds, ReceiveConnected(k, kind) PROVE QueueInv'
  BY <1>1, QueueReceiveConnected
<1>2. ASSUME NEW k \in Keys, NEW kind \in Kinds, ReceiveQueueing(k, kind) PROVE QueueInv'
  BY <1>2, QueueReceiveQueueing
<1>3. ASSUME NEW s \in Sessions, Authenticate(s) PROVE QueueInv'
  <2>1. hookPayloads[keyOf[s]] = s /\ s # NoSession
    BY <1>3, SessionsAreNumbers DEF Authenticate, AloneInv, AttemptsAreAlone
  <2>2. /\ attempt[s] = "authenticating" /\ attempt' = [attempt EXCEPT ![s] = "loading"]
        /\ UNCHANGED <<keyOf, hookPayloads, incomingMessageQueue, documentConnections, accepted,
                       delivered, messageQueue, disconnect>>
    BY <1>3, <2>1 DEF Authenticate
  <2> QED BY <2>2, QueueProgress DEF StartInv, TypeOK, Waiting, Made
<1>4. ASSUME NEW s \in Sessions, HookRejects(s) PROVE QueueInv'
  <2>1. /\ Reject(s, "rejected") /\ attempt[s] \in {"authenticating", "loading"}
        /\ UNCHANGED <<keyOf, documentConnections, disconnect, messageQueue, accepted, delivered>>
    BY <1>4 DEF HookRejects
  <2> QED BY <2>1, QueueReject
<1>5. ASSUME NEW s \in Sessions, DocumentLoaded(s) PROVE QueueInv'
  BY <1>5, QueueDocumentLoaded
<1>6. ASSUME NEW s \in Sessions, ConnectedResolves(s) PROVE QueueInv'
  <2>1. /\ attempt[s] = "connecting" /\ attempt' = [attempt EXCEPT ![s] = "connected"]
        /\ UNCHANGED <<keyOf, hookPayloads, incomingMessageQueue, documentConnections, accepted,
                       delivered, messageQueue, disconnect>>
    BY <1>6 DEF ConnectedResolves
  <2> QED BY <2>1, QueueProgress DEF StartInv, TypeOK, Waiting, Made
<1>7. ASSUME NEW s \in Sessions, ConnectedRejects(s) PROVE QueueInv'
  <2>1. /\ Reject(s, "denied") /\ attempt[s] = "connecting"
        /\ UNCHANGED <<keyOf, documentConnections, disconnect, messageQueue, accepted, delivered>>
    BY <1>7 DEF ConnectedRejects
  <2> QED BY <2>1, QueueReject
<1>8. ASSUME NEW s \in Sessions, ProcessMessage(s) PROVE QueueInv'
  BY <1>8, QueueProcessMessage
<1>9. ASSUME NEW C, Close(C), UNCHANGED <<keyOf, attempt, accepted, messageQueue, delivered>>
      PROVE  QueueInv'
  BY <1>9, CloseKeepsQueue
<1>10. ASSUME NEW s \in Sessions, TokenSyncSettles(s) PROVE QueueInv'
  <2>1. Close({s}) \/ Close({})
    BY <1>10, NothingIsClosed DEF TokenSyncSettles
  <2> QED BY <1>9, <1>10, <2>1 DEF TokenSyncSettles
<1>11. ASSUME NEW s \in Sessions, CallOnDisconnect(s) \/ Disconnected(s) PROVE QueueInv'
  <2>1. /\ UNCHANGED <<keyOf, hookPayloads, incomingMessageQueue, documentConnections, accepted,
                       delivered, messageQueue, attempt>>
        /\ \/ disconnect[s] = "draining" /\ messageQueue[s] = <<>>
           \/ disconnect[s] = "hook"
        /\ disconnect' \in {[disconnect EXCEPT ![s] = "hook"], [disconnect EXCEPT ![s] = "done"]}
    BY <1>11 DEF CallOnDisconnect, Disconnected
  <2> QED BY <2>1, QueueProgress DEF StartInv, TypeOK
<1>12. CASE HandleClose \/ Check
  BY <1>9, <1>12 DEF HandleClose, Check, CloseAll
<1>13. CASE WebSocketCloses \/ UNCHANGED vars
  BY <1>13, QueueProgress DEF WebSocketCloses
<1> QED BY <1>1, <1>2, <1>3, <1>4, <1>5, <1>6, <1>7, <1>8, <1>10, <1>11, <1>12, <1>13 DEF Next

LEMMA ChannelNextInv ==
    ASSUME ChannelInv, [Next]_vars
    PROVE  ChannelInv'
<1>1. SessionInv'
  BY SessionNextInv DEF ChannelInv
<1>2. ASSUME robbed' = {} PROVE QueueInv'
  <2>1. robbed = {}
    BY <1>2, RobbedGrows
  <2>2. StartInv /\ StartInv' /\ AloneInv /\ QueueInv
    BY <1>1, <2>1 DEF ChannelInv, SessionInv, AloneInv, AttachedIsCurrent, ClosedIsDetached
  <2> QED BY <1>2, <2>2, QueueNext
<1> QED BY <1>1, <1>2 DEF ChannelInv

THEOREM SessionChannelInvariant == Spec => []ChannelInv
<1>1. ChannelInv /\ [Next]_vars => ChannelInv'
  BY ChannelNextInv
<1> QED BY <1>1, ChannelInitInv, PTL DEF Spec

\* For any number of sessions, messages and raw keys: when the onDisconnect hook of a
\* connection is called, every message it was given has been handled, and none comes later
\* (ClientConnection.ts:159-163).
THEOREM SessionHandledBeforeDisconnect == Spec => []HandledBeforeDisconnect
<1>1. ChannelInv => HandledBeforeDisconnect
  <2> SUFFICES ASSUME ChannelInv, robbed = {}, NEW s \in Sessions, disconnect[s] \in {"hook", "done"}
               PROVE  delivered[s] = (IF attempt[s] = "abandoned" THEN <<>> ELSE accepted[s])
    BY DEF HandledBeforeDisconnect
  <2>1. StartInv /\ QueueInv
    BY DEF ChannelInv, SessionInv
  <2>2. disconnect[s] # "none" /\ messageQueue[s] = <<>> /\ delivered[s] \in Seq(Messages)
    BY <2>1 DEF QueueInv, ClosedIsLeft, StartInv, TypeOK
  <2>3. CASE attempt[s] = "abandoned"
    BY <2>1, <2>2, <2>3 DEF QueueInv, ClosedIsLeft
  <2>4. CASE attempt[s] \in Made
    <3>1. accepted[s] = delivered[s] \o <<>>
      BY <2>1, <2>2, <2>4 DEF QueueInv, AcceptedIsInOrder
    <3> QED BY <2>2, <2>4, <3>1, ConcatEmptySeq DEF Made
  <2>5. attempt[s] \in Made \cup {"abandoned"}
    BY <2>1, <2>2 DEF QueueInv, AcceptedIsInOrder, StartInv, TypeOK, Waiting, Made
  <2> QED BY <2>3, <2>4, <2>5
<1> QED BY <1>1, SessionChannelInvariant, PTL

-----------------------------------------------------------------------------
(* The session implements the channel, if connections are attached whatever *)
(* state the websocket is in.                                              *)

Discarded == {s \in Sessions : attempt[s] \in {"rejected", "abandoned"}}
Shut == {s \in Sessions : Ended(s)}

\* A session that has ended stays so.
EndedStays ==
    /\ \A s \in Sessions : Ended(s) => Ended(s)'
    /\ \A s \in Sessions : attempt[s] \in {"rejected", "abandoned"} =>
                              attempt'[s] \in {"rejected", "abandoned"}

\* What was discarded belonged to a session that nothing leads to any more.
LEMMA DiscardedIsEnded ==
    ASSUME ~DocumentAwareness, StartInv', QueueInv', NEW s \in Sessions,
           attempt'[s] \in {"rejected", "abandoned"}
    PROVE  Ended(s)'
<1>1. keyOf'[s] \in Keys /\ keyOf'[s] # Undefined
  BY KeysAssumption DEF StartInv, EntriesAreStarted
<1>2. CASE attempt'[s] = "rejected"
  BY <1>1, <1>2, SessionsAreNumbers DEF QueueInv, EntriesBelongTogether, Made, Waiting, Ended
<1>3. CASE attempt'[s] = "abandoned"
  BY <1>1, <1>3 DEF QueueInv, ClosedIsLeft, Ended
<1> QED BY <1>2, <1>3

LEMMA EndStep ==
    ASSUME ~DocumentAwareness, StartInv', QueueInv', EndedStays, UNCHANGED <<accepted, delivered>>
    PROVE  SessionChannel!ChannelNext
<1>1. Shut' = Shut \cup Shut' /\ Discarded' = Discarded \cup (Discarded' \ Discarded)
  BY DEF Shut, Discarded, EndedStays
<1>2. Discarded' \ Discarded \in SUBSET Shut' /\ Shut' \in SUBSET Sessions
  BY DiscardedIsEnded DEF Shut, Discarded
<1>3. PICK S \in SUBSET Sessions : S = Shut'
  BY <1>2
<1>4. SessionChannel!End(S)
  BY <1>1, <1>2, <1>3 DEF SessionChannel!End, Shut, Discarded
<1> QED BY <1>4 DEF SessionChannel!ChannelNext

\* Entries are deleted, or are those of a session that has not ended.
LEMMA EndedStaysWhen ==
    ASSUME UNCHANGED keyOf, StartInv,
           \A s \in Sessions : Ended(s) =>
              /\ attempt'[s] = attempt[s] \/ attempt'[s] \notin {"authenticating", "loading"}
              /\ hookPayloads'[keyOf[s]] # s /\ documentConnections'[keyOf[s]] # s,
           \A s \in Sessions : attempt[s] \in {"rejected", "abandoned"} =>
                              attempt'[s] \in {"rejected", "abandoned"}
    PROVE  EndedStays
BY DEF EndedStays, Ended

LEMMA CloseEnds ==
    ASSUME ~DocumentAwareness, StartInv, StartInv', QueueInv', NEW C, Close(C),
           UNCHANGED <<keyOf, attempt, accepted, delivered>>
    PROVE  SessionChannel!ChannelNext
<1>1. \A j \in Keys : /\ hookPayloads'[j] \in {hookPayloads[j], NoSession}
                     /\ documentConnections'[j] \in {documentConnections[j], NoSession}
  BY DEF Close, CloseConnections
<1>2. \A s \in Sessions : Ended(s) => keyOf[s] \in Keys
  BY DEF Ended, StartInv, TypeOK
<1>3. EndedStays
  BY <1>1, <1>2, EndedStaysWhen, SessionsAreNumbers DEF Ended
<1> QED BY <1>3, EndStep

LEMMA AcceptStep ==
    ASSUME StartInv, StartInv', QueueInv, NEW k \in Keys, NEW kind \in Kinds, ReceiveConnected(k, kind)
    PROVE  SessionChannel!ChannelNext
<1>1. ConnectionFor(k) \in Sessions /\ ~Ended(ConnectionFor(k))
  BY KeysAssumption DEF StartInv, TypeOK, EntriesAreStarted, ReceiveConnected, ConnectionFor, Ended
<1>2. MessageOf(kind) \in Messages
  BY MessageIsTyped DEF StartInv, ReceiveConnected
<1>3. SessionChannel!Accept(ConnectionFor(k), MessageOf(kind))
  BY <1>1 DEF SessionChannel!Accept, ReceiveConnected, clientVars, connectionVars, Ended
<1> HIDE DEF SessionChannel!Accept
<1>4. PICK s \in Sessions, m \in Messages : SessionChannel!Accept(s, m)
  BY <1>1, <1>2, <1>3
<1> QED BY <1>4 DEF SessionChannel!ChannelNext

LEMMA AcceptQueueingStep ==
    ASSUME StartInv, StartInv', QueueInv, NEW k \in Keys, NEW kind \in Kinds, ReceiveQueueing(k, kind)
    PROVE  SessionChannel!ChannelNext \/ UNCHANGED SessionChannel!channelVars
<1> DEFINE m == MessageOf(kind)
<1>1. PICK t \in Sessions :
      /\ t = hookPayloads'[k] /\ keyOf'[t] = k /\ attempt[t] \in Waiting
      /\ hookPayloads' = [hookPayloads EXCEPT ![k] = t]
      /\ keyOf' = [keyOf EXCEPT ![t] = k]
      /\ hookPayloads[k] # NoSession => hookPayloads[k] = t
  BY QueueingSession
<1>2. m \in Messages
  BY MessageIsTyped DEF StartInv, ReceiveQueueing
<1>3. ~Ended(t)
  <2>1. CASE incomingMessageQueue[k] = Undefined
    <3>1. t = Cardinality({u \in Sessions : keyOf[u] # Undefined}) + 1
      <4>1. StartSession(k)
        BY <2>1 DEF ReceiveQueueing
      <4> QED BY <1>1, <4>1 DEF StartSession, StartInv, TypeOK
    <3>2. keyOf[t] = Undefined
      <4>1. \A u \in Sessions : keyOf[u] # Undefined <=> u <= t - 1
        BY <1>1, <3>1, NextSessionIsFree DEF StartInv
      <4> QED BY <1>1, <4>1, SessionsAreNumbers
    <3> QED BY <3>2 DEF Ended
  <2>2. CASE incomingMessageQueue[k] # Undefined
    <3>1. hookPayloads[k] = t /\ keyOf[t] = k
      BY <2>2, <1>1 DEF QueueInv, EntriesBelongTogether, StartInv, EntriesAreStarted
    <3> QED BY <3>1 DEF Ended
  <2> QED BY <2>1, <2>2
<1>4. UNCHANGED <<documentConnections, delivered>>
  BY DEF ReceiveQueueing
<1>5. \/ attempt' = attempt /\ accepted' = [accepted EXCEPT ![t] = Append(accepted[t], m)]
      \/ attempt' = [attempt EXCEPT ![t] = "authenticating"] /\ accepted' = accepted
  <2>1. CASE StartsAttempt(k, kind)
    BY <2>1, <1>1 DEF ReceiveQueueing
  <2>2. CASE ~StartsAttempt(k, kind)
    BY <2>2, <1>1 DEF ReceiveQueueing
  <2> QED BY <2>1, <2>2
<1> HIDE DEF m
<1>6. ~Ended(t)'
  BY <1>1 DEF Ended
<1>7. \A s \in Sessions \ {t} : attempt'[s] = attempt[s] /\ keyOf'[s] = keyOf[s]
  BY <1>1, <1>5 DEF StartInv, TypeOK
<1>8. \A s \in Sessions \ {t} : Ended(s)' <=> Ended(s)
  <2> SUFFICES ASSUME NEW s \in Sessions \ {t}, keyOf[s] # Undefined
               PROVE  Ended(s)' <=> Ended(s)
    BY <1>7 DEF Ended
  <2>1. keyOf[s] \in Keys /\ (hookPayloads'[keyOf[s]] = s <=> hookPayloads[keyOf[s]] = s)
    BY <1>1, SessionsAreNumbers DEF StartInv, TypeOK
  <2> QED BY <2>1, <1>4, <1>7 DEF Ended
<1>9. Shut' = Shut
  <2>1. \A s \in Sessions : Ended(s)' <=> Ended(s)
    BY <1>3, <1>6, <1>8
  <2> QED BY <2>1 DEF Shut
<1>10. Discarded' = Discarded
  BY <1>1, <1>5, <1>7 DEF Discarded, Waiting, StartInv, TypeOK
<1>11. CASE accepted' = [accepted EXCEPT ![t] = Append(accepted[t], m)]
  <2>1. SessionChannel!Accept(t, m)
    BY <1>1, <1>3, <1>4, <1>9, <1>10, <1>11 DEF SessionChannel!Accept, Shut, Discarded
  <2> QED BY <1>1, <1>2, <2>1 DEF SessionChannel!ChannelNext
<1>12. CASE accepted' = accepted
  BY <1>4, <1>9, <1>10, <1>12 DEF SessionChannel!channelVars, Shut, Discarded
<1> QED BY <1>5, <1>11, <1>12

LEMMA DeliverStep ==
    ASSUME ~DocumentAwareness, StartInv, AloneInv, QueueInv, NEW s \in Sessions, ProcessMessage(s)
    PROVE  SessionChannel!ChannelNext
<1>1. attempt[s] \in Made /\ messageQueue[s] # <<>>
  BY DEF ProcessMessage, QueueInv, AcceptedIsInOrder, ClosedIsLeft, StartInv, TypeOK, Made, Waiting
<1>2. UNCHANGED <<keyOf, attempt, accepted>>
  BY DEF ProcessMessage
\* The message that is handled is the next of those accepted.
<1>3. /\ Len(delivered[s]) < Len(accepted[s])
      /\ delivered' = [delivered EXCEPT ![s] = Append(delivered[s], accepted[s][Len(delivered[s]) + 1])]
  <2>1. messageQueue[s] \in Seq(Messages) /\ delivered[s] \in Seq(Messages)
    BY DEF StartInv, TypeOK
  <2>2. accepted[s] = delivered[s] \o messageQueue[s]
    BY <1>1 DEF QueueInv, AcceptedIsInOrder
  <2>3. Len(delivered[s]) < Len(accepted[s]) /\ accepted[s][Len(delivered[s]) + 1] = Head(messageQueue[s])
    BY <1>1, <2>1, <2>2, HeadIsNext
  <2> QED BY <2>3, MessageIsMoved
\* Its handling ends no other session.
<1>4. \A t \in Sessions \ {s} : Ended(t)' <=> Ended(t)
  <2>1. CASE UNCHANGED <<clientVars, connectionVars>>
    BY <1>2, <2>1 DEF Ended, clientVars
  <2>2. CASE Close({s})
    <3> SUFFICES ASSUME NEW t \in Sessions \ {s}, keyOf[t] \in Keys
                 PROVE  Ended(t)' <=> Ended(t)
      BY <1>2 DEF Ended, StartInv, TypeOK
    <3> DEFINE k == keyOf[t]
               gone == {keyOf[u] : u \in {s} \cap attached}
    <3>1. /\ hookPayloads'[k] = IF k \in gone THEN NoSession ELSE hookPayloads[k]
          /\ documentConnections'[k] = IF k \in gone THEN NoSession ELSE documentConnections[k]
      BY <2>2 DEF Close, CloseConnections
    <3>2. k \in gone => documentConnections[k] = s /\ hookPayloads[k] \in {s, NoSession}
      BY AttachedHasKey, SessionsAreNumbers DEF QueueInv, EntriesBelongTogether
    <3> HIDE DEF gone
    <3>3. /\ hookPayloads'[k] = t <=> hookPayloads[k] = t
          /\ documentConnections'[k] = t <=> documentConnections[k] = t
      BY <3>1, <3>2, SessionsAreNumbers
    <3> QED BY <1>2, <3>3 DEF Ended
  <2> QED BY <2>1, <2>2 DEF ProcessMessage
<1>5. Ended(s) => Ended(s)'
  <2>1. \A j \in Keys : /\ hookPayloads'[j] \in {hookPayloads[j], NoSession}
                       /\ documentConnections'[j] \in {documentConnections[j], NoSession}
    BY DEF ProcessMessage, Close, CloseConnections, clientVars, StartInv, TypeOK
  <2> QED BY <1>2, <2>1, SessionsAreNumbers DEF Ended, StartInv, TypeOK
<1>6. Shut' \in {Shut, Shut \cup {s}}
  BY <1>4, <1>5 DEF Shut
<1>7. Discarded' = Discarded /\ s \notin Discarded
  BY <1>1, <1>2 DEF Discarded, Made
<1>8. SessionChannel!Deliver(s)
  BY <1>2, <1>3, <1>6, <1>7 DEF SessionChannel!Deliver, Shut, Discarded
<1> QED BY <1>8 DEF SessionChannel!ChannelNext

LEMMA ChannelStep ==
    ASSUME ~DocumentAwareness, StartInv, StartInv', AloneInv, QueueInv, QueueInv', [Next]_vars,
           robbed' = {}
    PROVE  SessionChannel!ChannelNext \/ UNCHANGED SessionChannel!channelVars
<1> DEFINE step == SessionChannel!ChannelNext \/ UNCHANGED SessionChannel!channelVars
<1> USE DEF vars, clientVars, connectionVars, history
<1>1. ASSUME NEW k \in Keys, NEW kind \in Kinds, ReceiveConnected(k, kind) PROVE step
  BY <1>1, AcceptStep
<1>2. ASSUME NEW k \in Keys, NEW kind \in Kinds, ReceiveQueueing(k, kind) PROVE step
  BY <1>2, AcceptQueueingStep
<1>3. ASSUME EndedStays, UNCHANGED <<accepted, delivered>> PROVE step
  BY <1>3, EndStep
<1> HIDE DEF step
\* Entries are left alone, or deleted.
<1>4. ASSUME UNCHANGED <<keyOf, accepted, delivered, documentConnections>>,
             \A j \in Keys : hookPayloads'[j] \in {hookPayloads[j], NoSession},
             NEW s \in Sessions, NEW next, attempt' = [attempt EXCEPT ![s] = next],
             ~Ended(s) \/ next \notin {"authenticating", "loading"},
             attempt[s] \notin {"rejected", "abandoned"}
      PROVE  step
  <2>1. \A t \in Sessions : attempt'[t] = IF t = s THEN next ELSE attempt[t]
    BY <1>4 DEF StartInv, TypeOK
  <2>2. \A t \in Sessions : Ended(t) => keyOf[t] \in Keys
    BY DEF Ended, StartInv, TypeOK
  <2>3. EndedStays
    BY <1>4, <2>1, <2>2, EndedStaysWhen, SessionsAreNumbers DEF Ended
  <2> QED BY <1>3, <1>4, <2>3
<1>5. ASSUME NEW s \in Sessions, NEW outcome \in {"rejected", "denied"},
             attempt[s] \notin {"rejected", "abandoned"}, Reject(s, outcome),
             UNCHANGED <<keyOf, accepted, delivered, documentConnections>>
      PROVE  step
  <2>1. \A j \in Keys : hookPayloads'[j] \in {hookPayloads[j], NoSession}
    BY <1>5 DEF Reject, StartInv, TypeOK
  <2>2. attempt' = [attempt EXCEPT ![s] = outcome] /\ outcome \notin {"authenticating", "loading"}
    BY <1>5 DEF Reject
  <2> QED BY <1>4, <1>5, <2>1, <2>2
<1>6. ASSUME NEW s \in Sessions, Authenticate(s) PROVE step
  <2>1. hookPayloads[keyOf[s]] = s /\ s # NoSession /\ attempt[s] = "authenticating"
    BY <1>6, SessionsAreNumbers DEF Authenticate, AloneInv, AttemptsAreAlone
  <2>2. /\ attempt' = [attempt EXCEPT ![s] = "loading"]
        /\ UNCHANGED <<keyOf, hookPayloads, documentConnections, accepted, delivered>>
    BY <1>6, <2>1 DEF Authenticate
  <2> QED BY <1>4, <2>1, <2>2 DEF Ended
<1>7. ASSUME NEW s \in Sessions, HookRejects(s) PROVE step
  BY <1>5, <1>7 DEF HookRejects
<1>8. ASSUME NEW s \in Sessions, DocumentLoaded(s) PROVE step
  <2>1. /\ attempt[s] = "loading" /\ keyOf[s] \in Keys
        /\ UNCHANGED <<keyOf, accepted, delivered>>
    BY <1>8 DEF DocumentLoaded, StartInv, EntriesAreStarted
  <2>2. /\ attempt' \in {[attempt EXCEPT ![s] = "abandoned"], [attempt EXCEPT ![s] = "connecting"]}
        /\ \A j \in Keys : /\ hookPayloads'[j] \in {hookPayloads[j], NoSession}
                           /\ documentConnections'[j] \in {documentConnections[j], s, NoSession}
    <3> DEFINE table == [documentConnections EXCEPT ![keyOf[s]] = s]
    <3>1. \A j \in Keys : table[j] \in {documentConnections[j], s}
      BY DEF StartInv, TypeOK
    <3>2. CASE WebSocketGone
      <4>1. CloseAtSetUp(s, table) /\ attempt' = [attempt EXCEPT ![s] = "abandoned"]
        BY <1>8, <3>2 DEF DocumentLoaded
      <4> HIDE DEF table
      <4> QED BY <3>1, <4>1 DEF CloseAtSetUp, CloseConnections
    <3>3. CASE ~WebSocketGone
      <4>1. /\ documentConnections' = table /\ hookPayloads' = hookPayloads
            /\ attempt' = [attempt EXCEPT ![s] = "connecting"]
        BY <1>8, <3>3 DEF DocumentLoaded
      <4> HIDE DEF table
      <4> QED BY <3>1, <4>1
    <3> QED BY <3>2, <3>3
  <2>3. \A t \in Sessions : Ended(t) => keyOf[t] \in Keys /\ t # s
    BY <2>1 DEF Ended, StartInv, TypeOK
  <2>4. \A t \in Sessions \ {s} : attempt'[t] = attempt[t]
    BY <2>2 DEF StartInv, TypeOK
  <2>5. EndedStays
    BY <2>1, <2>2, <2>3, <2>4, EndedStaysWhen, SessionsAreNumbers DEF Ended
  <2> QED BY <1>3, <2>1, <2>5
<1>9. ASSUME NEW s \in Sessions, ConnectedResolves(s) PROVE step
  BY <1>4, <1>9 DEF ConnectedResolves
<1>10. ASSUME NEW s \in Sessions, ConnectedRejects(s) PROVE step
  BY <1>5, <1>10 DEF ConnectedRejects
<1>11. ASSUME NEW s \in Sessions, ProcessMessage(s) PROVE step
  BY <1>11, DeliverStep DEF step
<1>12. ASSUME NEW C, Close(C), UNCHANGED <<keyOf, attempt, accepted, delivered>> PROVE step
  BY <1>12, CloseEnds DEF step
<1>13. ASSUME NEW s \in Sessions, TokenSyncSettles(s) PROVE step
  <2>1. Close({s}) \/ Close({})
    BY <1>13, NothingIsClosed DEF TokenSyncSettles
  <2> QED BY <1>12, <1>13, <2>1 DEF TokenSyncSettles
<1>14. ASSUME HandleClose \/ Check PROVE step
  <2>1. /\ Close(Range(documentConnections) \ {NoSession})
        /\ UNCHANGED <<keyOf, attempt, accepted, delivered>>
    BY <1>14 DEF HandleClose, Check, CloseAll
  <2> QED BY <1>12, <2>1
<1>15. ASSUME UNCHANGED <<keyOf, clientVars, attempt, accepted, delivered>> PROVE step
  BY <1>15 DEF step, SessionChannel!channelVars, Ended
<1>16. ASSUME NEW s \in Sessions, CallOnDisconnect(s) \/ Disconnected(s) PROVE step
  BY <1>15, <1>16 DEF CallOnDisconnect, Disconnected
<1>17. ASSUME WebSocketCloses \/ UNCHANGED vars PROVE step
  <2>1. UNCHANGED <<keyOf, clientVars, attempt, accepted, delivered>>
    BY <1>17 DEF WebSocketCloses
  <2> QED BY <1>15, <2>1
<1>18. step
  BY <1>1, <1>2, <1>6, <1>7, <1>8, <1>9, <1>10, <1>11, <1>13, <1>14, <1>16, <1>17 DEF Next
<1> QED BY <1>18 DEF step

\* The session handles what its client sends in order, each message at most once and the
\* ones that waited for the connection first, for any number of sessions, messages and raw
\* keys (ClientConnection.ts:411-420, Connection.ts:240-265); where connecting sends the
\* awareness of others to a websocket that is gone, it does not (ClientConnection.ts:277).
THEOREM SessionImplementsChannel ==
    ASSUME ~DocumentAwareness
    PROVE  Spec => ChannelSpec
<1>1. Init => SessionChannel!ChannelInit
  BY DEF Init, SessionChannel!ChannelInit, Ended
<1>2. ChannelInv /\ ChannelInv' /\ [Next]_vars
         => [robbed' = {} => SessionChannel!ChannelNext]_(SessionChannel!channelVars)
  <2> SUFFICES ASSUME ChannelInv, ChannelInv', [Next]_vars, robbed' = {}
               PROVE  SessionChannel!ChannelNext \/ UNCHANGED SessionChannel!channelVars
    OBVIOUS
  <2>1. robbed = {}
    BY RobbedGrows
  <2>2. StartInv /\ StartInv' /\ AloneInv /\ QueueInv /\ QueueInv'
    BY <2>1 DEF ChannelInv, SessionInv, AloneInv, AttachedIsCurrent, ClosedIsDetached
  <2> QED BY <2>2, ChannelStep
<1> QED BY <1>1, <1>2, SessionChannelInvariant, PTL DEF Spec, ChannelSpec
=============================================================================
