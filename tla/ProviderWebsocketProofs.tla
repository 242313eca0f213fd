----------------------- MODULE ProviderWebsocketProofs -----------------------
(***************************************************************************)
(* For every number of providers, loops, timers, calls, messages and       *)
(* faults: the status is that of the websocket, the provider of the name   *)
(* is told of it, the queue keeps its order and loses or repeats nothing   *)
(* that it sends, and the retries do not die.                              *)
(***************************************************************************)
EXTENDS ProviderWebsocket, FiniteSetTheorems, FunctionTheorems, SequenceTheorems, TLAPS

\* The types, in parts that change together.
FlagsTyped ==
    /\ webSocket \in {"none", "connecting", "open", "closing"}
    /\ status \in {"disconnected", "connecting", "connected"}
    /\ shouldConnect \in BOOLEAN /\ payload \in BOOLEAN /\ heard \in BOOLEAN
    /\ destroyed \in BOOLEAN /\ unwanted \in BOOLEAN

CountersTyped ==
    /\ timers \in Nat /\ closeTries \in 0 .. 2
    /\ calls \in 0 .. MaxCalls /\ faults \in 0 .. MaxFaults

\* The loop of a connection attempt waits for it, and nobody has cancelled it.
LoopsTyped ==
    /\ loops \in Seq(Loop) /\ current \in 0 .. Len(loops) /\ attempt \in 0 .. Len(loops)
    /\ attempt # 0 => loops[attempt].phase = "attempting" /\ ~loops[attempt].cancelled

\* The provider of the name listens.
ProvidersTyped ==
    /\ attached \subseteq Providers /\ authenticated \subseteq attached
    /\ opened \subseteq Providers
    /\ routed \in attached \cup {NoProvider}

QueueTyped ==
    /\ messageQueue \in Seq(QueuedMessage) /\ sends \in Nat /\ wire \subseteq 1 .. sends
    /\ \A i \in DOMAIN messageQueue : messageQueue[i].n \in 1 .. sends

\* The open event has set what attach() and onClose look at, and only a websocket that
\* nobody wants is closed before it; one that has not opened is somebody's attempt.
OpenIsAnnounced ==
    ~destroyed =>
        /\ webSocket = "open" => payload /\ current = 0
        /\ webSocket = "closing" /\ shouldConnect => current = 0
        /\ webSocket = "connecting" => attempt # 0

\* The inductive invariant.
SocketInv ==
    /\ FlagsTyped
    /\ CountersTyped
    /\ LoopsTyped
    /\ ProvidersTyped
    /\ QueueTyped
    /\ OpenIsAnnounced
    /\ StatusMatches
    /\ AttachedAreOpened
    /\ QueueIsSound
    /\ RetryIsComing

-----------------------------------------------------------------------------
\* The k-th of a set of positions is one of them, and comes after the ones before it.
LEMMA PositionsInOrder ==
    ASSUME NEW n \in Nat, NEW I, I \subseteq 1 .. n
    PROVE  /\ IsFiniteSet(I) /\ Cardinality(I) \in Nat
           /\ \A k \in 1 .. Cardinality(I) : Position(I, k) \in I
           /\ \A k, l \in 1 .. Cardinality(I) : k < l => Position(I, k) < Position(I, l)
<1> DEFINE UpTo(i) == {j \in I : j <= i}
           size == Cardinality(I)
           rank == [i \in I |-> Cardinality(UpTo(i))]
<1>0. \A i \in I : i \in Nat
  OBVIOUS
<1>1. IsFiniteSet(I) /\ size \in Nat
  <2>1. IsFiniteSet(1 .. n)
    BY FS_Interval
  <2> QED BY <2>1, FS_Subset, FS_CardinalityType
<1>2. \A i \in I : IsFiniteSet(UpTo(i)) /\ Cardinality(UpTo(i)) \in 1 .. size
  <2> SUFFICES ASSUME NEW i \in I
               PROVE  IsFiniteSet(UpTo(i)) /\ Cardinality(UpTo(i)) \in 1 .. size
    OBVIOUS
  <2>1. UpTo(i) \subseteq I /\ i \in UpTo(i)
    <3>1. i <= i
      BY <1>0
    <3> QED BY <3>1
  <2> HIDE DEF UpTo
  <2>2. IsFiniteSet(UpTo(i)) /\ Cardinality(UpTo(i)) <= size
    BY <1>1, <2>1, FS_Subset
  <2>3. Cardinality(UpTo(i)) \in Nat /\ Cardinality(UpTo(i)) # 0
    BY <2>1, <2>2, FS_CardinalityType, FS_EmptySet
  <2> QED BY <1>1, <2>2, <2>3
<1>3. \A i, j \in I : i <= j => Cardinality(UpTo(i)) <= Cardinality(UpTo(j))
  <2> SUFFICES ASSUME NEW i \in I, NEW j \in I, i <= j
               PROVE  Cardinality(UpTo(i)) <= Cardinality(UpTo(j))
    OBVIOUS
  <2>1. UpTo(i) \subseteq UpTo(j)
    <3>1. \A k \in I : k <= i => k <= j
      BY <1>0
    <3> QED BY <3>1
  <2>2. IsFiniteSet(UpTo(j))
    BY <1>2
  <2> HIDE DEF UpTo
  <2> QED BY <2>1, <2>2, FS_Subset
<1>4. \A i, j \in I : i < j => Cardinality(UpTo(i)) # Cardinality(UpTo(j))
  <2> SUFFICES ASSUME NEW i \in I, NEW j \in I, i < j
               PROVE  Cardinality(UpTo(i)) # Cardinality(UpTo(j))
    OBVIOUS
  <2>1. UpTo(i) \subseteq UpTo(j) /\ j \in UpTo(j) /\ j \notin UpTo(i)
    <3>1. j <= j /\ ~(j <= i) /\ \A k \in I : k <= i => k <= j
      BY <1>0
    <3> QED BY <3>1
  <2>2. IsFiniteSet(UpTo(j))
    BY <1>2
  <2> HIDE DEF UpTo
  <2> QED BY <2>1, <2>2, FS_Subset
<1>5. rank \in Injection(I, 1 .. size)
  <2>1. rank \in [I -> 1 .. size]
    BY <1>2
  <2>2. ASSUME NEW i \in I, NEW j \in I, i # j PROVE rank[i] # rank[j]
    BY <1>4, <2>2
  <2> QED BY <2>1, <2>2, Fun_IsInj
<1>6. rank \in Surjection(I, 1 .. size)
  <2>1. IsFiniteSet(1 .. size) /\ Cardinality(1 .. size) = size
    BY <1>1, FS_Interval
  <2> HIDE DEF rank
  <2> QED BY <1>1, <1>5, <2>1, FS_Injection
<1>7. \A k \in 1 .. size : Position(I, k) \in I /\ Cardinality(UpTo(Position(I, k))) = k
  <2> SUFFICES ASSUME NEW k \in 1 .. size
               PROVE  Position(I, k) \in I /\ Cardinality(UpTo(Position(I, k))) = k
    OBVIOUS
  <2>1. \E i \in I : rank[i] = k
    BY <1>6 DEF Surjection
  <2>2. \E i \in I : Cardinality({j \in I : j <= i}) = k
    BY <2>1
  <2> DEFINE P(i) == Cardinality({j \in I : j <= i}) = k
  <2>3. Position(I, k) = CHOOSE i \in I : P(i)
    BY DEF Position
  <2>4. \E i \in I : P(i)
    BY <2>2
  <2> HIDE DEF P
  <2>5. Position(I, k) \in I /\ P(Position(I, k))
    BY <2>3, <2>4, Zenon
  <2> QED BY <2>5 DEF P
<1>8. ASSUME NEW k \in 1 .. size, NEW l \in 1 .. size, k < l
      PROVE  Position(I, k) < Position(I, l)
  <2>1. Position(I, k) \in I /\ Position(I, l) \in I /\ Position(I, k) \in Nat /\ Position(I, l) \in Nat
    BY <1>7, <1>0
  <2>2. CASE Position(I, l) <= Position(I, k)
    <3>1. Cardinality(UpTo(Position(I, l))) <= Cardinality(UpTo(Position(I, k)))
      BY <1>3, <2>1, <2>2
    <3>2. l <= k
      BY <3>1, <1>7
    <3> QED BY <3>2, <1>8, <1>1
  <2>3. \A p, q \in Nat : ~(q <= p) => p < q
    OBVIOUS
  <2> QED BY <2>1, <2>2, <2>3
<1> QED BY <1>1, <1>7, <1>8

\* What is filtered is a sequence of messages of the queue, in their order.
LEMMA FilteredInOrder ==
    ASSUME NEW T, NEW queue \in Seq(T), NEW I, I \subseteq DOMAIN queue
    PROVE  /\ Filtered(queue, I) \in Seq(T)
           /\ \A k \in DOMAIN Filtered(queue, I) :
                Position(I, k) \in I /\ Filtered(queue, I)[k] = queue[Position(I, k)]
           /\ \A k, l \in DOMAIN Filtered(queue, I) : k < l => Position(I, k) < Position(I, l)
<1>1. DOMAIN queue = 1 .. Len(queue) /\ Len(queue) \in Nat
  OBVIOUS
<1>2. /\ Cardinality(I) \in Nat
      /\ \A k \in 1 .. Cardinality(I) : Position(I, k) \in I
      /\ \A k, l \in 1 .. Cardinality(I) : k < l => Position(I, k) < Position(I, l)
  BY <1>1, PositionsInOrder
<1>3. \A k \in 1 .. Cardinality(I) : queue[Position(I, k)] \in T
  BY <1>1, <1>2
<1>4. Filtered(queue, I) \in Seq(T)
  BY <1>2, <1>3, IsASeq DEF Filtered
<1>5. DOMAIN Filtered(queue, I) = 1 .. Cardinality(I)
  BY DEF Filtered
<1>6. \A k \in 1 .. Cardinality(I) : Filtered(queue, I)[k] = queue[Position(I, k)]
  BY DEF Filtered
<1> QED BY <1>2, <1>4, <1>5, <1>6

-----------------------------------------------------------------------------
LEMMA SocketInitInv == Init => SocketInv
<1> SUFFICES ASSUME Init PROVE SocketInv
  OBVIOUS
<1> USE ProviderWebsocketAssumption DEF Init
<1>1. LoopsTyped
  <2>1. CASE shouldConnect
    <3>1. /\ loops = <<[phase |-> "attempting", cancelled |-> FALSE]>>
          /\ current = 1 /\ attempt = 1
      BY <2>1
    <3>2. [phase |-> "attempting", cancelled |-> FALSE] \in Loop
      BY DEF Loop
    <3> QED BY <3>1, <3>2 DEF LoopsTyped
  <2>2. CASE ~shouldConnect
    BY <2>2 DEF LoopsTyped
  <2> QED BY <2>1, <2>2
<1>2. FlagsTyped
  <2>1. /\ webSocket \in {"none", "connecting"} /\ status \in {"disconnected", "connecting"}
        /\ shouldConnect \in BOOLEAN
    OBVIOUS
  <2>2. /\ payload \in BOOLEAN /\ heard \in BOOLEAN
        /\ destroyed \in BOOLEAN /\ unwanted \in BOOLEAN
    OBVIOUS
  <2> QED BY <2>1, <2>2 DEF FlagsTyped
<1>3. CountersTyped /\ ProvidersTyped /\ QueueTyped
  BY DEF CountersTyped, ProvidersTyped, QueueTyped
<1>4. StatusMatches /\ AttachedAreOpened /\ RetryIsComing /\ OpenIsAnnounced
  BY DEF StatusMatches, AttachedAreOpened, RetryIsComing, OpenIsAnnounced
<1>5. QueueIsSound
  BY DEF QueueIsSound, Queued
<1> QED BY <1>1, <1>2, <1>3, <1>4, <1>5 DEF SocketInv

-----------------------------------------------------------------------------
(* The queue. *)

LEMMA QueuedMessages ==
    ASSUME SocketInv
    PROVE  /\ sends \in Nat
           /\ \A i \in DOMAIN messageQueue :
                /\ messageQueue[i].n \in Nat /\ messageQueue[i].n <= sends
                /\ messageQueue[i].n \notin wire
<1>1. sends \in Nat
  BY DEF SocketInv, QueueTyped
<1>2. ASSUME NEW i \in DOMAIN messageQueue
      PROVE  messageQueue[i].n \in 1 .. sends /\ messageQueue[i].n \notin wire
  BY DEF SocketInv, QueueTyped, QueueIsSound, Queued
<1> QED BY <1>1, <1>2

\* The queue is left alone or emptied, and emptied when a websocket is established.
LEMMA QueueStays ==
    ASSUME SocketInv, messageQueue' \in {messageQueue, <<>>}, sends' = sends,
           wire' \in {wire, wire \cup Queued},
           wire' # wire => messageQueue' = <<>>,
           (webSocket' = "open" /\ attempt' = 0 /\ ~destroyed') =>
               \/ messageQueue' = <<>>
               \/ webSocket = "open" /\ attempt = 0 /\ ~destroyed
    PROVE  QueueTyped' /\ QueueIsSound'
<1> USE DEF SocketInv
<1>1. messageQueue' \in Seq(QueuedMessage) /\ sends' \in Nat
  <2>1. messageQueue \in Seq(QueuedMessage) /\ sends \in Nat
    BY DEF QueueTyped
  <2> QED BY <2>1, EmptySeq
<1>2. wire' \subseteq 1 .. sends'
  <2>1. Queued \subseteq 1 .. sends
    <3> SUFFICES ASSUME NEW i \in DOMAIN messageQueue PROVE messageQueue[i].n \in 1 .. sends
      BY DEF Queued
    <3> QED BY DEF QueueTyped
  <2> QED BY <2>1 DEF QueueTyped
<1>3. \A i \in DOMAIN messageQueue' : messageQueue'[i].n \in 1 .. sends'
  BY DEF QueueTyped
<1>4. QueueIsSound'
  BY DEF QueueIsSound, Queued
<1> QED BY <1>1, <1>2, <1>3, <1>4 DEF QueueTyped

\* send puts a message of its own number on the wire or at the end of the queue.
LEMMA SendKeepsQueue ==
    ASSUME SocketInv, NEW isAwareness \in BOOLEAN, Send(isAwareness),
           webSocket' = webSocket, attempt' = attempt, destroyed' = destroyed
    PROVE  QueueTyped' /\ QueueIsSound'
<1> USE DEF SocketInv
<1> DEFINE m == [n |-> sends + 1, awareness |-> isAwareness]
<1>1. sends \in Nat /\ sends' = sends + 1 /\ m \in QueuedMessage
  BY DEF Send, QueueTyped, QueuedMessage
<1>2. CASE webSocket = "open"
  <2>1. messageQueue' = messageQueue /\ wire' = wire \cup {sends + 1}
    BY <1>2 DEF Send
  <2>2. \A i \in DOMAIN messageQueue : messageQueue[i].n <= sends /\ messageQueue[i].n \in Nat
    BY QueuedMessages
  <2>3. wire' \subseteq 1 .. sends'
    BY <1>1, <2>1 DEF QueueTyped
  <2>4. \A i \in DOMAIN messageQueue' : messageQueue'[i].n \in 1 .. sends'
    BY <1>1, <2>1, <2>2 DEF QueueTyped
  <2>5. QueueIsSound'
    BY <1>1, <2>1, <2>2 DEF QueueIsSound, Queued
  <2> QED BY <1>1, <2>1, <2>3, <2>4, <2>5 DEF QueueTyped
<1>3. CASE webSocket # "open"
  <2> DEFINE kept == {i \in DOMAIN messageQueue : ~(m.awareness /\ messageQueue[i].awareness)}
             rest == Filtered(messageQueue, kept)
             at(k) == Position(kept, k)
  <2>1. messageQueue' = Append(rest, m) /\ wire' = wire
    BY <1>3 DEF Send, AddToQueue
  <2>2. /\ rest \in Seq(QueuedMessage)
        /\ \A k \in DOMAIN rest : at(k) \in kept /\ rest[k] = messageQueue[at(k)]
        /\ \A k, l \in DOMAIN rest : k < l => at(k) < at(l)
    BY FilteredInOrder DEF QueueTyped
  <2>3. \A i \in DOMAIN messageQueue :
            /\ messageQueue[i].n \in Nat /\ messageQueue[i].n <= sends
            /\ messageQueue[i].n \notin wire
    BY QueuedMessages
  <2>4. \A k \in DOMAIN rest :
            /\ rest[k].n \in Nat /\ rest[k].n <= sends /\ rest[k].n \notin wire
            /\ ~(m.awareness /\ rest[k].awareness)
    BY <2>2, <2>3
  <2>5. \A k, l \in DOMAIN rest : k < l =>
            /\ rest[k].n < rest[l].n
            /\ ~(rest[k].awareness /\ rest[l].awareness)
    BY <2>2 DEF QueueIsSound
  <2> HIDE DEF rest, at, kept, m
  <2>6. /\ messageQueue' \in Seq(QueuedMessage)
        /\ DOMAIN messageQueue' = DOMAIN rest \cup {Len(rest) + 1}
        /\ \A k \in DOMAIN rest : messageQueue'[k] = rest[k]
        /\ messageQueue'[Len(rest) + 1] = m
        /\ Len(rest) \in Nat /\ DOMAIN rest = 1 .. Len(rest)
    BY <1>1, <2>1, <2>2
  <2>7. m.n = sends + 1
    BY DEF m
  <2>8. \A i \in DOMAIN messageQueue' : messageQueue'[i].n \in 1 .. sends'
    <3>1. \A k \in DOMAIN rest : messageQueue'[k].n \in 1 .. sends'
      <4>1. \A k \in DOMAIN rest : rest[k].n \in 1 .. sends
        BY <2>2 DEF QueueTyped, kept
      <4> QED BY <1>1, <2>6, <4>1
    <3>2. messageQueue'[Len(rest) + 1].n \in 1 .. sends'
      BY <1>1, <2>6, <2>7
    <3> QED BY <3>1, <3>2, <2>6
  <2>9. QueueIsSound'
    <3>1. ASSUME NEW k \in DOMAIN messageQueue', NEW l \in DOMAIN messageQueue', k < l
          PROVE  /\ messageQueue'[k].n < messageQueue'[l].n
                 /\ ~(messageQueue'[k].awareness /\ messageQueue'[l].awareness)
      <4>1. k \in DOMAIN rest
        BY <2>6, <3>1
      <4>2. CASE l \in DOMAIN rest
        BY <2>5, <2>6, <3>1, <4>1, <4>2
      <4>3. CASE l = Len(rest) + 1
        BY <1>1, <2>4, <2>6, <2>7, <4>1, <4>3
      <4> QED BY <2>6, <4>2, <4>3
    <3>2. Queued' \cap wire' = {}
      <4> SUFFICES ASSUME NEW k \in DOMAIN messageQueue' PROVE messageQueue'[k].n \notin wire
        BY <2>1 DEF Queued
      <4>1. CASE k \in DOMAIN rest
        BY <2>4, <2>6, <4>1
      <4>2. CASE k = Len(rest) + 1
        BY <1>1, <2>6, <2>7, <4>2 DEF QueueTyped
      <4> QED BY <2>6, <4>1, <4>2
    <3> QED BY <3>1, <3>2, <1>3 DEF QueueIsSound
  <2>10. wire' \subseteq 1 .. sends' /\ sends' \in Nat
    BY <1>1, <2>1 DEF QueueTyped
  <2> QED BY <2>6, <2>8, <2>9, <2>10 DEF QueueTyped
<1> QED BY <1>2, <1>3

-----------------------------------------------------------------------------
(* The loops. *)

LEMMA PhaseChanges ==
    ASSUME NEW q \in Seq(Loop), NEW l \in 1 .. Len(q),
           NEW phase \in {"attempting", "due", "settled"}
    PROVE  /\ [q EXCEPT ![l].phase = phase] \in Seq(Loop)
           /\ Len([q EXCEPT ![l].phase = phase]) = Len(q)
           /\ [q EXCEPT ![l].phase = phase][l] = [phase |-> phase, cancelled |-> q[l].cancelled]
           /\ \A k \in 1 .. Len(q) : k # l => [q EXCEPT ![l].phase = phase][k] = q[k]
<1> DEFINE new == [q[l] EXCEPT !.phase = phase]
<1>1. q[l] \in Loop
  BY ElementOfSeq
<1>2. new = [phase |-> phase, cancelled |-> q[l].cancelled] /\ new \in Loop
  BY <1>1 DEF Loop
<1>3. [q EXCEPT ![l].phase = phase] = [q EXCEPT ![l] = new]
  OBVIOUS
<1> HIDE DEF new
<1> QED BY <1>2, <1>3, ExceptSeq

\* connect() with no connection: one more loop, which makes an attempt at once; every
\* loop before it keeps its phase.
LEMMA ConnectEffect ==
    ASSUME SocketInv, Connect, status # "connected"
    PROVE  /\ LoopsTyped' /\ attempt' # 0
           /\ webSocket' = "connecting" /\ status' = "connecting" /\ shouldConnect' = TRUE
           /\ payload' = FALSE /\ heard' = FALSE /\ opened' = {}
           /\ messageQueue' \in {messageQueue, <<>>}
<1> DEFINE new == [phase |-> "attempting", cancelled |-> FALSE]
<1>1. loops \in Seq(Loop) /\ Len(loops) \in Nat /\ DOMAIN loops = 1 .. Len(loops)
  BY LenProperties DEF SocketInv, LoopsTyped
<1>2. Cancelled \in Seq(Loop) /\ Len(Cancelled) = Len(loops)
  <2>1. \A l \in 1 .. Len(loops) :
            (IF l = current THEN [loops[l] EXCEPT !.cancelled = TRUE] ELSE loops[l]) \in Loop
    <3> SUFFICES ASSUME NEW l \in 1 .. Len(loops)
                 PROVE  (IF l = current THEN [loops[l] EXCEPT !.cancelled = TRUE] ELSE loops[l]) \in Loop
      OBVIOUS
    <3>1. loops[l] \in Loop
      BY <1>1
    <3> QED BY <3>1 DEF Loop
  <2>2. Cancelled \in [1 .. Len(loops) -> Loop]
    BY <1>1, <2>1 DEF Cancelled
  <2> QED BY <1>1, <2>2
<1>3. new \in Loop
  BY DEF Loop
<1>4. loops' = Append(Cancelled, new) /\ current' = Len(loops) + 1 /\ attempt' = Len(loops) + 1
  BY DEF Connect, Create
<1>5. /\ loops' \in Seq(Loop) /\ Len(loops') = Len(loops) + 1
      /\ loops'[Len(loops) + 1] = new
  BY <1>2, <1>3, <1>4
<1>6. LoopsTyped' /\ attempt' # 0
  BY <1>1, <1>4, <1>5 DEF LoopsTyped
<1> QED BY <1>6 DEF Connect, Create

\* Everything about a websocket that was created in this step, but for the loops.
LEMMA CreateKeepsInv ==
    ASSUME SocketInv, LoopsTyped', attempt' # 0, CountersTyped', destroyed' = destroyed,
           webSocket' = "connecting", status' = "connecting", heard' = FALSE, opened' = {},
           messageQueue' \in {messageQueue, <<>>}, wire' = wire, sends' = sends,
           shouldConnect' \in BOOLEAN, payload' \in BOOLEAN, unwanted' \in BOOLEAN,
           attached' \subseteq Providers, authenticated' \subseteq attached',
           routed' \in attached' \cup {NoProvider}
    PROVE  SocketInv'
<1> USE DEF SocketInv
<1>1. FlagsTyped'
  <2>1. destroyed' \in BOOLEAN /\ heard' \in BOOLEAN
    BY DEF FlagsTyped
  <2> QED BY <2>1 DEF FlagsTyped
<1>2. ProvidersTyped'
  BY DEF ProvidersTyped
<1>3. QueueTyped' /\ QueueIsSound'
  BY QueueStays
<1>4. OpenIsAnnounced' /\ StatusMatches' /\ AttachedAreOpened' /\ RetryIsComing'
  BY DEF OpenIsAnnounced, StatusMatches, AttachedAreOpened, RetryIsComing
<1> QED BY <1>1, <1>2, <1>3, <1>4

LEMMA SendMessageKeepsInv == SocketInv /\ SendMessage => SocketInv'
<1> SUFFICES ASSUME SocketInv, SendMessage PROVE SocketInv'
  OBVIOUS
<1>1. UNCHANGED <<socketVars, retryVars, providerVars, closeTries, destroyed, unwanted, calls, faults>>
  BY DEF SendMessage
<1>2. QueueTyped' /\ QueueIsSound'
  <2>1. PICK isAwareness \in BOOLEAN : Send(isAwareness)
    BY DEF SendMessage
  <2> QED BY <1>1, <2>1, SendKeepsQueue DEF socketVars
<1> QED BY <1>1, <1>2
    DEF SocketInv, socketVars, retryVars, providerVars, FlagsTyped, CountersTyped, LoopsTyped,
        ProvidersTyped, OpenIsAnnounced, StatusMatches, AttachedAreOpened, RetryIsComing

\* connect(), by whomever it is called.
LEMMA ConnectKeepsInv ==
    ASSUME SocketInv, Connect, CountersTyped', unwanted' \in BOOLEAN,
           attached' \subseteq Providers, authenticated' \subseteq attached',
           routed' \in attached' \cup {NoProvider},
           status = "connected" => UNCHANGED providerVars,
           UNCHANGED <<wire, sends, destroyed>>
    PROVE  SocketInv'
<1>1. CASE status # "connected"
  <2>1. shouldConnect' \in BOOLEAN /\ payload' \in BOOLEAN
    BY <1>1, ConnectEffect
  <2> QED BY <1>1, <2>1, ConnectEffect, CreateKeepsInv
<1>2. CASE status = "connected"
  <2>1. /\ UNCHANGED <<socketVars, shouldConnect, payload, loops, current, messageQueue>>
        /\ UNCHANGED providerVars
    BY <1>2 DEF Connect
  <2>2. QueueTyped' /\ QueueIsSound'
    BY <2>1, QueueStays DEF socketVars, SocketInv
  <2>3. RetryIsComing'
    BY <1>2, <2>1 DEF SocketInv, StatusMatches, RetryIsComing, socketVars
  <2> QED BY <2>1, <2>2, <2>3
      DEF SocketInv, socketVars, providerVars, FlagsTyped, LoopsTyped,
          ProvidersTyped, OpenIsAnnounced, StatusMatches, AttachedAreOpened
<1> QED BY <1>1, <1>2

LEMMA CallConnectKeepsInv == SocketInv /\ CallConnect => SocketInv'
<1> SUFFICES ASSUME SocketInv, CallConnect PROVE SocketInv'
  OBVIOUS
<1>1. CountersTyped'
  BY ProviderWebsocketAssumption DEF CallConnect, Call, SocketInv, CountersTyped
<1>2. /\ Connect /\ unwanted' \in BOOLEAN
      /\ UNCHANGED <<attached, authenticated, routed, wire, sends, destroyed>>
  BY DEF CallConnect, providerVars
<1> QED BY <1>1, <1>2, ConnectKeepsInv DEF SocketInv, ProvidersTyped, providerVars

LEMMA TimerFiresKeepsInv == SocketInv /\ TimerFires => SocketInv'
<1> SUFFICES ASSUME SocketInv, TimerFires PROVE SocketInv'
  OBVIOUS
<1>1. CountersTyped'
  BY DEF TimerFires, SocketInv, CountersTyped
<1>2. /\ Connect /\ unwanted' \in BOOLEAN
      /\ UNCHANGED <<attached, authenticated, routed, wire, sends, destroyed>>
  BY DEF TimerFires, providerVars, SocketInv, FlagsTyped
<1> QED BY <1>1, <1>2, ConnectKeepsInv DEF SocketInv, ProvidersTyped, providerVars

LEMMA RetryDueKeepsInv ==
    ASSUME SocketInv, NEW l \in DOMAIN loops, RetryDue(l)
    PROVE  SocketInv'
<1> USE DEF SocketInv
<1>1. /\ loops \in Seq(Loop) /\ l \in 1 .. Len(loops) /\ Len(loops) \in Nat
      /\ current \in 0 .. Len(loops) /\ attempt \in 0 .. Len(loops)
      /\ loops[l].phase = "due" /\ l # attempt /\ l # 0
  BY DEF LoopsTyped, RetryDue
<1>2. UNCHANGED <<shouldConnect, payload, current, timers, attached, routed, authenticated, wire,
                  sends, closeTries, destroyed, unwanted, calls, faults>>
  BY DEF RetryDue, providerVars
<1>3. CASE shouldConnect /\ ~loops[l].cancelled
  <2>1. loops' = [loops EXCEPT ![l].phase = "attempting"] /\ Create(l)
    BY <1>3 DEF RetryDue
  <2>2. /\ loops' \in Seq(Loop) /\ Len(loops') = Len(loops)
        /\ loops'[l] = [phase |-> "attempting", cancelled |-> loops[l].cancelled]
    BY <1>1, <2>1, PhaseChanges
  <2>3. LoopsTyped' /\ attempt' # 0
    BY <1>1, <1>2, <1>3, <2>1, <2>2 DEF LoopsTyped, Create
  <2>4. CountersTyped' /\ shouldConnect' \in BOOLEAN /\ payload' \in BOOLEAN /\ unwanted' \in BOOLEAN
    BY <1>2 DEF CountersTyped, FlagsTyped
  <2> QED BY <1>2, <2>1, <2>3, <2>4, CreateKeepsInv DEF Create, ProvidersTyped
<1>4. CASE ~shouldConnect \/ loops[l].cancelled
  <2>1. /\ loops' = [loops EXCEPT ![l].phase = "settled"]
        /\ UNCHANGED <<webSocket, status, heard, opened, attempt, messageQueue>>
    BY <1>4 DEF RetryDue, socketVars
  <2>2. /\ loops' \in Seq(Loop) /\ Len(loops') = Len(loops)
        /\ \A k \in 1 .. Len(loops) : k # l => loops'[k] = loops[k]
    BY <1>1, <2>1, PhaseChanges
  <2>3. LoopsTyped'
    BY <1>1, <1>2, <2>1, <2>2 DEF LoopsTyped
  <2>4. QueueTyped' /\ QueueIsSound'
    BY <1>2, <2>1, QueueStays
  <2>5. RetryIsComing'
    <3> SUFFICES ASSUME shouldConnect, webSocket = "none", ~destroyed, ~(timers > 0)
                 PROVE  \E k \in DOMAIN loops' : loops'[k].phase = "due" /\ ~loops'[k].cancelled
      BY <1>2, <2>1 DEF RetryIsComing
    <3>1. PICK k \in DOMAIN loops : loops[k].phase = "due" /\ ~loops[k].cancelled
      BY DEF RetryIsComing
    <3>2. k # l /\ k \in DOMAIN loops'
      BY <1>1, <1>4, <2>2, <3>1
    <3> QED BY <1>1, <2>2, <3>1, <3>2
  <2> QED BY <1>2, <2>1, <2>3, <2>4, <2>5
      DEF FlagsTyped, CountersTyped, ProvidersTyped, OpenIsAnnounced, StatusMatches, AttachedAreOpened
<1> QED BY <1>3, <1>4

LEMMA CallDisconnectKeepsInv == SocketInv /\ CallDisconnect => SocketInv'
<1> SUFFICES ASSUME SocketInv, CallDisconnect PROVE SocketInv'
  OBVIOUS
<1> USE DEF SocketInv
<1>1. /\ UNCHANGED <<status, heard, opened, attempt, payload, loops, current, timers, attached,
                     routed, authenticated, wire, sends, closeTries, destroyed, faults>>
      /\ unwanted' = TRUE /\ shouldConnect' = FALSE
      /\ \/ webSocket = "none" /\ webSocket' = webSocket /\ messageQueue' = messageQueue
         \/ webSocket # "none" /\ webSocket' = "closing" /\ messageQueue' = <<>>
  BY DEF CallDisconnect, providerVars
<1>2. CountersTyped'
  BY <1>1, ProviderWebsocketAssumption DEF CallDisconnect, Call, CountersTyped
<1>3. QueueTyped' /\ QueueIsSound'
  BY <1>1, QueueStays
<1>4. FlagsTyped'
  BY <1>1 DEF FlagsTyped
<1>5. StatusMatches'
  BY <1>1 DEF StatusMatches, FlagsTyped
<1> QED BY <1>1, <1>2, <1>3, <1>4, <1>5
    DEF LoopsTyped, ProvidersTyped, OpenIsAnnounced, AttachedAreOpened, RetryIsComing

LEMMA AttachKeepsInv ==
    ASSUME SocketInv, NEW p \in Providers, Attach(p)
    PROVE  SocketInv'
<1> USE DEF SocketInv
<1>1. /\ p \notin attached /\ attached' = attached \cup {p} /\ ~destroyed
      /\ UNCHANGED <<authenticated, wire, sends, closeTries, destroyed, unwanted, faults>>
      /\ calls < MaxCalls /\ calls' = calls + 1
  BY DEF Attach, Call
<1>2. timers' = timers => CountersTyped'
  BY <1>1, ProviderWebsocketAssumption DEF CountersTyped
<1>3. attached' \subseteq Providers /\ authenticated' \subseteq attached'
  BY <1>1 DEF ProvidersTyped
<1>4. CASE routed \in authenticated
  <2>1. UNCHANGED <<routed, socketVars, retryVars, messageQueue>>
    BY <1>4 DEF Attach
  <2>2. QueueTyped' /\ QueueIsSound'
    BY <1>1, <2>1, QueueStays DEF socketVars
  <2>3. AttachedAreOpened'
    <3>1. Cardinality(Providers) # 1
      <4> SUFFICES ASSUME Cardinality(Providers) = 1 PROVE FALSE
        OBVIOUS
      <4>1. PICK x : Providers = {x}
        BY FS_Singleton, ProviderWebsocketAssumption
      <4> QED BY <4>1, <1>1, <1>4 DEF ProvidersTyped
    <3> QED BY <1>1, <2>1, <3>1 DEF AttachedAreOpened, socketVars
  <2>4. ProvidersTyped'
    BY <1>1, <1>3, <2>1 DEF ProvidersTyped, socketVars
  <2> QED BY <1>1, <1>2, <2>1, <2>2, <2>3, <2>4
      DEF socketVars, retryVars, FlagsTyped, LoopsTyped, OpenIsAnnounced, StatusMatches, RetryIsComing
<1>5. CASE routed \notin authenticated /\ status = "disconnected" /\ shouldConnect
  <2>1. routed' = p /\ Connect /\ timers' = timers
    BY <1>5 DEF Attach
  <2>2. unwanted' \in BOOLEAN /\ routed' \in attached' \cup {NoProvider}
    BY <1>1, <2>1 DEF FlagsTyped
  <2> QED BY <1>1, <1>2, <1>3, <1>5, <2>1, <2>2, ConnectKeepsInv
<1>6. CASE routed \notin authenticated /\ ~(status = "disconnected" /\ shouldConnect)
  <2>1. /\ routed' = p
        /\ opened' = IF OpenedAtOnce(p) THEN opened \cup {p} ELSE opened
        /\ UNCHANGED <<webSocket, status, heard, attempt, retryVars, messageQueue>>
    BY <1>6 DEF Attach
  <2>2. QueueTyped' /\ QueueIsSound'
    BY <1>1, <2>1, QueueStays
  <2>3. AttachedAreOpened'
    <3> SUFFICES ASSUME webSocket = "open"
                 PROVE  opened' = opened \cup {p}
      BY <1>1, <2>1 DEF AttachedAreOpened
    <3>1. payload /\ status = "connected"
      BY <1>1 DEF OpenIsAnnounced, StatusMatches, FlagsTyped
    <3> QED BY <2>1, <3>1 DEF OpenedAtOnce
  <2>4. ProvidersTyped'
    BY <1>1, <1>3, <2>1 DEF ProvidersTyped
  <2> QED BY <1>1, <1>2, <2>1, <2>2, <2>3, <2>4
      DEF retryVars, FlagsTyped, LoopsTyped, OpenIsAnnounced, StatusMatches, RetryIsComing
<1> QED BY <1>4, <1>5, <1>6

LEMMA DetachKeepsInv ==
    ASSUME SocketInv, NEW p \in Providers, Detach(p)
    PROVE  SocketInv'
<1> USE DEF SocketInv
<1>1. /\ attached' = attached \ {p} /\ authenticated' = authenticated \ {p} /\ routed' = NoProvider
      /\ UNCHANGED <<webSocket, status, heard, opened, attempt, shouldConnect, payload, loops,
                     current, timers, closeTries, destroyed, unwanted, faults>>
      /\ calls < MaxCalls /\ calls' = calls + 1
  BY DEF Detach, Call, socketVars, retryVars
<1>2. QueueTyped' /\ QueueIsSound'
  <2>1. CASE routed # NoProvider
    <3>1. Send(FALSE)
      BY <2>1 DEF Detach
    <3> QED BY <1>1, <3>1, SendKeepsQueue
  <2>2. CASE routed = NoProvider
    <3>1. UNCHANGED <<messageQueue, wire, sends>>
      BY <2>2 DEF Detach, queueVars
    <3> QED BY <1>1, <3>1, QueueStays
  <2> QED BY <2>1, <2>2
<1>3. CountersTyped'
  BY <1>1, ProviderWebsocketAssumption DEF CountersTyped
<1>4. AttachedAreOpened' /\ ProvidersTyped'
  BY <1>1 DEF AttachedAreOpened, ProvidersTyped
<1> QED BY <1>1, <1>2, <1>3, <1>4
    DEF FlagsTyped, LoopsTyped, OpenIsAnnounced, StatusMatches, RetryIsComing

LEMMA OpensKeepsInv == SocketInv /\ Opens => SocketInv'
<1> SUFFICES ASSUME SocketInv, Opens PROVE SocketInv'
  OBVIOUS
<1> USE DEF SocketInv
<1>1. /\ webSocket = "connecting" /\ webSocket' = "open"
      /\ UNCHANGED <<heard, attempt, shouldConnect, loops, timers, attached, routed, messageQueue,
                     wire, sends, closeTries, destroyed, unwanted, calls, faults>>
  BY DEF Opens, queueVars
<1>2. \/ /\ destroyed /\ UNCHANGED <<status, opened, current, payload, authenticated>>
      \/ /\ ~destroyed /\ status' = "connected" /\ opened' = attached /\ current' = 0
         /\ payload' = TRUE /\ authenticated' = {}
  BY DEF Opens
<1>3. QueueTyped' /\ QueueIsSound'
  BY <1>1, QueueStays DEF OpenIsAnnounced
<1>4. FlagsTyped' /\ CountersTyped'
  BY <1>1, <1>2 DEF FlagsTyped, CountersTyped
<1>5. LoopsTyped'
  BY <1>1, <1>2, LenProperties DEF LoopsTyped
<1>6. ProvidersTyped' /\ AttachedAreOpened'
  BY <1>1, <1>2 DEF ProvidersTyped, AttachedAreOpened
<1> QED BY <1>1, <1>2, <1>3, <1>4, <1>5, <1>6
    DEF OpenIsAnnounced, StatusMatches, RetryIsComing

LEMMA MessageKeepsInv == SocketInv /\ Message => SocketInv'
<1> SUFFICES ASSUME SocketInv, Message PROVE SocketInv'
  OBVIOUS
<1> USE DEF SocketInv
<1>1. /\ webSocket \in {"open", "closing"} /\ ~destroyed /\ heard' = TRUE /\ status = "connected"
      /\ authenticated' \in {authenticated, authenticated \cup ({routed} \ {NoProvider})}
      /\ UNCHANGED <<webSocket, opened, shouldConnect, payload, current, timers, attached, routed,
                     sends, closeTries, destroyed, unwanted, calls, faults>>
  BY DEF Message
<1>2. \/ /\ attempt = 0 /\ UNCHANGED <<attempt, loops, status, messageQueue, wire>>
      \/ /\ attempt # 0 /\ attempt' = 0 /\ loops' = [loops EXCEPT ![attempt].phase = "settled"]
         /\ status' = "connected" /\ messageQueue' = <<>>
         /\ wire' \in {wire, wire \cup Queued}
  BY DEF Message, Resolve
<1>3. QueueTyped' /\ QueueIsSound'
  <2>1. /\ messageQueue' \in {messageQueue, <<>>} /\ wire' \in {wire, wire \cup Queued}
        /\ (wire' # wire => messageQueue' = <<>>)
    BY <1>2
  <2>2. messageQueue' = <<>> \/ (webSocket' = webSocket /\ attempt = 0 /\ ~destroyed)
    BY <1>1, <1>2
  <2> QED BY <1>1, <2>1, <2>2, QueueStays
<1>4. LoopsTyped'
  <2>1. CASE attempt = 0
    BY <1>1, <1>2, <2>1 DEF LoopsTyped
  <2>2. CASE attempt # 0
    <3>1. loops \in Seq(Loop) /\ attempt \in 1 .. Len(loops) /\ current \in 0 .. Len(loops)
          /\ Len(loops) \in Nat
      BY <2>2 DEF LoopsTyped
    <3>2. loops' = [loops EXCEPT ![attempt].phase = "settled"]
      BY <1>2, <2>2
    <3>3. loops' \in Seq(Loop) /\ Len(loops') = Len(loops)
      BY <3>1, <3>2, PhaseChanges
    <3> QED BY <1>1, <1>2, <2>2, <3>1, <3>3 DEF LoopsTyped
  <2> QED BY <2>1, <2>2
<1>5. FlagsTyped' /\ CountersTyped'
  BY <1>1, <1>2 DEF FlagsTyped, CountersTyped
<1>6. ProvidersTyped' /\ AttachedAreOpened'
  BY <1>1 DEF ProvidersTyped, AttachedAreOpened
<1> QED BY <1>1, <1>2, <1>3, <1>4, <1>5, <1>6
    DEF OpenIsAnnounced, StatusMatches, RetryIsComing

\* onClose: the loop of the attempt tries again, or a timer calls connect().
LEMMA OnCloseKeepsInv ==
    ASSUME SocketInv, OnClose, faults' \in 0 .. MaxFaults, ~destroyed, webSocket # "none"
    PROVE  SocketInv'
<1> USE DEF SocketInv
<1>1. /\ closeTries' = 0 /\ webSocket' = "none" /\ opened' = {} /\ attempt' = 0
      /\ status' = "disconnected" /\ authenticated' = {}
      /\ timers' = IF current = 0 /\ shouldConnect THEN timers + 1 ELSE timers
      /\ UNCHANGED <<heard, shouldConnect, payload, current, attached, routed, messageQueue, wire,
                     sends, destroyed, unwanted, calls>>
  BY DEF OnClose, queueVars
<1>2. loops' = IF attempt = 0 THEN loops ELSE [loops EXCEPT ![attempt].phase = "due"]
  BY DEF OnClose, Rejected
<1>3. LoopsTyped' /\ (attempt # 0 => attempt \in DOMAIN loops' /\ loops'[attempt].phase = "due"
                                       /\ ~loops'[attempt].cancelled)
  <2>1. CASE attempt = 0
    BY <1>1, <1>2, <2>1 DEF LoopsTyped
  <2>2. CASE attempt # 0
    <3>1. /\ loops \in Seq(Loop) /\ attempt \in 1 .. Len(loops) /\ current \in 0 .. Len(loops)
          /\ Len(loops) \in Nat /\ ~loops[attempt].cancelled
      BY <2>2 DEF LoopsTyped
    <3>2. /\ loops' \in Seq(Loop) /\ Len(loops') = Len(loops)
          /\ loops'[attempt] = [phase |-> "due", cancelled |-> loops[attempt].cancelled]
      BY <1>2, <2>2, <3>1, PhaseChanges
    <3> QED BY <1>1, <3>1, <3>2 DEF LoopsTyped
  <2> QED BY <2>1, <2>2
<1>4. QueueTyped' /\ QueueIsSound'
  BY <1>1, QueueStays
<1>5. FlagsTyped' /\ CountersTyped'
  BY <1>1 DEF FlagsTyped, CountersTyped
<1>6. ProvidersTyped' /\ AttachedAreOpened'
  BY <1>1 DEF ProvidersTyped, AttachedAreOpened
<1>7. RetryIsComing'
  <2>1. CASE attempt # 0
    BY <1>3, <2>1 DEF RetryIsComing
  <2>2. CASE attempt = 0 /\ shouldConnect
    <3>1. current = 0
      BY <2>2 DEF OpenIsAnnounced, FlagsTyped
    <3>2. timers' = timers + 1
      BY <1>1, <2>2, <3>1
    <3>3. timers' > 0
      BY <3>2 DEF CountersTyped
    <3> QED BY <3>3 DEF RetryIsComing
  <2>3. CASE ~shouldConnect
    BY <1>1, <2>3 DEF RetryIsComing
  <2> QED BY <2>1, <2>2, <2>3
<1> QED BY <1>1, <1>3, <1>4, <1>5, <1>6, <1>7
    DEF OpenIsAnnounced, StatusMatches

LEMMA ClosesKeepsInv == SocketInv /\ Closes => SocketInv'
<1> SUFFICES ASSUME SocketInv, Closes PROVE SocketInv'
  OBVIOUS
<1>1. faults' \in 0 .. MaxFaults
  BY ProviderWebsocketAssumption DEF Closes, SocketInv, CountersTyped
<1> QED BY <1>1, OnCloseKeepsInv DEF Closes

LEMMA CheckConnectionKeepsInv == SocketInv /\ CheckConnection => SocketInv'
<1> SUFFICES ASSUME SocketInv, CheckConnection PROVE SocketInv'
  OBVIOUS
<1> USE DEF SocketInv
<1>1. faults' \in 0 .. MaxFaults
  BY ProviderWebsocketAssumption DEF CheckConnection, CountersTyped
<1>2. CASE Forced
  <2>1. OnClose /\ ~destroyed /\ webSocket # "none"
    BY <1>2 DEF CheckConnection, Checked
  <2> QED BY <1>1, <2>1, OnCloseKeepsInv
<1>3. CASE ~Forced
  <2>1. /\ status = "connected" /\ ~destroyed /\ webSocket # "none"
        /\ closeTries' = closeTries + 1 /\ webSocket' = "closing" /\ messageQueue' = <<>>
        /\ UNCHANGED <<status, heard, opened, attempt, shouldConnect, payload, loops, current, timers,
                       attached, routed, authenticated, wire, sends, destroyed, unwanted, calls>>
    BY <1>3 DEF CheckConnection, Checked, retryVars, providerVars
  <2>2. CountersTyped'
    BY <1>1, <1>3, <2>1 DEF CountersTyped, Forced
  <2>3. QueueTyped' /\ QueueIsSound'
    BY <2>1, QueueStays
  <2>4. FlagsTyped'
    BY <2>1 DEF FlagsTyped
  <2>5. OpenIsAnnounced'
    BY <2>1 DEF OpenIsAnnounced, StatusMatches
  <2> QED BY <2>1, <2>2, <2>3, <2>4, <2>5
      DEF LoopsTyped, ProvidersTyped, StatusMatches, AttachedAreOpened, RetryIsComing
<1> QED BY <1>2, <1>3

LEMMA DestroyKeepsInv == SocketInv /\ Destroy => SocketInv'
<1> SUFFICES ASSUME SocketInv, Destroy PROVE SocketInv'
  OBVIOUS
<1> USE DEF SocketInv
<1>1. /\ destroyed' = TRUE /\ attempt' = 0 /\ shouldConnect' = FALSE /\ webSocket' = "none"
      /\ messageQueue' \in {messageQueue, <<>>}
      /\ UNCHANGED <<status, heard, opened, payload, loops, current, timers, attached, routed,
                     authenticated, wire, sends, closeTries, unwanted, calls, faults>>
  BY DEF Destroy, providerVars
<1>2. QueueTyped' /\ QueueIsSound'
  BY <1>1, QueueStays
<1>3. FlagsTyped' /\ CountersTyped' /\ ProvidersTyped'
  BY <1>1 DEF FlagsTyped, CountersTyped, ProvidersTyped
<1>4. LoopsTyped'
  BY <1>1, LenProperties DEF LoopsTyped
<1> QED BY <1>1, <1>2, <1>3, <1>4
    DEF OpenIsAnnounced, StatusMatches, AttachedAreOpened, RetryIsComing

LEMMA SocketStepInv == SocketInv /\ [Next]_vars => SocketInv'
<1> SUFFICES ASSUME SocketInv, [Next]_vars PROVE SocketInv'
  OBVIOUS
<1>1. CASE SendMessage \/ CallConnect \/ CallDisconnect \/ TimerFires
  BY <1>1, SendMessageKeepsInv, CallConnectKeepsInv, CallDisconnectKeepsInv, TimerFiresKeepsInv
<1>2. CASE Opens \/ Message \/ Closes \/ CheckConnection \/ Destroy
  BY <1>2, OpensKeepsInv, MessageKeepsInv, ClosesKeepsInv, CheckConnectionKeepsInv, DestroyKeepsInv
<1>3. ASSUME NEW p \in Providers, Attach(p) \/ Detach(p) PROVE SocketInv'
  BY <1>3, AttachKeepsInv, DetachKeepsInv
<1>4. ASSUME NEW l \in DOMAIN loops, RetryDue(l) PROVE SocketInv'
  BY <1>4, RetryDueKeepsInv
<1>5. CASE UNCHANGED vars
  BY <1>5 DEF vars, socketVars, retryVars, providerVars, queueVars, SocketInv, FlagsTyped,
              CountersTyped, LoopsTyped, ProvidersTyped, QueueTyped, OpenIsAnnounced, StatusMatches,
              AttachedAreOpened, QueueIsSound, Queued, RetryIsComing
<1> QED BY <1>1, <1>2, <1>3, <1>4, <1>5 DEF Next

THEOREM SocketInvariant == Spec => []SocketInv
<1> QED BY SocketInitInv, SocketStepInv, PTL DEF Spec

\* The types, among them that a loop waits for the connection attempt there is.
THEOREM SocketTypeOK == Spec => []TypeOK
<1>1. SocketInv => TypeOK
  <2> SUFFICES ASSUME SocketInv PROVE TypeOK
    OBVIOUS
  <2>1. routed \in Providers \cup {NoProvider}
    BY DEF SocketInv, ProvidersTyped
  <2> QED BY <2>1
      DEF SocketInv, FlagsTyped, CountersTyped, LoopsTyped, ProvidersTyped, QueueTyped, TypeOK
<1> QED BY <1>1, SocketInvariant, PTL

\* Whatever loops, timers, calls, closes and messages come in whatever order: the
\* status is that of the websocket, its provider has been told of it, the queue is in
\* order and on no wire, and while a connection is wanted another one is coming.
THEOREM SocketSound == Spec => []SocketIsSound
<1>1. SocketInv => SocketIsSound
  BY DEF SocketInv, SocketIsSound
<1> QED BY <1>1, SocketInvariant, PTL
=============================================================================
