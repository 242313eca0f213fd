--------------------------- MODULE AwarenessProofs ---------------------------
(***************************************************************************)
(* For every number of users, connections and changes: the connections of  *)
(* a document have been sent what it has, its awareness states have an     *)
(* owner, and a connection that it has no more was called back once, or    *)
(* twice if its websocket had gone, whatever closes within a broadcast.    *)
(*                                                                         *)
(* The bound on changes is a fold, of which nothing can be proved here, so *)
(* the counters are typed by Nat.                                          *)
(***************************************************************************)
EXTENDS Awareness, SequenceTheorems, FiniteSetTheorems, TLAPS

Views == [states : [Users -> Nat], updates : Nat]

TypeInv ==
    /\ userOf \in Seq(Users) /\ Len(userOf) <= MaxConnections
    /\ ws \in [Connections -> {"open", "gone", "handled"}]
    /\ connections \subseteq DOMAIN userOf
    /\ clients \in [Connections -> SUBSET Users]
    /\ userClock \in [Users -> Nat] /\ states \in [Users -> Nat] /\ clocks \in [Users -> Nat]
    /\ updates \in Nat /\ views \in [Connections -> Views]
    /\ returning \subseteq Users /\ registered \subseteq DOMAIN userOf
    /\ callbacks \in [Connections -> Nat]
    /\ \A c \in Connections \ DOMAIN userOf : clients[c] = {}

-----------------------------------------------------------------------------
(* What holds of the calls in progress: s is a stack of them.              *)

\* A broadcast in progress will still send the state of u to c.
OwesState(s, c, u) ==
    \E k \in DOMAIN s : s[k].op = "broadcast" /\ c \in s[k].todo /\ u \in s[k].users

\* A broadcast in progress will still send the update to c.
OwesUpdate(s, c) ==
    s # <<>> /\ s[1].op = "broadcast" /\ s[1].update /\ c \in s[1].todo

\* An open connection has been sent everything but what is owed to it.
ViewsMatch(s) ==
    \A c \in connections : ws[c] = "open" =>
        /\ \A u \in Users : OwesState(s, c, u) \/ views[c].states[u] = states[u]
        /\ views[c].updates = IF OwesUpdate(s, c) THEN updates - 1 ELSE updates

\* Only the outermost call broadcasts an update of the document.
UpdatesFirst(s) == \A k \in DOMAIN s : (s[k].op = "broadcast" /\ s[k].update) => k = 1

\* The states of a connection that is being closed have been removed.
ClosingIsClean(s) ==
    \A k \in DOMAIN s : s[k].op = "close" =>
        \A u \in clients[s[k].connection] : states[u] = None

FramesAreMade(s) ==
    /\ s \in Seq(Frames)
    /\ \A k \in DOMAIN s : s[k].op \in {"close", "callbacks", "message"} => s[k].connection \in DOMAIN userOf

StackInv(s) == FramesAreMade(s) /\ UpdatesFirst(s) /\ ClosingIsClean(s) /\ ViewsMatch(s)

-----------------------------------------------------------------------------
\* A state that was removed is not new when it returns, and one that is new has an
\* owner, at every moment.
OwnedInv ==
    /\ \A u \in Users : (clocks[u] # 0 /\ states[u] = None) => u \in returning
    /\ \A u \in Users \ returning :
         states[u] # None => \E c \in connections : u \in clients[c]

\* The calls in progress that close a connection.
CallsOf(s, c) == {k \in DOMAIN s : s[k].op \in {"close", "callbacks"} /\ s[k].connection = c}

\* A connection that is being closed has not been called back yet, or once by a call
\* within, which is the innermost and happens only when its websocket has gone.
CallsOfInv(s, c) ==
    /\ c \in connections =>
         /\ callbacks[c] = 0
         /\ (c \in registered /\ ws[c] # "handled") \/ CallsOf(s, c) # {}
    /\ (c \in DOMAIN userOf \ connections /\ c \in registered) =>
         callbacks[c] # 0 \/ CallsOf(s, c) # {}
    /\ c \notin DOMAIN userOf => callbacks[c] = 0
    /\ callbacks[c] \in 0 .. 2 /\ (ws[c] = "open" => callbacks[c] \in 0 .. 1)
    /\ CallsOf(s, c) # {} => callbacks[c] \in 0 .. 1 /\ (ws[c] = "open" => callbacks[c] = 0)
    /\ \A k \in CallsOf(s, c) : s[k].op = "callbacks" => c \notin connections
    /\ \A k, l \in CallsOf(s, c) : k < l => l = Len(s) /\ ws[c] # "open" /\ callbacks[c] = 0

CallsInv(s) == \A c \in Connections : CallsOfInv(s, c)

\* No connection is being closed twice.
NoPairs(s) == \A c \in Connections : \A k, l \in CallsOf(s, c) : ~(k < l)

\* The inductive invariant.
AwarenessInv == TypeInv /\ OwnedInv /\ StackInv(stack) /\ CallsInv(stack)

-----------------------------------------------------------------------------
(* The stack.                                                              *)

LEMMA BelowOfStack ==
    ASSUME stack \in Seq(Frames), ~Idle
    PROVE  /\ Below \in Seq(Frames) /\ Len(Below) = Len(stack) - 1
           /\ \A k \in DOMAIN Below : k \in DOMAIN stack /\ Below[k] = stack[k]
           /\ Len(stack) \in DOMAIN stack /\ Top \in Frames
<1>1. Len(stack) \in Nat \ {0} /\ DOMAIN stack = 1 .. Len(stack)
  BY EmptySeq, LenProperties DEF Idle
<1>2. \A k \in 1 .. Len(stack) : stack[k] \in Frames
  BY ElementOfSeq
<1>3. /\ Below \in Seq(Frames)
      /\ Len(Below) = Len(stack) - 1
      /\ \A k \in 1 .. Len(stack) - 1 : Below[k] = stack[k]
  BY <1>1, <1>2, SubSeqProperties DEF Below
<1> QED BY <1>1, <1>2, <1>3, LenProperties DEF Top

LEMMA MadeAreConnections ==
    ASSUME TypeInv
    PROVE  DOMAIN userOf = 1 .. Len(userOf) /\ DOMAIN userOf \subseteq Connections
           /\ connections \subseteq Connections
<1>1. DOMAIN userOf = 1 .. Len(userOf) /\ Len(userOf) \in Nat
  BY LenProperties DEF TypeInv
<1> QED BY <1>1, AwarenessAssumption DEF TypeInv, Connections

\* What holds of the stack holds of a stack under it, if nothing was owed by the
\* calls above.
LEMMA StackInvOfPrefix ==
    ASSUME StackInv(stack), ~Idle,
           Top.op = "broadcast" => \A c \in Top.todo : c \in connections => ws[c] # "open"
    PROVE  StackInv(Below)
<1>1. /\ Below \in Seq(Frames) /\ Len(Below) = Len(stack) - 1
      /\ \A k \in DOMAIN Below : k \in DOMAIN stack /\ Below[k] = stack[k]
      /\ stack \in Seq(Frames) /\ Len(stack) \in Nat
      /\ DOMAIN stack = 1 .. Len(stack) /\ DOMAIN Below = 1 .. Len(stack) - 1
  BY BelowOfStack, LenProperties DEF StackInv, FramesAreMade
<1>2. FramesAreMade(Below) /\ UpdatesFirst(Below) /\ ClosingIsClean(Below)
  BY <1>1 DEF StackInv, FramesAreMade, UpdatesFirst, ClosingIsClean
<1>3. ASSUME NEW c \in connections, ws[c] = "open"
      PROVE  /\ \A u \in Users : OwesState(stack, c, u) => OwesState(Below, c, u)
             /\ OwesUpdate(stack, c) <=> OwesUpdate(Below, c)
  <2>1. ~(Top.op = "broadcast" /\ c \in Top.todo)
    BY <1>3
  <2>2. \A u \in Users : OwesState(stack, c, u) => OwesState(Below, c, u)
    BY <1>1, <2>1 DEF OwesState, Top
  <2>3. Below # <<>> <=> Len(stack) > 1
    BY <1>1, EmptySeq
  <2> QED BY <1>1, <2>1, <2>2, <2>3 DEF OwesUpdate, Top, Idle
<1> QED BY <1>2, <1>3 DEF StackInv, ViewsMatch

\* Of the two calls that close one connection, one is the innermost call.
LEMMA CallsOfPrefix ==
    ASSUME stack \in Seq(Frames), ~Idle, CallsInv(stack)
    PROVE  /\ NoPairs(Below)
           /\ \A c \in Connections :
                CallsOf(Below, c) = CallsOf(stack, c) \ {Len(stack)}
           /\ Top.op \in {"message", "broadcast"} => CallsInv(Below)
<1>1. /\ DOMAIN stack = 1 .. Len(stack) /\ DOMAIN Below = 1 .. Len(stack) - 1
      /\ Len(stack) \in Nat /\ Below \in Seq(Frames) /\ Len(Below) = Len(stack) - 1
      /\ \A k \in 1 .. Len(stack) - 1 : Below[k] = stack[k]
  BY BelowOfStack, LenProperties
<1>2. ASSUME NEW c \in Connections
      PROVE  CallsOf(Below, c) = CallsOf(stack, c) \ {Len(stack)}
  BY <1>1 DEF CallsOf
<1>3. ASSUME NEW c \in Connections, NEW k \in CallsOf(Below, c), NEW l \in CallsOf(Below, c), k < l
      PROVE  FALSE
  <2>1. k \in CallsOf(stack, c) /\ l \in CallsOf(stack, c) /\ l # Len(stack)
    BY <1>2
  <2> QED BY <1>3, <2>1 DEF CallsInv, CallsOfInv
<1>4. ASSUME Top.op \in {"message", "broadcast"}, NEW c \in Connections
      PROVE  CallsOfInv(Below, c)
  <2>1. Len(stack) \notin CallsOf(stack, c)
    BY <1>4 DEF CallsOf, Top
  <2>2. CallsOf(Below, c) = CallsOf(stack, c)
    BY <1>2, <2>1
  <2>3. \A k \in CallsOf(Below, c) : Below[k] = stack[k]
    BY <1>1 DEF CallsOf
  <2>4. CallsOfInv(stack, c)
    BY DEF CallsInv
  <2> QED BY <1>3, <2>2, <2>3, <2>4 DEF CallsOfInv
<1> QED BY <1>2, <1>3, <1>4 DEF NoPairs, CallsInv

\* A broadcast goes on with the first connection that is left.
LEMMA FirstExists ==
    ASSUME NEW T, T \subseteq Connections, T # {}
    PROVE  (CHOOSE d \in T : \A e \in T : d <= e) \in T
<1> DEFINE R == StrictSubsetOrdering(Connections)
           upTo == {1 .. k : k \in T}
<1>1. MaxConnections \in Nat
  BY AwarenessAssumption
<1>2. IsWellFoundedOn(R, FiniteSubsetsOf(Connections))
  BY <1>1, FS_Interval, FS_StrictSubsetOrderingWellFounded DEF Connections
<1>3. upTo \subseteq FiniteSubsetsOf(Connections) /\ upTo # {}
  <2>1. \A k \in T : IsFiniteSet(1 .. k) /\ (1 .. k) \subseteq Connections
    BY <1>1, FS_Interval DEF Connections
  <2> QED BY <2>1 DEF FiniteSubsetsOf
<1>4. PICK X \in upTo : \A Y \in upTo : ~(<<Y, X>> \in R)
  <2> HIDE DEF R, upTo
  <2> QED BY <1>2, <1>3, WFMin
<1>5. PICK x \in T : X = 1 .. x
  BY <1>4
<1>6. ASSUME NEW y \in T, y < x PROVE FALSE
  <2>1. 1 .. y \in upTo /\ x \in Nat /\ y \in Nat /\ x >= 1
    BY <1>1 DEF Connections
  <2>2. (1 .. y) \subseteq (1 .. x) /\ 1 .. y # 1 .. x /\ (1 .. x) \subseteq Connections
    BY <1>1, <1>6, <2>1 DEF Connections
  <2>3. <<1 .. y, 1 .. x>> \in R
    BY <2>2 DEF StrictSubsetOrdering
  <2> QED BY <1>4, <1>5, <2>1, <2>3
<1>7. \A y \in T : x <= y
  BY <1>1, <1>6 DEF Connections
<1> QED BY <1>7

\* Calls are pushed one by one.
LEMMA FramesPushed ==
    ASSUME NEW s \in Seq(Frames), NEW f \in Frames
    PROVE  /\ Append(s, f) \in Seq(Frames) /\ Len(Append(s, f)) = Len(s) + 1
           /\ \A k \in 1 .. Len(s) : Append(s, f)[k] = s[k]
           /\ Append(s, f)[Len(s) + 1] = f
           /\ Append(s, f) \o <<>> = Append(s, f)
<1> DEFINE p == Append(s, f)
<1>1. /\ p \in Seq(Frames) /\ Len(p) = Len(s) + 1 /\ Len(s) \in Nat
      /\ \A k \in 1 .. Len(s) : p[k] = s[k]
      /\ p[Len(s) + 1] = f
  BY LenProperties
<1> HIDE DEF p
<1>2. p \o <<>> = p
  BY <1>1, ConcatEmptySeq
<1> QED BY <1>1, <1>2 DEF p

LEMMA TwoFramesPushed ==
    ASSUME NEW s \in Seq(Frames), NEW f \in Frames, NEW g \in Frames,
           NEW t, t = Append(s, f) \o <<g>>
    PROVE  /\ t \in Seq(Frames) /\ Len(t) = Len(s) + 2
           /\ \A k \in 1 .. Len(s) : t[k] = s[k]
           /\ t[Len(s) + 1] = f /\ t[Len(s) + 2] = g
<1> DEFINE p == Append(s, f)
<1>1. /\ p \in Seq(Frames) /\ Len(p) = Len(s) + 1 /\ Len(s) \in Nat
      /\ \A k \in 1 .. Len(s) : p[k] = s[k]
      /\ p[Len(s) + 1] = f
  BY FramesPushed, LenProperties
<1>2. <<g>> \in Seq(Frames) /\ Len(<<g>>) = 1 /\ <<g>>[1] = g
  OBVIOUS
<1> HIDE DEF p
<1>3. /\ p \o <<g>> \in Seq(Frames) /\ Len(p \o <<g>>) = Len(p) + 1
      /\ \A k \in 1 .. Len(p) + 1 :
           (p \o <<g>>)[k] = IF k <= Len(p) THEN p[k] ELSE <<g>>[k - Len(p)]
  BY <1>1, <1>2, ConcatProperties
<1>4. t = p \o <<g>>
  BY DEF p
<1> QED BY <1>1, <1>2, <1>3, <1>4

\* removeConnection keeps the invariant, on whatever stack it is called, and also
\* when the websocket goes with it.
LEMMA RemoveConnectionInv ==
    ASSUME TypeInv, OwnedInv, NEW below, StackInv(below), CallsInv(below), NoPairs(below),
           NEW c \in connections, RemoveConnection(c, below),
           below # <<>> => ws[c] # "open",
           ws' \in [Connections -> {"open", "gone", "handled"}],
           \A d \in Connections : /\ ws'[d] = "open" => ws[d] = "open"
                                  /\ ws'[d] = "handled" => ws[d] = "handled" \/ d = c,
           UNCHANGED <<userOf, connections, clients, userClock, clocks, updates, views,
                       registered, callbacks>>
    PROVE  AwarenessInv'
<1> DEFINE removed == {u \in clients[c] : states[u] # None}
           frames == IF removed = {} THEN <<>> ELSE <<Broadcast(removed, FALSE)>>
<1>1. c \in Connections /\ c \in DOMAIN userOf
  BY MadeAreConnections DEF TypeInv
<1>2. /\ states' = [u \in Users |-> IF u \in removed THEN None ELSE states[u]]
      /\ returning' = returning \cup removed
      /\ stack' = Append(below, Closing(c)) \o frames
  BY DEF RemoveConnection
<1>3. removed \subseteq Users /\ removed \subseteq clients[c]
  BY <1>1 DEF TypeInv
<1>4. TypeInv'
  BY <1>2, <1>3 DEF TypeInv, None
<1>5. OwnedInv'
  BY <1>2, <1>3 DEF OwnedInv, TypeInv, None
<1>7. /\ below \in Seq(Frames) /\ Len(below) \in Nat /\ DOMAIN below = 1 .. Len(below)
      /\ Closing(c) \in Frames
      /\ connections \subseteq Connections
      /\ Broadcast(removed, FALSE) \in Frames
  <2> QED BY <1>1, <1>3, MadeAreConnections, LenProperties
      DEF StackInv, FramesAreMade, Closing, Broadcast, Frames
<1> DEFINE n == Len(below)
<1>8. /\ stack' \in Seq(Frames) /\ DOMAIN stack' = 1 .. Len(stack')
      /\ Len(stack') = n + 1 + (IF removed = {} THEN 0 ELSE 1)
      /\ \A k \in 1 .. n : stack'[k] = below[k]
      /\ stack'[n + 1] = Closing(c)
      /\ removed # {} => stack'[n + 2] = Broadcast(removed, FALSE)
  <2>1. CASE removed = {}
    <3>1. stack' = Append(below, Closing(c)) \o <<>>
      BY <1>2, <2>1
    <3>2. stack' = Append(below, Closing(c))
      BY <1>7, <3>1, FramesPushed
    <3> HIDE DEF removed
    <3>3. stack' \in Seq(Frames) /\ DOMAIN stack' = 1 .. Len(stack')
      BY <1>7, <3>2, FramesPushed, LenProperties
    <3>4. /\ Len(stack') = n + 1 /\ \A k \in 1 .. n : stack'[k] = below[k]
          /\ stack'[n + 1] = Closing(c)
      BY <1>7, <3>2, FramesPushed
    <3>5. n + 1 + 0 = n + 1
      BY <1>7
    <3> HIDE DEF n
    <3> QED BY <2>1, <3>3, <3>4, <3>5
  <2>2. CASE removed # {}
    <3>1. stack' = Append(below, Closing(c)) \o <<Broadcast(removed, FALSE)>>
      BY <1>2, <2>2
    <3> HIDE DEF removed
    <3>2. stack' \in Seq(Frames) /\ DOMAIN stack' = 1 .. Len(stack')
      <4> DEFINE g == Broadcast(removed, FALSE)
      <4>1. below \in Seq(Frames) /\ Closing(c) \in Frames /\ g \in Frames
            /\ stack' = Append(below, Closing(c)) \o <<g>>
        BY <1>7, <3>1
      <4> HIDE DEF g
      <4>2. stack' \in Seq(Frames)
        BY <4>1, TwoFramesPushed
      <4> QED BY <4>2, LenProperties
    <3>3. /\ Len(stack') = n + 2 /\ \A k \in 1 .. n : stack'[k] = below[k]
          /\ stack'[n + 1] = Closing(c) /\ stack'[n + 2] = Broadcast(removed, FALSE)
      <4> DEFINE g == Broadcast(removed, FALSE)
      <4>1. below \in Seq(Frames) /\ Closing(c) \in Frames /\ g \in Frames
            /\ stack' = Append(below, Closing(c)) \o <<g>>
        BY <1>7, <3>1
      <4> HIDE DEF g, n
      <4>2. /\ Len(stack') = Len(below) + 2 /\ \A k \in 1 .. Len(below) : stack'[k] = below[k]
            /\ stack'[Len(below) + 1] = Closing(c) /\ stack'[Len(below) + 2] = g
        BY <4>1, TwoFramesPushed
      <4> QED BY <4>2 DEF g, n
    <3> QED BY <1>7, <2>2, <3>2, <3>3
  <2> QED BY <2>1, <2>2
<1> HIDE DEF removed, frames, n
<1>9. FramesAreMade(stack)'
  <2>1. ASSUME NEW k \in DOMAIN stack', stack'[k].op \in {"close", "callbacks", "message"}
        PROVE  stack'[k].connection \in DOMAIN userOf'
    <3>1. CASE k \in 1 .. n
      BY <1>7, <1>8, <2>1, <3>1 DEF StackInv, FramesAreMade, n
    <3>2. CASE k = n + 1
      BY <1>1, <1>8, <3>2 DEF Closing
    <3>3. CASE k = n + 2 /\ removed # {}
      BY <1>8, <2>1, <3>3 DEF Broadcast
    <3> QED BY <1>7, <1>8, <2>1, <3>1, <3>2, <3>3 DEF n
  <2> QED BY <1>8, <2>1 DEF FramesAreMade
<1>10. UpdatesFirst(stack)'
  <2>1. ASSUME NEW k \in DOMAIN stack', stack'[k].op = "broadcast", stack'[k].update
        PROVE  k = 1
    <3>1. CASE k \in 1 .. n
      BY <1>7, <1>8, <2>1, <3>1 DEF StackInv, UpdatesFirst, n
    <3>2. CASE k = n + 1
      BY <1>8, <2>1, <3>2 DEF Closing
    <3>3. CASE k = n + 2 /\ removed # {}
      BY <1>8, <2>1, <3>3 DEF Broadcast
    <3> QED BY <1>7, <1>8, <2>1, <3>1, <3>2, <3>3 DEF n
  <2> QED BY <2>1 DEF UpdatesFirst
<1>11. ClosingIsClean(stack)'
  <2>1. ASSUME NEW k \in DOMAIN stack', stack'[k].op = "close",
               NEW u \in clients[stack'[k].connection]
        PROVE  states'[u] = None
    <3>1. CASE k \in 1 .. n
      <4>1. below[k].connection \in Connections
        <5>1. below[k].op = "close" /\ k \in DOMAIN below
          BY <1>7, <1>8, <2>1, <3>1 DEF n
        <5>2. below[k].connection \in DOMAIN userOf
          BY <5>1 DEF StackInv, FramesAreMade
        <5> QED BY <5>2, MadeAreConnections
      <4>2. u \in Users
        BY <1>8, <2>1, <3>1, <4>1 DEF TypeInv
      <4> QED BY <1>2, <1>7, <1>8, <2>1, <3>1, <4>2 DEF StackInv, ClosingIsClean, n
    <3>2. CASE k = n + 1
      <4>1. u \in clients[c] /\ u \in Users
        BY <1>1, <1>8, <2>1, <3>2 DEF Closing, TypeInv
      <4> QED BY <1>2, <4>1 DEF removed
    <3>3. CASE k = n + 2 /\ removed # {}
      BY <1>8, <2>1, <3>3 DEF Broadcast
    <3> QED BY <1>7, <1>8, <2>1, <3>1, <3>2, <3>3 DEF n
  <2> QED BY <2>1 DEF ClosingIsClean
<1>12. ViewsMatch(stack)'
  <2> SUFFICES ASSUME NEW d \in connections, ws[d] = "open"
               PROVE  /\ \A u \in Users :
                           OwesState(stack', d, u) \/ views[d].states[u] = states'[u]
                      /\ views[d].updates = IF OwesUpdate(stack', d) THEN updates - 1
                                            ELSE updates
    BY <1>7 DEF ViewsMatch, OwesState, OwesUpdate
  <2>1. /\ \A u \in Users : OwesState(below, d, u) \/ views[d].states[u] = states[u]
        /\ views[d].updates = IF OwesUpdate(below, d) THEN updates - 1 ELSE updates
    BY DEF StackInv, ViewsMatch
  <2>2. ASSUME NEW u \in Users
        PROVE  OwesState(stack', d, u) \/ views[d].states[u] = states'[u]
    <3>1. CASE u \in removed
      <4>1. /\ stack'[n + 2].op = "broadcast" /\ d \in stack'[n + 2].todo
            /\ u \in stack'[n + 2].users
        BY <1>8, <3>1 DEF Broadcast
      <4>2. n + 2 \in DOMAIN stack'
        BY <1>7, <1>8, <3>1 DEF n
      <4> QED BY <4>1, <4>2 DEF OwesState
    <3>2. CASE u \notin removed /\ OwesState(below, d, u)
      BY <1>7, <1>8, <3>2 DEF OwesState, n
    <3>3. CASE u \notin removed /\ views[d].states[u] = states[u]
      BY <1>2, <3>3
    <3> QED BY <2>1, <3>1, <3>2, <3>3
  <2>3. OwesUpdate(stack', d) <=> OwesUpdate(below, d)
    <3>1. stack' # <<>> /\ (below # <<>> <=> n # 0)
      BY <1>7, <1>8, EmptySeq DEF n
    <3>2. CASE n = 0
      BY <1>8, <3>1, <3>2 DEF OwesUpdate, Closing
    <3>3. CASE n # 0
      BY <1>7, <1>8, <3>1, <3>3 DEF OwesUpdate, n
    <3> QED BY <3>2, <3>3
  <2> QED BY <2>1, <2>2, <2>3
\* A connection that is being closed already has no states left.
<1>13. CallsOf(below, c) # {} => removed = {}
  <2> SUFFICES ASSUME NEW k \in CallsOf(below, c) PROVE removed = {}
    OBVIOUS
  <2>1. below[k].op = "close" /\ below[k].connection = c /\ k \in DOMAIN below
    BY <1>1 DEF CallsInv, CallsOfInv, CallsOf
  <2>2. \A u \in clients[c] : states[u] = None
    BY <2>1 DEF StackInv, ClosingIsClean
  <2> QED BY <2>2 DEF removed
<1>14. ASSUME NEW d \in Connections
       PROVE  /\ CallsOf(stack', d) = IF d = c THEN CallsOf(below, c) \cup {n + 1}
                                      ELSE CallsOf(below, d)
              /\ \A k \in CallsOf(below, d) : stack'[k] = below[k] /\ k \in 1 .. n
  <2>1. DOMAIN stack' = IF removed = {} THEN 1 .. n + 1 ELSE 1 .. n + 2
    BY <1>7, <1>8 DEF n
  <2>2. stack'[n + 1].op = "close" /\ stack'[n + 1].connection = c
    BY <1>8 DEF Closing
  <2>3. removed # {} => stack'[n + 2].op = "broadcast"
    BY <1>8 DEF Broadcast
  <2>4. DOMAIN below = 1 .. n /\ n \in Nat
    BY <1>7 DEF n
  <2>5. \A k \in 1 .. n + 1 : k \in 1 .. n \/ k = n + 1
    BY <2>4
  <2>6. \A k \in 1 .. n + 2 : k \in 1 .. n + 1 \/ k = n + 2
    BY <2>4
  <2>7. n + 1 \in 1 .. n + 1 /\ n + 1 \in 1 .. n + 2 /\ (1 .. n) \subseteq (1 .. n + 1)
        /\ (1 .. n) \subseteq (1 .. n + 2) /\ n + 1 \notin 1 .. n
    BY <2>4
  <2> QED BY <1>8, <2>1, <2>2, <2>3, <2>4, <2>5, <2>6, <2>7 DEF CallsOf
<1>15. ASSUME NEW d \in Connections PROVE CallsOfInv(stack, d)'
  <2>1. CallsOfInv(below, d) /\ \A k, l \in CallsOf(below, d) : ~(k < l)
    BY DEF CallsInv, NoPairs
  <2>2. CASE d # c
    <3>1. CallsOf(stack', d) = CallsOf(below, d)
      BY <1>14, <2>2
    <3> QED BY <1>14, <2>1, <2>2, <3>1 DEF CallsOfInv, CallsOf
  <2>3. CASE d = c
    <3>1. CallsOf(stack', d) = CallsOf(below, d) \cup {n + 1} /\ stack'[n + 1].op = "close"
      BY <1>8, <1>14, <2>3 DEF Closing
    <3>2. CallsOf(below, d) # {} => ws[d] # "open" /\ Len(stack') = n + 1
      <4>1. CallsOf(below, d) # {} => below # <<>>
        BY DEF CallsOf
      <4> QED BY <1>7, <1>8, <1>13, <2>3, <4>1 DEF n
    <3>3. \A k \in CallsOf(below, d) : stack'[k] = below[k] /\ k \in 1 .. n /\ k < n + 1
      BY <1>7, <1>14 DEF n
    <3>4. callbacks[d] = 0
      BY <2>1, <2>3 DEF CallsOfInv
    <3>5. \A k, l \in CallsOf(stack', d) : k < l => k \in CallsOf(below, d) /\ l = n + 1
      <4> SUFFICES ASSUME NEW k \in CallsOf(stack', d), NEW l \in CallsOf(stack', d), k < l
                   PROVE  k \in CallsOf(below, d) /\ l = n + 1
        OBVIOUS
      <4>1. n \in Nat
        BY <1>7 DEF n
      <4> QED BY <2>1, <3>1, <3>3, <4>1
    <3>6. \A k \in CallsOf(stack', d) : stack'[k].op # "callbacks"
      BY <2>1, <2>3, <3>1, <3>3 DEF CallsOfInv
    <3> QED BY <1>1, <2>3, <3>1, <3>2, <3>4, <3>5, <3>6 DEF CallsOfInv, CallsOf
  <2> QED BY <2>2, <2>3
<1> QED BY <1>4, <1>5, <1>9, <1>10, <1>11, <1>12, <1>15 DEF AwarenessInv, StackInv, CallsInv

\* A stack that the invariant allows may follow when nothing else changes but the
\* websockets that go.
LEMMA SameStack ==
    ASSUME TypeInv, OwnedInv, NEW below, StackInv(below), CallsInv(below), stack' = below,
           ws' \in [Connections -> {"open", "gone", "handled"}],
           \A d \in Connections :
               /\ ws'[d] = "open" => ws[d] = "open"
               /\ ws'[d] = "handled" => ws[d] = "handled" \/ d \notin connections,
           UNCHANGED <<userOf, connections, clients, userClock, states, clocks, updates, views,
                       returning, registered, callbacks>>
    PROVE  AwarenessInv'
<1>0. connections \subseteq Connections
  BY MadeAreConnections
<1>1. TypeInv' /\ OwnedInv' /\ CallsInv(stack)'
  BY DEF TypeInv, OwnedInv, CallsInv, CallsOfInv, CallsOf
<1>2. FramesAreMade(stack)' /\ UpdatesFirst(stack)' /\ ClosingIsClean(stack)'
  BY DEF StackInv, FramesAreMade, UpdatesFirst, ClosingIsClean
<1>3. ViewsMatch(stack)'
  BY <1>0 DEF StackInv, ViewsMatch, OwesState, OwesUpdate
<1> QED BY <1>1, <1>2, <1>3 DEF AwarenessInv, StackInv

\* So does close, of a connection that the document may have no more.
LEMMA CloseInv ==
    ASSUME TypeInv, OwnedInv, NEW below, StackInv(below), CallsInv(below), NoPairs(below),
           NEW c \in Connections, Close(c, below),
           below # <<>> => ws[c] # "open",
           ws' \in [Connections -> {"open", "gone", "handled"}],
           \A d \in Connections : /\ ws'[d] = "open" => ws[d] = "open"
                                  /\ ws'[d] = "handled" => ws[d] = "handled" \/ d = c,
           UNCHANGED <<userOf, connections, clients, userClock, clocks, updates, views,
                       registered, callbacks>>
    PROVE  AwarenessInv'
BY RemoveConnectionInv, SameStack DEF Close

-----------------------------------------------------------------------------
(* The calls, step by step.                                                *)

\* The innermost call goes on with the next part of close.
GoesOnWith(op) == stack' = Append(Below, [op |-> op, connection |-> Top.connection])

LEMMA NextFrame ==
    ASSUME TypeInv, StackInv(stack), CallsInv(stack), ~Idle,
           Top.op \in {"close", "callbacks"},
           NEW op \in {"callbacks", "message"},
           GoesOnWith(op),
           connections' \subseteq connections,
           UNCHANGED <<userOf, ws, clients, states, updates, views, returning>>
    PROVE  /\ StackInv(stack)'
           /\ Top.connection \in DOMAIN userOf /\ Top.connection \in Connections
           /\ Len(stack') = Len(stack) /\ Len(stack) \in CallsOf(stack, Top.connection)
           /\ stack'[Len(stack)].op = op
           /\ \A d \in Connections :
                /\ CallsOf(stack', d) =
                     IF d = Top.connection /\ op = "message" THEN CallsOf(stack, d) \ {Len(stack)}
                     ELSE CallsOf(stack, d)
                /\ \A k \in CallsOf(stack', d) : k # Len(stack) => stack'[k] = stack[k]
<1> DEFINE c == Top.connection
           frame == [op |-> op, connection |-> c]
           n == Len(Below)
<1>1. stack \in Seq(Frames) /\ stack' = Append(Below, frame)
  BY DEF StackInv, FramesAreMade, GoesOnWith
<1>2. /\ StackInv(Below) /\ Below \in Seq(Frames) /\ Len(Below) \in Nat
      /\ DOMAIN Below = 1 .. n /\ Len(stack) = n + 1 /\ DOMAIN stack = 1 .. n + 1
      /\ \A k \in 1 .. n : Below[k] = stack[k]
  <2>1. StackInv(Below)
    BY StackInvOfPrefix
  <2> QED BY <1>1, <2>1, BelowOfStack, LenProperties
<1>3. /\ Len(stack) \in DOMAIN stack /\ Top = stack[Len(stack)] /\ Top \in Frames
  BY <1>1, BelowOfStack DEF Top
<1>4. c \in DOMAIN userOf /\ c \in Connections
  <2>1. c \in DOMAIN userOf
    BY <1>3 DEF StackInv, FramesAreMade
  <2> QED BY <2>1, MadeAreConnections
<1>5. Len(stack) \in CallsOf(stack, c)
  BY <1>3 DEF CallsOf
<1> HIDE DEF c
<1>6. /\ frame \in Frames /\ frame.op = op /\ frame.connection = c
  BY <1>4 DEF Frames
<1> HIDE DEF frame, n
<1>7. /\ stack' \in Seq(Frames) /\ Len(stack') = n + 1
      /\ DOMAIN stack' = 1 .. n + 1
      /\ \A k \in 1 .. n : stack'[k] = Below[k]
      /\ stack'[n + 1] = frame
  <2>1. /\ stack' \in Seq(Frames) /\ Len(stack') = n + 1
        /\ \A k \in 1 .. n : stack'[k] = Below[k]
        /\ stack'[n + 1] = frame
    BY <1>1, <1>2, <1>6, FramesPushed DEF n
  <2>2. DOMAIN stack' = 1 .. Len(stack')
    BY <2>1, LenProperties
  <2> QED BY <2>1, <2>2
<1>8. FramesAreMade(stack)'
  <2>1. ASSUME NEW k \in 1 .. n + 1, stack'[k].op \in {"close", "callbacks", "message"}
        PROVE  stack'[k].connection \in DOMAIN userOf
    <3>1. CASE k = n + 1
      BY <1>4, <1>6, <1>7, <3>1
    <3>2. CASE k \in 1 .. n
      BY <1>2, <1>7, <2>1, <3>2 DEF StackInv, FramesAreMade
    <3>3. k \in 1 .. n \/ k = n + 1
      BY <1>2 DEF n
    <3> QED BY <3>1, <3>2, <3>3
  <2> QED BY <1>7, <2>1 DEF FramesAreMade
<1>9. UpdatesFirst(stack)' /\ ClosingIsClean(stack)'
  <2>1. \A k \in DOMAIN stack' : \/ k \in DOMAIN Below /\ stack'[k] = Below[k]
                               \/ stack'[k] = frame
    <3>1. \A k \in 1 .. n + 1 : k \in 1 .. n \/ k = n + 1
      BY <1>2 DEF n
    <3> QED BY <1>2, <1>7, <3>1
  <2>2. frame.op \notin {"broadcast", "close"}
    BY <1>6
  <2>3. UNCHANGED <<clients, states>>
    OBVIOUS
  <2> QED BY <1>2, <2>1, <2>2, <2>3 DEF StackInv, UpdatesFirst, ClosingIsClean
<1>10. ViewsMatch(stack)'
  <2> SUFFICES ASSUME NEW d \in connections', ws'[d] = "open"
               PROVE  /\ \A u \in Users :
                           OwesState(stack', d, u) \/ views'[d].states[u] = states'[u]
                      /\ views'[d].updates = IF OwesUpdate(stack', d) THEN updates' - 1
                                             ELSE updates'
    BY DEF ViewsMatch, OwesState, OwesUpdate
  <2>0. d \in connections /\ ws[d] = "open" /\ UNCHANGED <<states, updates, views>>
    OBVIOUS
  <2>1. \A u \in Users : OwesState(Below, d, u) => OwesState(stack', d, u)
    BY <1>2, <1>7 DEF OwesState, n
  <2>2. OwesUpdate(Below, d) <=> OwesUpdate(stack', d)
    <3>1. stack' # <<>> /\ (Below # <<>> <=> n # 0)
      BY <1>2, <1>7, EmptySeq DEF n
    <3>2. CASE n = 0
      BY <1>6, <1>7, <3>1, <3>2 DEF OwesUpdate
    <3>3. CASE n # 0
      <4>1. 1 \in 1 .. n
        BY <1>2, <3>3 DEF n
      <4> QED BY <1>7, <3>1, <3>3, <4>1 DEF OwesUpdate
    <3> QED BY <3>2, <3>3
  <2> QED BY <1>2, <2>0, <2>1, <2>2 DEF StackInv, ViewsMatch
<1>11. ASSUME NEW d \in Connections
       PROVE  /\ CallsOf(stack', d) =
                   IF d = c /\ op = "message" THEN CallsOf(stack, d) \ {Len(stack)}
                   ELSE CallsOf(stack, d)
              /\ \A k \in CallsOf(stack', d) : k # Len(stack) => stack'[k] = stack[k]
  <2>1. \A k \in 1 .. n + 1 : k \in 1 .. n \/ k = n + 1
    BY <1>2 DEF n
  <2>2. Top.op \in {"close", "callbacks"} /\ Top.connection = c /\ Top = stack[n + 1]
    BY <1>2, <1>3 DEF c
  <2>3. (1 .. n) \subseteq (1 .. n + 1) /\ n + 1 \in 1 .. n + 1 /\ n + 1 \notin 1 .. n
    BY <1>2 DEF n
  <2>4. \A k \in 1 .. n : stack'[k] = stack[k]
    BY <1>2, <1>7
  <2> QED BY <1>2, <1>6, <1>7, <2>1, <2>2, <2>3, <2>4 DEF CallsOf
<1>12. stack'[Len(stack)].op = op /\ Len(stack') = Len(stack)
  BY <1>2, <1>6, <1>7
<1> QED BY <1>4, <1>5, <1>8, <1>9, <1>10, <1>11, <1>12 DEF StackInv, c

LEMMA InvFinishRemoval == ASSUME AwarenessInv, FinishRemoval PROVE AwarenessInv'
<1> DEFINE c == Top.connection
<1>1. /\ ~Idle /\ Top.op = "close"
      /\ stack' = Append(Below, [op |-> "callbacks", connection |-> c])
      /\ connections' = connections \ {c}
      /\ UNCHANGED <<userOf, ws, clients, userClock, states, clocks, updates, views, returning,
                     registered, callbacks>>
  BY DEF FinishRemoval, CallingBack
<1>2. /\ StackInv(stack)' /\ c \in DOMAIN userOf /\ c \in Connections
      /\ Len(stack') = Len(stack) /\ Len(stack) \in CallsOf(stack, c)
      /\ \A d \in Connections :
           /\ CallsOf(stack', d) = CallsOf(stack, d)
           /\ \A k \in CallsOf(stack', d) : k # Len(stack) => stack'[k] = stack[k]
  <2>1. TypeInv /\ StackInv(stack) /\ CallsInv(stack)
    BY DEF AwarenessInv
  <2>2. connections' \subseteq connections /\ "callbacks" \in {"callbacks", "message"}
        /\ Top.op \in {"close", "callbacks"}
    BY <1>1
  <2> QED BY <1>1, <2>1, <2>2, NextFrame DEF GoesOnWith
<1>3. /\ Top = stack[Len(stack)] /\ Len(stack) \in DOMAIN stack
  BY <1>2 DEF Top, CallsOf
<1>4. \A u \in clients[c] : states[u] = None
  BY <1>1, <1>3 DEF AwarenessInv, StackInv, ClosingIsClean
<1> HIDE DEF c
<1>5. TypeInv'
  BY <1>1, <1>2 DEF AwarenessInv, TypeInv
<1>6. OwnedInv'
  BY <1>1, <1>4 DEF AwarenessInv, OwnedInv
<1>7. ASSUME NEW d \in Connections PROVE CallsOfInv(stack, d)'
  <2>1. CallsOfInv(stack, d)
    BY DEF AwarenessInv, CallsInv
  <2>2. CASE d # c
    <3>1. Len(stack) \notin CallsOf(stack, d)
      BY <1>3, <2>2 DEF CallsOf, c
    <3>2. CallsOf(stack', d) = CallsOf(stack, d)
          /\ \A k \in CallsOf(stack', d) : stack'[k] = stack[k]
      BY <1>2, <3>1
    <3> QED BY <1>1, <1>2, <2>1, <2>2, <3>2 DEF CallsOfInv, CallsOf
  <2>3. CASE d = c
    <3>1. CallsOf(stack', d) = CallsOf(stack, d) /\ CallsOf(stack, d) # {}
      BY <1>2, <2>3
    <3> QED BY <1>1, <1>2, <2>1, <2>3, <3>1 DEF CallsOfInv, CallsOf
  <2> QED BY <2>2, <2>3
<1> QED BY <1>2, <1>5, <1>6, <1>7 DEF AwarenessInv, CallsInv

LEMMA InvRunCallbacks == ASSUME AwarenessInv, RunCallbacks PROVE AwarenessInv'
<1> DEFINE c == Top.connection
           count == IF c \in registered THEN callbacks[c] + 1 ELSE callbacks[c]
<1>1. /\ ~Idle /\ Top.op = "callbacks"
      /\ stack' = Append(Below, [op |-> "message", connection |-> c])
      /\ callbacks' = [callbacks EXCEPT ![c] = count]
      /\ UNCHANGED <<userOf, ws, connections, clients, userClock, states, clocks, updates, views,
                     returning, registered>>
  BY DEF RunCallbacks, Messaging
<1>2. /\ StackInv(stack)' /\ c \in DOMAIN userOf /\ c \in Connections
      /\ Len(stack') = Len(stack) /\ Len(stack) \in CallsOf(stack, c)
      /\ \A d \in Connections :
           /\ CallsOf(stack', d) = IF d = c THEN CallsOf(stack, d) \ {Len(stack)}
                                   ELSE CallsOf(stack, d)
           /\ \A k \in CallsOf(stack', d) : k # Len(stack) => stack'[k] = stack[k]
  <2>1. TypeInv /\ StackInv(stack) /\ CallsInv(stack)
    BY DEF AwarenessInv
  <2>2. connections' \subseteq connections /\ "message" \in {"callbacks", "message"}
        /\ Top.op \in {"close", "callbacks"}
    BY <1>1
  <2> QED BY <1>1, <2>1, <2>2, NextFrame DEF GoesOnWith
<1>3. /\ Top = stack[Len(stack)] /\ Len(stack) \in DOMAIN stack
  BY <1>2 DEF Top, CallsOf
<1>4. /\ c \notin connections
      /\ callbacks[c] \in 0 .. 1 /\ (ws[c] = "open" => callbacks[c] = 0)
      /\ \A k, l \in CallsOf(stack, c) : k < l => l = Len(stack) /\ ws[c] # "open" /\ callbacks[c] = 0
  BY <1>1, <1>2, <1>3 DEF AwarenessInv, CallsInv, CallsOfInv
<1> HIDE DEF c
<1>5. count \in 0 .. 2 /\ (ws[c] = "open" => count \in 0 .. 1) /\ (c \in registered => count # 0)
      /\ count \in Nat
  BY <1>4
<1> HIDE DEF count
<1>6. TypeInv'
  BY <1>1, <1>2, <1>5 DEF AwarenessInv, TypeInv
<1>7. OwnedInv'
  BY <1>1 DEF AwarenessInv, OwnedInv
<1>8. callbacks'[c] = count /\ \A d \in Connections \ {c} : callbacks'[d] = callbacks[d]
  BY <1>1, <1>2 DEF AwarenessInv, TypeInv
<1>9. ASSUME NEW d \in Connections PROVE CallsOfInv(stack, d)'
  <2>1. CallsOfInv(stack, d)
    BY DEF AwarenessInv, CallsInv
  <2>2. CASE d # c
    <3>1. Len(stack) \notin CallsOf(stack, d)
      BY <1>3, <2>2 DEF CallsOf, c
    <3>2. CallsOf(stack', d) = CallsOf(stack, d)
          /\ \A k \in CallsOf(stack', d) : stack'[k] = stack[k]
      BY <1>2, <2>2, <3>1
    <3> QED BY <1>1, <1>2, <1>8, <2>1, <2>2, <3>2 DEF CallsOfInv, CallsOf
  <2>3. CASE d = c
    <3>1. CallsOf(stack', d) = CallsOf(stack, d) \ {Len(stack)}
      BY <1>2, <2>3
    <3>2. ASSUME NEW k \in CallsOf(stack', d)
          PROVE  ws[d] # "open" /\ callbacks[d] = 0 /\ k < Len(stack)
      <4>1. k \in CallsOf(stack, d) /\ k # Len(stack)
        BY <3>1
      <4>2. k < Len(stack)
        <5>1. stack \in Seq(Frames)
          BY DEF AwarenessInv, StackInv, FramesAreMade
        <5>2. k \in 1 .. Len(stack) /\ Len(stack) \in Nat
          BY <4>1, <5>1, LenProperties DEF CallsOf
        <5> QED BY <4>1, <5>2
      <4> QED BY <1>2, <1>4, <2>3, <4>1, <4>2
    <3>3. \A k, l \in CallsOf(stack', d) : ~(k < l)
      BY <1>4, <2>3, <3>1
    <3>4. CallsOf(stack', d) # {} => ws[d] # "open" /\ count \in 0 .. 1
      <4>1. callbacks[d] = 0 => count \in 0 .. 1
        BY <2>3 DEF count
      <4> QED BY <3>2, <4>1
    <3>5. callbacks'[d] = count
      BY <1>8, <2>3
    <3> QED BY <1>1, <1>2, <1>4, <1>5, <2>3, <3>3, <3>4, <3>5 DEF CallsOfInv, CallsOf
  <2> QED BY <2>2, <2>3
<1> QED BY <1>2, <1>6, <1>7, <1>9 DEF AwarenessInv, CallsInv

\* Websockets do not change within a call.
LEMMA SameWebSockets ==
    ASSUME TypeInv, UNCHANGED ws
    PROVE  /\ ws' \in [Connections -> {"open", "gone", "handled"}]
           /\ \A d \in Connections : /\ ws'[d] = "open" => ws[d] = "open"
                                     /\ ws'[d] = "handled" => ws[d] = "handled"
BY DEF TypeInv

LEMMA InvSendCloseMessage == ASSUME AwarenessInv, SendCloseMessage PROVE AwarenessInv'
<1>1. /\ ~Idle /\ Top.op = "message"
      /\ UNCHANGED <<userOf, ws, connections, clients, userClock, clocks, updates, views,
                     registered, callbacks>>
  BY DEF SendCloseMessage
<1>2. StackInv(Below)
  BY <1>1, StackInvOfPrefix DEF AwarenessInv
<1>3. stack \in Seq(Frames)
  BY DEF AwarenessInv, StackInv, FramesAreMade
<1>4. CallsInv(Below) /\ NoPairs(Below)
  BY <1>1, <1>3, CallsOfPrefix DEF AwarenessInv
<1>5. Top.connection \in Connections
  <2>1. Top.connection \in DOMAIN userOf
    BY <1>1, <1>3, BelowOfStack DEF AwarenessInv, StackInv, FramesAreMade, Top
  <2> QED BY <2>1, MadeAreConnections DEF AwarenessInv
<1>6. CASE ws[Top.connection] = "open"
  <2>1. stack' = Below /\ UNCHANGED <<states, returning>>
    BY <1>6 DEF SendCloseMessage
  <2> QED BY <1>1, <1>2, <1>4, <2>1, SameStack, SameWebSockets DEF AwarenessInv
<1>7. CASE ws[Top.connection] # "open"
  <2>1. Close(Top.connection, Below)
    BY <1>7 DEF SendCloseMessage
  <2> QED BY <1>1, <1>2, <1>4, <1>5, <1>7, <2>1, CloseInv, SameWebSockets DEF AwarenessInv
<1> QED BY <1>6, <1>7

LEMMA InvEndBroadcast == ASSUME AwarenessInv, EndBroadcast PROVE AwarenessInv'
<1>1. StackInv(Below)
  BY StackInvOfPrefix DEF AwarenessInv, EndBroadcast
<1>2. CallsInv(Below)
  BY CallsOfPrefix DEF AwarenessInv, EndBroadcast, StackInv, FramesAreMade
<1> QED BY <1>1, <1>2, SameStack, SameWebSockets DEF AwarenessInv, EndBroadcast

RestAfter(c) == Append(Below, [Top EXCEPT !.todo = Remaining(Top.todo, c)])

\* The stack of a broadcast that has gone on to the next connection.
LEMMA RestOfBroadcast ==
    ASSUME stack \in Seq(Frames), ~Idle, Top.op = "broadcast",
           NEW c \in Top.todo
    PROVE  LET rest == RestAfter(c) IN
           /\ rest \in Seq(Frames) /\ rest # <<>> /\ DOMAIN rest = DOMAIN stack
           /\ Len(rest) = Len(stack)
           /\ \A k \in DOMAIN stack :
                /\ rest[k].op = stack[k].op
                /\ rest[k].op \in {"close", "callbacks", "message"} => rest[k] = stack[k]
                /\ rest[k].op = "broadcast" =>
                     /\ rest[k].users = stack[k].users /\ rest[k].update = stack[k].update
                     /\ rest[k].todo = IF k = Len(stack) THEN stack[k].todo \ {c}
                                       ELSE stack[k].todo
<1> DEFINE frame == [Top EXCEPT !.todo = Remaining(Top.todo, c)]
           rest == RestAfter(c)
<1>1. /\ Below \in Seq(Frames) /\ Len(Below) = Len(stack) - 1 /\ Len(stack) \in Nat
      /\ DOMAIN stack = 1 .. Len(stack) /\ DOMAIN Below = 1 .. Len(stack) - 1
      /\ \A k \in 1 .. Len(stack) - 1 : Below[k] = stack[k]
      /\ Len(stack) \in DOMAIN stack /\ Top \in Frames /\ Top = stack[Len(stack)]
  BY BelowOfStack, LenProperties DEF Top
<1>2. /\ frame \in Frames /\ frame.op = "broadcast"
      /\ frame.users = Top.users /\ frame.update = Top.update
      /\ frame.todo = Top.todo \ {c}
  BY <1>1 DEF Frames, Remaining
<1> HIDE DEF frame
<1>3. /\ rest \in Seq(Frames) /\ Len(rest) = Len(stack)
      /\ \A k \in 1 .. Len(stack) - 1 : rest[k] = stack[k]
      /\ rest[Len(stack)] = frame
  <2>1. rest = Append(Below, frame)
    BY DEF frame, RestAfter
  <2> HIDE DEF rest
  <2>2. (Len(stack) - 1) + 1 = Len(stack)
    BY <1>1
  <2> QED BY <1>1, <1>2, <2>1, <2>2, FramesPushed
<1> HIDE DEF rest
<1>4. DOMAIN rest = 1 .. Len(stack) /\ rest # <<>>
  BY <1>1, <1>3, LenProperties, EmptySeq
<1>5. ASSUME NEW k \in DOMAIN stack
      PROVE  /\ rest[k].op = stack[k].op
             /\ rest[k].op \in {"close", "callbacks", "message"} => rest[k] = stack[k]
             /\ rest[k].op = "broadcast" =>
                  /\ rest[k].users = stack[k].users /\ rest[k].update = stack[k].update
                  /\ rest[k].todo = IF k = Len(stack) THEN stack[k].todo \ {c}
                                    ELSE stack[k].todo
  <2>1. CASE k = Len(stack)
    BY <1>1, <1>2, <1>3, <2>1
  <2>2. CASE k # Len(stack)
    <3>1. k \in 1 .. Len(stack) - 1
      BY <1>1, <2>2
    <3>2. rest[k] = stack[k]
      BY <1>3, <3>1
    <3> QED BY <2>2, <3>2
  <2> QED BY <2>1, <2>2
<1> QED BY <1>1, <1>3, <1>4, <1>5 DEF rest

LEMMA InvSendNext == ASSUME AwarenessInv, SendNext PROVE AwarenessInv'
<1> DEFINE c == CHOOSE d \in Top.todo : \A e \in Top.todo : d <= e
           rest == RestAfter(c)
<1>1. /\ ~Idle /\ Top.op = "broadcast" /\ Top.todo # {} /\ stack \in Seq(Frames)
      /\ UNCHANGED <<userOf, ws, connections, clients, userClock, clocks, updates, registered,
                     callbacks>>
  BY DEF SendNext, AwarenessInv, StackInv, FramesAreMade
<1>2. /\ Top \in Frames /\ Top = stack[Len(stack)] /\ Len(stack) \in DOMAIN stack
      /\ DOMAIN stack = 1 .. Len(stack) /\ Len(stack) \in Nat
  BY <1>1, BelowOfStack, LenProperties DEF Top
<1>3. Top.todo \subseteq Connections /\ Top.users \subseteq Users /\ Top.update \in BOOLEAN
  BY <1>1, <1>2 DEF Frames
<1>4. c \in Top.todo
  BY <1>1, <1>3, FirstExists
<1>5. \/ /\ ws[c] = "open"
         /\ views' = [views EXCEPT
              ![c].states = [u \in Users |-> IF u \in Top.users THEN states[u]
                                              ELSE views[c].states[u]],
              ![c].updates = IF Top.update THEN views[c].updates + 1 ELSE views[c].updates]
         /\ stack' = rest /\ UNCHANGED <<states, returning>>
      \/ ws[c] # "open" /\ Close(c, rest) /\ UNCHANGED views
  BY DEF SendNext, RestAfter
<1> HIDE DEF c
<1>6. /\ rest \in Seq(Frames) /\ rest # <<>> /\ DOMAIN rest = DOMAIN stack
      /\ Len(rest) = Len(stack)
      /\ \A k \in DOMAIN stack :
           /\ rest[k].op = stack[k].op
           /\ rest[k].op \in {"close", "callbacks", "message"} => rest[k] = stack[k]
           /\ rest[k].op = "broadcast" =>
                /\ rest[k].users = stack[k].users /\ rest[k].update = stack[k].update
                /\ rest[k].todo = IF k = Len(stack) THEN stack[k].todo \ {c}
                                  ELSE stack[k].todo
  BY <1>1, <1>4, RestOfBroadcast
<1> HIDE DEF rest
<1>7. FramesAreMade(rest) /\ UpdatesFirst(rest) /\ ClosingIsClean(rest)
  BY <1>6 DEF AwarenessInv, StackInv, FramesAreMade, UpdatesFirst, ClosingIsClean
<1>11. CallsInv(rest) /\ NoPairs(rest)
  <2>1. \A d \in Connections : CallsOf(rest, d) = CallsOf(stack, d)
    BY <1>6 DEF CallsOf
  <2>2. \A d \in Connections : \A k \in CallsOf(rest, d) : rest[k] = stack[k]
    BY <1>6 DEF CallsOf
  <2>3. \A d \in Connections : Len(stack) \notin CallsOf(stack, d)
    BY <1>1, <1>2 DEF CallsOf
  <2>4. \A d \in Connections : CallsOfInv(stack, d)
    BY DEF AwarenessInv, CallsInv
  <2>5. \A d \in Connections : \A k, l \in CallsOf(rest, d) : ~(k < l)
    BY <2>1, <2>3, <2>4 DEF CallsOfInv
  <2>6. ASSUME NEW d \in Connections PROVE CallsOfInv(rest, d)
    BY <1>6, <2>1, <2>2, <2>4 DEF CallsOfInv
  <2> QED BY <2>5, <2>6 DEF CallsInv, NoPairs
<1>8. ASSUME NEW d \in connections, d # c, ws[d] = "open"
      PROVE  /\ \A u \in Users : OwesState(rest, d, u) \/ views[d].states[u] = states[u]
             /\ views[d].updates = IF OwesUpdate(rest, d) THEN updates - 1 ELSE updates
  <2>1. /\ \A u \in Users : OwesState(stack, d, u) \/ views[d].states[u] = states[u]
        /\ views[d].updates = IF OwesUpdate(stack, d) THEN updates - 1 ELSE updates
    BY <1>8 DEF AwarenessInv, StackInv, ViewsMatch
  <2>2. \A u \in Users : OwesState(stack, d, u) => OwesState(rest, d, u)
    BY <1>6, <1>8 DEF OwesState
  <2>3. OwesUpdate(stack, d) <=> OwesUpdate(rest, d)
    <3>1. 1 \in DOMAIN stack
      BY <1>2
    <3>2. stack[1].op = "broadcast" =>
             /\ rest[1].update = stack[1].update
             /\ d \in rest[1].todo <=> d \in stack[1].todo
      BY <1>6, <1>8, <3>1
    <3> QED BY <1>1, <1>6, <3>1, <3>2 DEF OwesUpdate, Idle
  <2> QED BY <2>1, <2>2, <2>3
<1>9. CASE ws[c] # "open" /\ Close(c, rest) /\ UNCHANGED views
  <2>1. ViewsMatch(rest)
    BY <1>8, <1>9 DEF ViewsMatch
  <2>2. StackInv(rest)
    BY <1>7, <2>1 DEF StackInv
  <2>3. c \in Connections
    BY <1>3, <1>4
  <2> QED BY <1>1, <1>9, <1>11, <2>2, <2>3, CloseInv, SameWebSockets DEF AwarenessInv
<1>10. CASE /\ ws[c] = "open"
            /\ views' = [views EXCEPT
                 ![c].states = [u \in Users |-> IF u \in Top.users THEN states[u]
                                                 ELSE views[c].states[u]],
                 ![c].updates = IF Top.update THEN views[c].updates + 1
                                ELSE views[c].updates]
            /\ stack' = rest /\ UNCHANGED <<states, returning>>
  <2>1. /\ c \in Connections /\ views[c] \in Views
        /\ \A d \in Connections : d # c => views'[d] = views[d]
        /\ \A u \in Users : views'[c].states[u] = IF u \in Top.users THEN states[u]
                                                ELSE views[c].states[u]
        /\ views'[c].updates = IF Top.update THEN views[c].updates + 1 ELSE views[c].updates
        /\ views' \in [Connections -> Views]
    <3>1. c \in Connections /\ views \in [Connections -> Views] /\ views[c] \in Views
          /\ states \in [Users -> Nat]
      BY <1>3, <1>4 DEF AwarenessInv, TypeInv
    <3> DEFINE seen == [u \in Users |-> IF u \in Top.users THEN states[u]
                                         ELSE views[c].states[u]]
               count == IF Top.update THEN views[c].updates + 1 ELSE views[c].updates
    <3>2. seen \in [Users -> Nat] /\ count \in Nat
      BY <1>3, <3>1 DEF Views
    <3>3. views' = [views EXCEPT ![c].states = seen, ![c].updates = count]
      BY <1>10
    <3>4. \A u \in Users : seen[u] = IF u \in Top.users THEN states[u] ELSE views[c].states[u]
      OBVIOUS
    <3> HIDE DEF seen
    <3>5. [states |-> seen, updates |-> count] \in Views
      BY <3>2 DEF Views
    <3> HIDE DEF count
    <3>6. views' = [views EXCEPT ![c] = [states |-> seen, updates |-> count]]
      <4>1. [views[c] EXCEPT !.states = seen] = [states |-> seen, updates |-> views[c].updates]
        BY <3>1 DEF Views
      <4>2. [[states |-> seen, updates |-> views[c].updates] EXCEPT !.updates = count]
              = [states |-> seen, updates |-> count]
        OBVIOUS
      <4>3. views' = [[views EXCEPT ![c] = [views[c] EXCEPT !.states = seen]]
                        EXCEPT ![c] = [[views[c] EXCEPT !.states = seen] EXCEPT !.updates = count]]
        BY <3>1, <3>3
      <4> HIDE <3>3
      <4> QED BY <3>1, <4>1, <4>2, <4>3
    <3>7. views' \in [Connections -> Views]
      BY <3>1, <3>5, <3>6
    <3>8. views'[c].states = seen /\ views'[c].updates = count
      BY <3>1, <3>6
    <3> QED BY <3>1, <3>4, <3>6, <3>7, <3>8 DEF count
  <2>2. TypeInv' /\ OwnedInv'
    BY <1>1, <1>10, <2>1 DEF AwarenessInv, TypeInv, OwnedInv
  <2>6. CallsInv(stack)'
    BY <1>1, <1>10, <1>11 DEF CallsInv, CallsOfInv, CallsOf
  <2>3. FramesAreMade(stack)' /\ UpdatesFirst(stack)' /\ ClosingIsClean(stack)'
    BY <1>1, <1>7, <1>10 DEF FramesAreMade, UpdatesFirst, ClosingIsClean
  <2>4. ASSUME NEW d \in connections, ws[d] = "open"
        PROVE  /\ \A u \in Users : OwesState(rest, d, u) \/ views'[d].states[u] = states[u]
               /\ views'[d].updates = IF OwesUpdate(rest, d) THEN updates - 1 ELSE updates
    <3>1. CASE d # c
      <4>1. d \in Connections
        BY MadeAreConnections DEF AwarenessInv
      <4> QED BY <1>8, <2>1, <2>4, <3>1, <4>1
    <3>2. CASE d = c
      <4>1. /\ \A u \in Users : OwesState(stack, c, u) \/ views[c].states[u] = states[u]
            /\ views[c].updates = IF OwesUpdate(stack, c) THEN updates - 1 ELSE updates
        BY <2>4, <3>2 DEF AwarenessInv, StackInv, ViewsMatch
      <4>2. ASSUME NEW u \in Users
            PROVE  OwesState(rest, c, u) \/ views'[c].states[u] = states[u]
        <5>1. CASE u \in Top.users
          BY <2>1, <5>1
        <5>2. CASE u \notin Top.users /\ OwesState(stack, c, u)
          BY <1>2, <1>6, <5>2 DEF OwesState
        <5>3. CASE u \notin Top.users /\ views[c].states[u] = states[u]
          BY <2>1, <5>3
        <5> QED BY <4>1, <5>1, <5>2, <5>3
      <4>3. views'[c].updates = IF OwesUpdate(rest, c) THEN updates - 1 ELSE updates
        <5>1. 1 \in DOMAIN stack /\ updates \in Nat
          BY <1>2 DEF AwarenessInv, TypeInv
        <5>2. CASE Top.update
          <6>1. Len(stack) = 1
            BY <1>1, <1>2, <5>2 DEF AwarenessInv, StackInv, UpdatesFirst
          <6>2. OwesUpdate(stack, c) /\ ~OwesUpdate(rest, c)
            BY <1>1, <1>2, <1>4, <1>6, <5>1, <5>2, <6>1 DEF OwesUpdate, Idle
          <6> QED BY <2>1, <4>1, <5>1, <5>2, <6>2
        <5>3. CASE ~Top.update
          <6>1. OwesUpdate(stack, c) <=> OwesUpdate(rest, c)
            BY <1>1, <1>2, <1>6, <5>1, <5>3 DEF OwesUpdate, Idle
          <6> QED BY <2>1, <4>1, <5>3, <6>1
        <5> QED BY <5>2, <5>3
      <4> QED BY <3>2, <4>2, <4>3
    <3> QED BY <3>1, <3>2
  <2>5. ViewsMatch(stack)'
    <3> SUFFICES ASSUME NEW d \in connections, ws[d] = "open"
                 PROVE  /\ \A u \in Users :
                             OwesState(stack', d, u) \/ views'[d].states[u] = states[u]
                        /\ views'[d].updates = IF OwesUpdate(stack', d) THEN updates - 1
                                               ELSE updates
      <4>1. UNCHANGED <<ws, connections, states, updates>>
        BY <1>1, <1>10
      <4> QED BY <4>1 DEF ViewsMatch, OwesState, OwesUpdate
    <3> QED BY <1>10, <2>4
  <2> QED BY <2>2, <2>3, <2>5, <2>6 DEF AwarenessInv, StackInv
<1> QED BY <1>5, <1>9, <1>10

-----------------------------------------------------------------------------
(* What begins when no call is in progress.                                *)

\* An event that only calls close, or nothing.
LEMMA InvWebSocketGone ==
    ASSUME AwarenessInv, NEW c \in Connections, WebSocketGone(c) PROVE AwarenessInv'
<1>1. /\ stack' = stack
      /\ ws' \in [Connections -> {"open", "gone", "handled"}]
      /\ \A d \in Connections : /\ ws'[d] = "open" => ws[d] = "open"
                                /\ ws'[d] = "handled" => ws[d] = "handled"
  BY DEF AwarenessInv, TypeInv, WebSocketGone
<1> QED BY <1>1, SameStack DEF AwarenessInv, WebSocketGone

\* Close is called by nobody.
LEMMA CloseFromOutside ==
    ASSUME AwarenessInv, Idle, NEW c \in Connections, Close(c, <<>>),
           ws' \in [Connections -> {"open", "gone", "handled"}],
           \A d \in Connections : /\ ws'[d] = "open" => ws[d] = "open"
                                  /\ ws'[d] = "handled" => ws[d] = "handled" \/ d = c,
           UNCHANGED <<userOf, connections, clients, userClock, clocks, updates, views,
                       registered, callbacks>>
    PROVE  AwarenessInv'
<1>1. StackInv(<<>>) /\ CallsInv(<<>>)
  BY DEF AwarenessInv, Idle
<1>2. NoPairs(<<>>)
  BY DEF NoPairs, CallsOf
<1> QED BY <1>1, <1>2, CloseInv DEF AwarenessInv

LEMMA InvHandleClose ==
    ASSUME AwarenessInv, NEW c \in Connections, HandleClose(c) PROVE AwarenessInv'
<1>1. /\ ws' \in [Connections -> {"open", "gone", "handled"}]
      /\ \A d \in Connections : /\ ws'[d] = "open" => ws[d] = "open"
                                /\ ws'[d] = "handled" => ws[d] = "handled" \/ d = c
  BY DEF AwarenessInv, TypeInv, HandleClose
<1> QED BY <1>1, CloseFromOutside DEF HandleClose

LEMMA InvServerCloses ==
    ASSUME AwarenessInv, NEW c \in Connections, ServerCloses(c) PROVE AwarenessInv'
<1>1. TypeInv /\ UNCHANGED ws
  BY DEF AwarenessInv, ServerCloses
<1> QED BY <1>1, CloseFromOutside, SameWebSockets DEF ServerCloses

\* A broadcast that an event begins reaches every connection.
LEMMA BroadcastBegins ==
    ASSUME AwarenessInv, Idle, NEW users \in SUBSET Users, NEW update \in BOOLEAN,
           stack' = <<Broadcast(users, update)>>,
           \A u \in Users \ users : states'[u] = states[u],
           updates' = IF update THEN updates + 1 ELSE updates,
           UNCHANGED <<ws, connections, userOf, views, registered, callbacks>>
    PROVE  StackInv(stack)' /\ CallsInv(stack)'
<1> DEFINE frame == Broadcast(users, update)
<1>1. connections \subseteq Connections /\ updates \in Nat
  BY MadeAreConnections DEF AwarenessInv, TypeInv
<1>2. /\ frame \in Frames /\ frame.op = "broadcast" /\ frame.todo = connections
      /\ frame.users = users /\ frame.update = update
  BY <1>1 DEF Broadcast, Frames
<1> HIDE DEF frame
<1>3. /\ stack' \in Seq(Frames) /\ DOMAIN stack' = {1} /\ stack'[1] = frame /\ stack' # <<>>
  <2>1. stack' = <<frame>>
    BY DEF frame
  <2> QED BY <1>2, <2>1
<1>4. FramesAreMade(stack)' /\ UpdatesFirst(stack)' /\ ClosingIsClean(stack)'
  BY <1>2, <1>3 DEF FramesAreMade, UpdatesFirst, ClosingIsClean
<1>5. ASSUME NEW d \in connections, ws[d] = "open"
      PROVE  /\ \A u \in Users : OwesState(stack', d, u) \/ views[d].states[u] = states'[u]
             /\ views[d].updates = IF OwesUpdate(stack', d) THEN updates' - 1 ELSE updates'
  <2>1. /\ \A u \in Users : views[d].states[u] = states[u]
        /\ views[d].updates = updates
    BY <1>5 DEF AwarenessInv, StackInv, ViewsMatch, OwesState, OwesUpdate, Idle
  <2>2. OwesUpdate(stack', d) <=> update
    BY <1>2, <1>3 DEF OwesUpdate
  <2>3. \A u \in users : OwesState(stack', d, u)
    BY <1>2, <1>3 DEF OwesState
  <2> QED BY <1>1, <2>1, <2>2, <2>3
<1>6. ViewsMatch(stack)'
  BY <1>5 DEF ViewsMatch, OwesState, OwesUpdate
<1>7. CallsInv(stack)'
  <2>1. \A d \in Connections : CallsOf(stack', d) = {} /\ CallsOf(stack, d) = {}
    BY <1>2, <1>3 DEF CallsOf, Idle
  <2> QED BY <2>1 DEF AwarenessInv, CallsInv, CallsOfInv, CallsOf
<1> QED BY <1>4, <1>6, <1>7 DEF StackInv

\* The user behind a connection.
LEMMA UserIsTyped ==
    ASSUME TypeInv, NEW c \in connections PROVE userOf[c] \in Users /\ c \in Connections
BY MadeAreConnections, ElementOfSeq DEF TypeInv

LEMMA InvUpdateState ==
    ASSUME AwarenessInv, NEW c \in Connections, UpdateState(c) PROVE AwarenessInv'
<1> DEFINE u == userOf[c]
<1>1. Idle /\ c \in connections /\ u \in Users
  BY UserIsTyped DEF AwarenessInv, UpdateState, CanSend
<1>2. PICK clock \in {userClock[u], userClock[u] + 1} \ {0} :
         /\ userClock' = [userClock EXCEPT ![u] = clock]
         /\ states' = [states EXCEPT ![u] = clock]
         /\ clocks' = [clocks EXCEPT ![u] = clock]
         /\ clients' = [clients EXCEPT ![c] = IF clocks[u] = 0 THEN clients[c] \cup {u}
                                              ELSE clients[c]]
  BY DEF UpdateState
<1>3. /\ stack' = <<Broadcast({u}, FALSE)>>
      /\ UNCHANGED <<userOf, ws, connections, updates, views, returning, registered, callbacks>>
  BY DEF UpdateState
<1> HIDE DEF u
<1>4. clock \in Nat /\ clock # 0
  BY <1>1, <1>2 DEF AwarenessInv, TypeInv
<1>5. TypeInv'
  BY <1>1, <1>2, <1>3, <1>4 DEF AwarenessInv, TypeInv
<1>6. OwnedInv'
  <2>1. /\ \A v \in Users : states'[v] = (IF v = u THEN clock ELSE states[v])
                          /\ clocks'[v] = (IF v = u THEN clock ELSE clocks[v])
        /\ \A d \in Connections : clients[d] \subseteq clients'[d]
        /\ clocks[u] = 0 => u \in clients'[c]
        /\ connections \subseteq Connections
    BY <1>1, <1>2, UserIsTyped DEF AwarenessInv, TypeInv
  <2>2. ASSUME NEW v \in Users \ returning, states'[v] # None
        PROVE  \E d \in connections : v \in clients'[d]
    <3>1. CASE v = u /\ clocks[u] = 0
      BY <1>1, <2>1, <3>1
    <3>2. CASE states[v] # None
      BY <2>1, <3>2 DEF AwarenessInv, OwnedInv
    <3>3. CASE v = u /\ clocks[u] # 0 /\ states[v] = None
      BY <2>2, <3>3 DEF AwarenessInv, OwnedInv
    <3> QED BY <2>1, <2>2, <3>1, <3>2, <3>3
  <2> QED BY <1>3, <1>4, <2>1, <2>2 DEF AwarenessInv, OwnedInv, None
<1>8. StackInv(stack)' /\ CallsInv(stack)'
  <2>1. \A v \in Users \ {u} : states'[v] = states[v]
    BY <1>1, <1>2 DEF AwarenessInv, TypeInv
  <2> QED BY <1>1, <1>3, <2>1, BroadcastBegins
<1> QED BY <1>5, <1>6, <1>8 DEF AwarenessInv

LEMMA InvRemoveState ==
    ASSUME AwarenessInv, NEW c \in Connections, RemoveState(c) PROVE AwarenessInv'
<1> DEFINE u == userOf[c]
<1>1. Idle /\ c \in connections /\ u \in Users
  BY UserIsTyped DEF AwarenessInv, RemoveState, CanSend
<1>2. /\ userClock' = [userClock EXCEPT ![u] = userClock[u] + 1]
      /\ clocks' = [clocks EXCEPT ![u] = userClock[u] + 1]
      /\ states' = [states EXCEPT ![u] = None]
      /\ clients' = [clients EXCEPT ![c] = clients[c] \ {u}]
      /\ returning' = returning \cup {u}
      /\ stack' = <<Broadcast({u}, FALSE)>>
      /\ UNCHANGED <<userOf, ws, connections, updates, views, registered, callbacks>>
  BY DEF RemoveState
<1> HIDE DEF u
<1>3. TypeInv'
  <2>1. userClock[u] + 1 \in Nat /\ None \in Nat
    BY <1>1 DEF AwarenessInv, TypeInv, None
  <2>2. clients' \in [Connections -> SUBSET Users]
    BY <1>2 DEF AwarenessInv, TypeInv
  <2>3. /\ userClock' \in [Users -> Nat] /\ clocks' \in [Users -> Nat]
        /\ states' \in [Users -> Nat]
    BY <1>2, <2>1 DEF AwarenessInv, TypeInv
  <2> QED BY <1>1, <1>2, <2>2, <2>3 DEF AwarenessInv, TypeInv
<1>4. OwnedInv'
  <2>1. /\ \A v \in Users \ {u} : states'[v] = states[v] /\ clocks'[v] = clocks[v]
        /\ \A d \in Connections : clients[d] \ {u} \subseteq clients'[d]
        /\ connections \subseteq Connections
    BY <1>1, <1>2, UserIsTyped DEF AwarenessInv, TypeInv
  <2>2. ASSUME NEW v \in Users \ returning', states'[v] # None
        PROVE  \E d \in connections : v \in clients'[d]
    <3>1. v # u /\ v \in Users \ returning /\ states[v] # None
      BY <1>2, <2>1, <2>2
    <3>2. PICK d \in connections : v \in clients[d]
      BY <3>1 DEF AwarenessInv, OwnedInv
    <3> QED BY <2>1, <3>1, <3>2
  <2>3. \A v \in Users : (clocks'[v] # 0 /\ states'[v] = None) => v \in returning'
    BY <1>2, <2>1 DEF AwarenessInv, OwnedInv
  <2> QED BY <1>2, <2>2, <2>3 DEF OwnedInv
<1>6. StackInv(stack)' /\ CallsInv(stack)'
  <2>1. \A v \in Users \ {u} : states'[v] = states[v]
    BY <1>1, <1>2 DEF AwarenessInv, TypeInv
  <2> QED BY <1>1, <1>2, <2>1, BroadcastBegins
<1> QED BY <1>3, <1>4, <1>6 DEF AwarenessInv

LEMMA InvStateTimesOut ==
    ASSUME AwarenessInv, NEW u \in Users, StateTimesOut(u) PROVE AwarenessInv'
<1>1. /\ Idle /\ states' = [states EXCEPT ![u] = None]
      /\ returning' = returning \cup {u}
      /\ stack' = <<Broadcast({u}, FALSE)>>
      /\ UNCHANGED <<userOf, ws, connections, clients, userClock, clocks, updates, views,
                     registered, callbacks>>
  BY DEF StateTimesOut
<1>2. TypeInv'
  BY <1>1 DEF AwarenessInv, TypeInv, None
<1>3. OwnedInv'
  BY <1>1 DEF AwarenessInv, TypeInv, OwnedInv
<1>5. StackInv(stack)' /\ CallsInv(stack)'
  <2>1. \A v \in Users \ {u} : states'[v] = states[v]
    BY <1>1 DEF AwarenessInv, TypeInv
  <2> QED BY <1>1, <2>1, BroadcastBegins
<1> QED BY <1>2, <1>3, <1>5 DEF AwarenessInv

LEMMA InvUpdateDocument ==
    ASSUME AwarenessInv, NEW c \in Connections, UpdateDocument(c) PROVE AwarenessInv'
<1>1. /\ Idle /\ updates' = updates + 1 /\ stack' = <<Broadcast({}, TRUE)>>
      /\ UNCHANGED <<userOf, ws, connections, clients, userClock, states, clocks, views,
                     returning, registered, callbacks>>
  BY DEF UpdateDocument, CanSend
<1>2. TypeInv' /\ OwnedInv'
  BY <1>1 DEF AwarenessInv, TypeInv, OwnedInv
<1>3. StackInv(stack)' /\ CallsInv(stack)'
  BY <1>1, BroadcastBegins
<1> QED BY <1>2, <1>3 DEF AwarenessInv

LEMMA InvConnect ==
    ASSUME AwarenessInv, NEW u \in Users, Connect(u) PROVE AwarenessInv'
<1> DEFINE c == Len(userOf) + 1
<1>1. /\ Idle /\ c \in Connections /\ userOf' = Append(userOf, u)
      /\ connections' = connections \cup {c}
      /\ views' = [views EXCEPT ![c] = [states |-> states, updates |-> updates]]
      /\ registered \subseteq registered' /\ registered' \subseteq registered \cup {c}
      /\ UNCHANGED <<clients, userClock, clocks, updates, callbacks>>
  BY DEF Connect, FirstView
<1>2. PICK state \in {"open", "gone", "handled"} :
         /\ ws' = [ws EXCEPT ![c] = state] /\ CloseIfGone(c, state)
         /\ state = "open" => c \in registered'
  BY DEF Connect
<1>3. /\ userOf \in Seq(Users) /\ Len(userOf) \in Nat /\ DOMAIN userOf = 1 .. Len(userOf)
      /\ userOf' \in Seq(Users) /\ Len(userOf') = c /\ DOMAIN userOf' = 1 .. c
  BY <1>1, LenProperties DEF AwarenessInv, TypeInv
<1>4. /\ c \notin connections /\ c \notin DOMAIN userOf
      /\ DOMAIN userOf' = DOMAIN userOf \cup {c} /\ c <= MaxConnections
  <2>1. c \notin DOMAIN userOf
    BY <1>3
  <2>2. DOMAIN userOf' = DOMAIN userOf \cup {c}
    BY <1>3
  <2>3. c <= MaxConnections
    BY <1>1, <1>3, AwarenessAssumption DEF Connections
  <2> QED BY <2>1, <2>2, <2>3 DEF AwarenessInv, TypeInv
<1> HIDE DEF c
\* The connection has no states to remove.
<1>5. /\ UNCHANGED <<states, returning>>
      /\ stack' = IF state = "open" THEN <<>> ELSE <<Closing(c)>>
  <2>1. CASE state = "open"
    BY <1>1, <1>2, <2>1 DEF CloseIfGone, Idle
  <2>2. CASE state # "open"
    <3>1. clients[c] = {}
      BY <1>1, <1>4 DEF AwarenessInv, TypeInv
    <3>2. {v \in clients[c] : states[v] # None} = {}
      BY <3>1
    <3>3. /\ states' = [v \in Users |-> states[v]] /\ returning' = returning
          /\ stack' = Append(<<>>, Closing(c)) \o <<>>
      BY <1>2, <2>2, <3>2 DEF CloseIfGone, RemoveConnection
    <3>4. Closing(c) \in Frames
      BY <1>1 DEF Closing, Frames
    <3>5. Append(<<>>, Closing(c)) \o <<>> = <<Closing(c)>>
      <4>1. <<>> \in Seq(Frames)
        OBVIOUS
      <4>2. Append(<<>>, Closing(c)) \o <<>> = Append(<<>>, Closing(c))
        BY <3>4, <4>1, FramesPushed
      <4> QED BY <4>2
    <3> QED BY <2>2, <3>3, <3>5 DEF AwarenessInv, TypeInv
  <2> QED BY <2>1, <2>2
<1>6. [states |-> states, updates |-> updates] \in Views
  BY DEF AwarenessInv, TypeInv, Views
<1>7. TypeInv'
  <2>1. ws' \in [Connections -> {"open", "gone", "handled"}]
    BY <1>2 DEF AwarenessInv, TypeInv
  <2> QED BY <1>1, <1>3, <1>4, <1>5, <1>6, <2>1 DEF AwarenessInv, TypeInv
<1>8. OwnedInv'
  BY <1>1, <1>5 DEF AwarenessInv, OwnedInv
<1>9. /\ stack = <<>> /\ stack' \in Seq(Frames)
      /\ DOMAIN stack' = IF state = "open" THEN {} ELSE {1}
      /\ Len(stack') \in Nat
      /\ state # "open" => stack'[1].op = "close" /\ stack'[1].connection = c
  <2>1. Closing(c) \in Frames
    BY <1>1 DEF Closing, Frames
  <2> QED BY <1>1, <1>5, <2>1 DEF Closing, Idle
<1>10. FramesAreMade(stack)' /\ UpdatesFirst(stack)' /\ ClosingIsClean(stack)'
  <2>1. clients'[c] = {}
    BY <1>1, <1>4 DEF AwarenessInv, TypeInv
  <2> QED BY <1>4, <1>9, <2>1 DEF FramesAreMade, UpdatesFirst, ClosingIsClean
<1>11. ViewsMatch(stack)'
  <2>1. ASSUME NEW d \in connections', ws'[d] = "open"
        PROVE  /\ \A v \in Users : views'[d].states[v] = states[v]
               /\ views'[d].updates = updates
    <3>1. CASE d = c
      BY <1>1, <3>1 DEF AwarenessInv, TypeInv
    <3>2. CASE d # c
      <4>1. views'[d] = views[d] /\ d \in connections /\ ws[d] = "open"
        BY <1>1, <1>2, <2>1, <3>2 DEF AwarenessInv, TypeInv
      <4> QED BY <1>9, <4>1 DEF AwarenessInv, StackInv, ViewsMatch, OwesState, OwesUpdate
    <3> QED BY <3>1, <3>2
  <2>2. \A d : ~OwesUpdate(stack', d)
    BY <1>9 DEF OwesUpdate
  <2> QED BY <1>1, <1>5, <2>1, <2>2 DEF ViewsMatch, OwesUpdate
<1>12. CallsInv(stack)'
  <2>1. ASSUME NEW d \in Connections
        PROVE  /\ CallsOf(stack, d) = {}
               /\ CallsOf(stack', d) = IF d = c /\ state # "open" THEN {1} ELSE {}
    BY <1>9 DEF CallsOf
  <2>2. ASSUME NEW d \in Connections PROVE CallsOfInv(stack, d)'
    <3>1. CallsOfInv(stack, d)
      BY DEF AwarenessInv, CallsInv
    <3>2. CASE d # c
      <4>1. /\ ws'[d] = ws[d] /\ (d \in connections' <=> d \in connections)
            /\ (d \in DOMAIN userOf' <=> d \in DOMAIN userOf)
            /\ (d \in registered' <=> d \in registered)
        BY <1>1, <1>2, <1>4, <3>2 DEF AwarenessInv, TypeInv
      <4> QED BY <1>1, <2>1, <3>1, <3>2, <4>1 DEF CallsOfInv, CallsOf
    <3>3. CASE d = c
      <4>1. ws'[d] = state /\ callbacks[d] = 0 /\ d \in connections'
        BY <1>1, <1>2, <1>4, <3>1, <3>3 DEF AwarenessInv, TypeInv, CallsOfInv
      <4>2. CallsOf(stack, d)' = IF state # "open" THEN {1} ELSE {}
        BY <2>1, <3>3 DEF CallsOf
      <4>3. \A k \in CallsOf(stack, d)' : stack'[k].op = "close"
        BY <1>9, <4>2
      <4>4. \A k, l \in CallsOf(stack, d)' : ~(k < l)
        BY <4>2
      <4>5. d \in DOMAIN userOf' /\ callbacks'[d] = 0
        BY <1>1, <1>4, <3>3, <4>1
      <4>6. (d \in registered' /\ ws'[d] # "handled") \/ CallsOf(stack, d)' # {}
        BY <1>2, <3>3, <4>1, <4>2
      <4> QED BY <4>1, <4>3, <4>4, <4>5, <4>6 DEF CallsOfInv
    <3> QED BY <3>2, <3>3
  <2> QED BY <2>2 DEF CallsInv
<1> QED BY <1>7, <1>8, <1>10, <1>11, <1>12 DEF AwarenessInv, StackInv

LEMMA AwarenessInitInv == Init => AwarenessInv
<1> SUFFICES ASSUME Init PROVE AwarenessInv
  OBVIOUS
<1>1. /\ userOf = <<>> /\ connections = {} /\ returning = {} /\ registered = {} /\ stack = <<>>
      /\ updates = 0 /\ DOMAIN userOf = {}
  BY DEF Init
<1>2. TypeInv
  BY <1>1, AwarenessAssumption DEF Init, TypeInv, Views, Nobody, None
<1>3. OwnedInv /\ CallsInv(stack)
  <2>1. OwnedInv
    BY <1>1 DEF Init, OwnedInv, Nobody, None
  <2>2. \A c \in Connections : CallsOf(stack, c) = {} /\ callbacks[c] = 0
    BY <1>1 DEF Init, CallsOf
  <2> QED BY <1>1, <2>1, <2>2 DEF CallsInv, CallsOfInv
<1>4. FramesAreMade(stack) /\ UpdatesFirst(stack) /\ ClosingIsClean(stack) /\ ViewsMatch(stack)
  BY <1>1 DEF FramesAreMade, UpdatesFirst, ClosingIsClean, ViewsMatch
<1> QED BY <1>2, <1>3, <1>4 DEF AwarenessInv, StackInv

LEMMA AwarenessNextInv == AwarenessInv /\ [Next]_vars => AwarenessInv'
<1> SUFFICES ASSUME AwarenessInv, [Next]_vars PROVE AwarenessInv'
  OBVIOUS
<1>1. CASE UNCHANGED vars
  BY <1>1, SameStack, SameWebSockets DEF AwarenessInv, vars
<1>2. CASE Step
  BY <1>2, InvSendNext, InvEndBroadcast, InvFinishRemoval, InvRunCallbacks,
     InvSendCloseMessage DEF Step
<1>3. ASSUME NEW u \in Users, Connect(u) \/ StateTimesOut(u) PROVE AwarenessInv'
  BY <1>3, InvConnect, InvStateTimesOut
<1>4. ASSUME NEW c \in Connections,
             \/ UpdateState(c) \/ RemoveState(c) \/ UpdateDocument(c)
             \/ WebSocketGone(c) \/ HandleClose(c) \/ ServerCloses(c)
      PROVE  AwarenessInv'
  BY <1>4, InvUpdateState, InvRemoveState, InvUpdateDocument, InvWebSocketGone,
     InvHandleClose, InvServerCloses
<1> QED BY <1>1, <1>2, <1>3, <1>4 DEF Next

LEMMA AwarenessInvHolds == Spec => []AwarenessInv
BY AwarenessInitInv, AwarenessNextInv, PTL DEF Spec

-----------------------------------------------------------------------------
\* Whoever is connected over an open websocket has been sent every update and every
\* present awareness state, and none that was removed, whatever closes while a
\* broadcast is under way (Document.ts:207-213 and :224-230).
THEOREM AwarenessViewsAgree == Spec => []ViewsAgree
<1>1. AwarenessInv => ViewsAgree
  <2> SUFFICES ASSUME AwarenessInv, Idle, NEW c \in connections, ws[c] = "open"
               PROVE  views[c] = [states |-> states, updates |-> updates]
    BY DEF ViewsAgree
  <2>1. /\ \A u \in Users : views[c].states[u] = states[u]
        /\ views[c].updates = updates
    BY DEF AwarenessInv, StackInv, ViewsMatch, OwesState, OwesUpdate, Idle
  <2>2. views[c] \in Views /\ states \in [Users -> Nat]
    BY UserIsTyped DEF AwarenessInv, TypeInv
  <2>3. views[c].states = states
    BY <2>1, <2>2 DEF Views
  <2> QED BY <2>1, <2>2, <2>3 DEF Views
<1> QED BY <1>1, AwarenessInvHolds, PTL

\* An awareness state belongs to a connection that will remove it when it closes
\* (Document.ts:120-133 and :198-205), unless its user had one removed before.
THEOREM AwarenessStatesAreOwned == Spec => []StatesAreOwned
<1>1. AwarenessInv => StatesAreOwned
  BY DEF AwarenessInv, OwnedInv, StatesAreOwned
<1> QED BY <1>1, AwarenessInvHolds, PTL

\* A connection is called back when the document has it no more: once over an open websocket,
\* at most twice over one that has gone; and one that it has was not called back and has a
\* close event to come (Connection.ts:195-209, Document.ts:120-133, ClientConnection.ts:277-285),
\* unless its constructor closed it.
THEOREM AwarenessClosedIsCalledBack == Spec => []ClosedIsCalledBack
<1>1. AwarenessInv => ClosedIsCalledBack
  <2> SUFFICES ASSUME AwarenessInv, Idle, NEW c \in DOMAIN userOf
               PROVE  IF c \in connections
                      THEN callbacks[c] = 0 /\ c \in registered /\ ws[c] # "handled"
                      ELSE c \in registered =>
                             callbacks[c] \in 1 .. (IF ws[c] = "open" THEN 1 ELSE 2)
    BY DEF ClosedIsCalledBack
  <2>1. c \in Connections
    BY MadeAreConnections DEF AwarenessInv
  <2>2. CallsOf(stack, c) = {} /\ CallsOfInv(stack, c)
    BY <2>1 DEF AwarenessInv, CallsInv, CallsOf, Idle
  <2> QED BY <2>2 DEF CallsOfInv
<1> QED BY <1>1, AwarenessInvHolds, PTL

=============================================================================
