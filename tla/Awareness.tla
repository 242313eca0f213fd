------------------------------ MODULE Awareness ------------------------------
(***************************************************************************)
(* packages/server/src/Document.ts: the connections of one document, and   *)
(* the broadcasts to them.  All of it is synchronous: a broadcast sends to *)
(* every connection, a send to a websocket that has gone closes its        *)
(* connection (Connection.ts:154-168), closing removes the awareness       *)
(* states that came through it, and that is broadcast in turn.  The call   *)
(* stack is a variable; everything else waits until it is empty.           *)
(*                                                                         *)
(* The awareness states themselves are kept by y-protocols: a state is     *)
(* replaced by one of a later clock, and a user is "added" only the first  *)
(* time it is seen, as the clocks of removed states are kept.              *)
(***************************************************************************)
EXTENDS Naturals, Sequences, FiniteSets, Functions

CONSTANTS
    Users,           \* awareness client ids
    Reconnecting,    \* a user may come back on another connection
    MaxConnections,  \* bound: connections ever made
    MaxChanges       \* bound: changes of awareness states and updates of the document,
                     \* made by all clients together

ASSUME AwarenessAssumption ==
    /\ Reconnecting \in BOOLEAN
    /\ MaxConnections \in Nat /\ MaxChanges \in Nat

Connections == 1 .. MaxConnections
None == 0

VARIABLES
    userOf,       \* who is behind each connection ever made, in order
    ws,           \* its websocket: open, gone, or gone and the close event handled
    connections,  \* connections that the document has
    clients,      \* per connection, the users whose states came through it
    userClock,    \* the clock of each user's own state
    states,       \* clock of each awareness state, None if removed
    clocks,       \* the last clock seen of each user, kept when a state is removed
    updates,      \* number of updates of the document
    views,        \* auxiliary: the states and updates each client has been sent
    returning,    \* auxiliary: users whose state was removed before
    registered,   \* connections whose onClose callbacks have been registered
    callbacks,    \* auxiliary: how often the onClose callbacks of each have run
    stack         \* calls in progress, the innermost last

vars == <<userOf, ws, connections, clients, userClock, states, clocks, updates, views,
          returning, registered, callbacks, stack>>

Frames == [op : {"broadcast"}, todo : SUBSET Connections, users : SUBSET Users,
           update : BOOLEAN] \cup [op : {"close", "callbacks", "message"}, connection : Connections]

TypeOK ==
    /\ userOf \in Seq(Users) /\ Len(userOf) <= MaxConnections
    /\ ws \in [Connections -> {"open", "gone", "handled"}]
    /\ connections \subseteq DOMAIN userOf
    /\ clients \in [Connections -> SUBSET Users]
    /\ userClock \in [Users -> 0 .. MaxChanges]
    /\ states \in [Users -> 0 .. MaxChanges] /\ clocks \in [Users -> 0 .. MaxChanges]
    /\ \A u \in Users : states[u] \in {None, clocks[u]} /\ clocks[u] <= userClock[u]
    /\ updates \in 0 .. MaxChanges
    /\ views \in [Connections -> [states : [Users -> 0 .. MaxChanges], updates : 0 .. MaxChanges]]
    /\ returning \subseteq Users /\ registered \subseteq DOMAIN userOf
    /\ callbacks \in [Connections -> Nat] /\ stack \in Seq(Frames)

\* What the bound counts.
MayChange == FoldFunction(+, updates, userClock) < MaxChanges

Nobody == [u \in Users |-> None]

Init ==
    /\ userOf = <<>> /\ connections = {} /\ returning = {} /\ registered = {} /\ stack = <<>>
    /\ updates = 0
    /\ ws = [c \in Connections |-> "open"]
    /\ clients = [c \in Connections |-> {}]
    /\ userClock = Nobody /\ states = Nobody /\ clocks = Nobody
    /\ views = [c \in Connections |-> [states |-> Nobody, updates |-> 0]]
    /\ callbacks = [c \in Connections |-> 0]

-----------------------------------------------------------------------------
Idle == stack = <<>>
Top == stack[Len(stack)]
Below == SubSeq(stack, 1, Len(stack) - 1)

Broadcast(users, update) ==
    [op |-> "broadcast", todo |-> connections, users |-> users, update |-> update]
Closing(c) == [op |-> "close", connection |-> c]
CallingBack(c) == [op |-> "callbacks", connection |-> c]
Messaging(c) == [op |-> "message", connection |-> c]

\* Mutant: the states of a closed connection are kept.
RemoveConnectionKeepingStates(c, below) ==
    stack' = Append(below, Closing(c)) /\ UNCHANGED <<states, returning>>

\* removeConnection up to the broadcast that removeAwarenessStates causes; the
\* rest of Connection.close waits on the stack.
RemoveConnection(c, below) ==
    LET removed == {u \in clients[c] : states[u] # None} IN
    /\ states' = [u \in Users |-> IF u \in removed THEN None ELSE states[u]]
    /\ returning' = returning \cup removed
    /\ stack' = Append(below, Closing(c)) \o
                (IF removed = {} THEN <<>> ELSE <<Broadcast(removed, FALSE)>>)

\* Connection.close
Close(c, below) ==
    IF c \in connections THEN RemoveConnection(c, below)
    ELSE stack' = below /\ UNCHANGED <<states, returning>>

\* The rest of removeConnection: the connection is deleted, whether or not a call
\* within has done so already.
FinishRemoval ==
    /\ ~Idle /\ Top.op = "close"
    /\ connections' = connections \ {Top.connection}
    /\ stack' = Append(Below, CallingBack(Top.connection))
    /\ UNCHANGED <<userOf, ws, clients, userClock, states, clocks, updates, views, returning,
                   registered, callbacks>>

\* callbacks.onClose.forEach: there are none before the constructor has returned.
RunCallbacks ==
    /\ ~Idle /\ Top.op = "callbacks"
    /\ callbacks' = [callbacks EXCEPT ![Top.connection] =
                        IF Top.connection \in registered THEN @ + 1 ELSE @]
    /\ stack' = Append(Below, Messaging(Top.connection))
    /\ UNCHANGED <<userOf, ws, connections, clients, userClock, states, clocks, updates, views,
                   returning, registered>>

\* The last statement of close sends the close message, and a send on a
\* websocket that has gone calls close again.
SendCloseMessage ==
    /\ ~Idle /\ Top.op = "message"
    /\ IF ws[Top.connection] = "open"
       THEN stack' = Below /\ UNCHANGED <<states, returning>>
       ELSE Close(Top.connection, Below)
    /\ UNCHANGED <<userOf, ws, connections, clients, userClock, clocks, updates, views,
                   registered, callbacks>>

\* Mutant: the broadcast ends at a connection whose websocket has gone.
RemainingUntilGone(todo, c) == IF ws[c] = "open" THEN todo \ {c} ELSE {}

\* The connections that a broadcast has still to reach after c.
Remaining(todo, c) == todo \ {c}

\* The loops of handleAwarenessUpdate and handleUpdate, over the connections that
\* there were when they began, with Connection.send.
SendNext ==
    /\ ~Idle /\ Top.op = "broadcast" /\ Top.todo # {}
    /\ LET c == CHOOSE d \in Top.todo : \A e \in Top.todo : d <= e
           rest == Append(Below, [Top EXCEPT !.todo = Remaining(Top.todo, c)])
       IN IF ws[c] = "open"
          THEN /\ views' = [views EXCEPT
                    ![c].states = [u \in Users |-> IF u \in Top.users THEN states[u] ELSE @[u]],
                    ![c].updates = IF Top.update THEN @ + 1 ELSE @]
               /\ stack' = rest
               /\ UNCHANGED <<states, returning>>
          ELSE Close(c, rest) /\ UNCHANGED views
    /\ UNCHANGED <<userOf, ws, connections, clients, userClock, clocks, updates, registered,
                   callbacks>>

EndBroadcast ==
    /\ ~Idle /\ Top.op = "broadcast" /\ Top.todo = {}
    /\ stack' = Below
    /\ UNCHANGED <<userOf, ws, connections, clients, userClock, states, clocks, updates,
                   views, returning, registered, callbacks>>

-----------------------------------------------------------------------------
\* sendCurrentAwareness
FirstView == states

\* Mutant: a connection whose websocket has gone is left to the close event.
CloseIfGoneNever(c, state) == UNCHANGED <<states, returning, stack>>

\* A connection made on a websocket that has gone is closed at once: by the send of
\* its constructor, or by setUpNewConnection, which looks at the websocket again.
CloseIfGone(c, state) ==
    IF state = "open" THEN UNCHANGED <<states, returning, stack>>
    ELSE RemoveConnection(c, <<>>)

\* A connection is made (addConnection, sendCurrentAwareness); the sync messages
\* that follow give it the document.  Its websocket may have gone while the hooks
\* were awaited; if there are awareness states to send, the constructor closes the
\* connection then, before its callbacks are registered.
Connect(u) ==
    LET c == Len(userOf) + 1 IN
    /\ Idle /\ c \in Connections
    /\ Reconnecting \/ \A d \in DOMAIN userOf : userOf[d] # u
    /\ userOf' = Append(userOf, u)
    /\ connections' = connections \cup {c}
    /\ views' = [views EXCEPT ![c] = [states |-> FirstView, updates |-> updates]]
    /\ \E state \in {"open", "gone", "handled"} :
         /\ ws' = [ws EXCEPT ![c] = state]
         /\ registered' = IF state # "open" /\ \E v \in Users : states[v] # None
                          THEN registered ELSE registered \cup {c}
         /\ CloseIfGone(c, state)
    /\ UNCHANGED <<clients, userClock, clocks, updates, callbacks>>

CanSend(c) == Idle /\ c \in connections /\ ws[c] = "open"

\* A user's state arrives, the one announced before or a later one.
UpdateState(c) ==
    LET u == userOf[c] IN
    /\ CanSend(c)
    /\ \E clock \in {userClock[u], userClock[u] + 1} \ {0} :
         /\ clock = userClock[u] \/ MayChange
         /\ userClock' = [userClock EXCEPT ![u] = clock]
         /\ clocks[u] < clock
         /\ states' = [states EXCEPT ![u] = clock]
         /\ clocks' = [clocks EXCEPT ![u] = clock]
         /\ clients' = [clients EXCEPT ![c] = IF clocks[u] = 0 THEN @ \cup {u} ELSE @]
    /\ stack' = <<Broadcast({u}, FALSE)>>
    /\ UNCHANGED <<userOf, ws, connections, updates, views, returning, registered, callbacks>>

\* A user's state is taken back (pagehide).
RemoveState(c) ==
    LET u == userOf[c] IN
    /\ CanSend(c)
    /\ clocks[u] # 0 /\ MayChange
    /\ userClock' = [userClock EXCEPT ![u] = @ + 1]
    /\ clocks' = [clocks EXCEPT ![u] = userClock[u] + 1]
    /\ states' = [states EXCEPT ![u] = None]
    /\ clients' = [clients EXCEPT ![c] = @ \ {u}]
    /\ returning' = returning \cup {u}
    /\ stack' = <<Broadcast({u}, FALSE)>>
    /\ UNCHANGED <<userOf, ws, connections, updates, views, registered, callbacks>>

\* y-protocols removes states that were not renewed for 30 s.
StateTimesOut(u) ==
    /\ Idle /\ states[u] # None
    /\ states' = [states EXCEPT ![u] = None]
    /\ returning' = returning \cup {u}
    /\ stack' = <<Broadcast({u}, FALSE)>>
    /\ UNCHANGED <<userOf, ws, connections, clients, userClock, clocks, updates, views,
                   registered, callbacks>>

\* handleUpdate
UpdateDocument(c) ==
    /\ CanSend(c) /\ MayChange
    /\ updates' = updates + 1
    /\ stack' = <<Broadcast({}, TRUE)>>
    /\ UNCHANGED <<userOf, ws, connections, clients, userClock, states, clocks, views,
                   returning, registered, callbacks>>

WebSocketGone(c) ==
    /\ Idle /\ c \in connections /\ ws[c] = "open"
    /\ ws' = [ws EXCEPT ![c] = "gone"]
    /\ UNCHANGED <<userOf, connections, clients, userClock, states, clocks, updates, views,
                   returning, registered, callbacks, stack>>

\* The close event of the websocket; a connection that a broadcast has closed is
\* not in documentConnections any more.
HandleClose(c) ==
    /\ Idle /\ ws[c] = "gone"
    /\ ws' = [ws EXCEPT ![c] = "handled"]
    /\ Close(c, <<>>)
    /\ UNCHANGED <<userOf, connections, clients, userClock, clocks, updates, views, registered,
                   callbacks>>

\* The server closes the connection over an open websocket.
ServerCloses(c) ==
    /\ Idle /\ c \in connections /\ ws[c] = "open"
    /\ Close(c, <<>>)
    /\ UNCHANGED <<userOf, ws, connections, clients, userClock, clocks, updates, views,
                   registered, callbacks>>

Step == SendNext \/ EndBroadcast \/ FinishRemoval \/ RunCallbacks \/ SendCloseMessage

Next ==
    \/ Step
    \/ \E u \in Users : Connect(u) \/ StateTimesOut(u)
    \/ \E c \in Connections :
         \/ UpdateState(c) \/ RemoveState(c) \/ UpdateDocument(c)
         \/ WebSocketGone(c) \/ HandleClose(c) \/ ServerCloses(c)

Spec == Init /\ [][Next]_vars

-----------------------------------------------------------------------------
\* Whoever is connected over an open websocket has been sent every update and
\* every present awareness state, and none that was removed, whatever closes
\* while a broadcast is under way (Document.ts:207-213 and :224-230).
ViewsAgree ==
    Idle => \A c \in connections : ws[c] = "open" =>
                views[c] = [states |-> states, updates |-> updates]

\* An awareness state belongs to a connection that will remove it when it closes
\* (Document.ts:120-133 and :198-205), so that nobody sees a user who left.  A
\* user whose state was removed before is "updated" when it returns, so no
\* connection owns its state, and it stays until y-protocols lets it time out.
StatesAreOwned ==
    Idle => \A u \in Users \ returning :
                states[u] # None => \E c \in connections : u \in clients[c]

\* A connection is called back when the document has it no more, so that its session is
\* cleaned up and the document can be unloaded: once over an open websocket, and at most
\* twice over one that has gone, when the broadcast of its own removal reaches it.  One
\* that the document keeps can be called back, and its websocket's close event is still
\* to come.  A connection that its constructor closed is called back never.
ClosedIsCalledBack ==
    Idle => \A c \in DOMAIN userOf :
        IF c \in connections
        THEN callbacks[c] = 0 /\ c \in registered /\ ws[c] # "handled"
        ELSE c \in registered => callbacks[c] \in 1 .. (IF ws[c] = "open" THEN 1 ELSE 2)

\* The same of every connection.
RemovedIsCalledBack ==
    Idle => \A c \in DOMAIN userOf \ connections : callbacks[c] # 0

\* The callbacks of Connection.onClose are "triggered when the connection is
\* closed" (Connection.ts:87), which it is once: close() checks for it
\* (Connection.ts:196).
CalledBackOnce == \A c \in Connections : callbacks[c] <= 1

=============================================================================
