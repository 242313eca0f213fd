--------------------------------- MODULE Rooms ---------------------------------
(***************************************************************************)
(* packages/provider-react: the rooms below one                            *)
(* CollabApiProviderWebsocketComponent, the providers they create, attach  *)
(* and destroy, and the websocket the component owns or is given.          *)
(*                                                                         *)
(* React is the environment.  A commit renders, runs the cleanups of the   *)
(* effects that change and then the effects, as one step; an update set by *)
(* an effect is rendered in a later commit; in StrictMode the effects of a *)
(* component that mounts run, are cleaned up and run again.  setTimeout    *)
(* queues the deferred destroys in `timers', which fire in order and may   *)
(* do so between any two commits.                                          *)
(***************************************************************************)
EXTENDS Naturals, FiniteSets, SequencesExt

CONSTANTS
    RoomSlots,     \* places of the tree where a room may be mounted
    Props,         \* what a room may be given: [name, token]
    MaxProviders,  \* bound: providers at a time
    OwnSockets,    \* the websockets the component may create
    External,      \* the websocket the application may hand in
    None,
    Batched,       \* a room may be given other props before its update is rendered
    Reused,        \* a name may be used again before its deferred destroy
    Dropped        \* the application may switch from the own websocket to the external

Providers == 1 .. MaxProviders
Sockets == OwnSockets \cup {External}
Names == {props.name : props \in Props}

ASSUME RoomsAssumption ==
    /\ MaxProviders \in Nat /\ {Batched, Reused, Dropped} \subseteq BOOLEAN
    /\ External \notin OwnSockets /\ None \notin Sockets /\ None \notin Providers /\ None \notin Props
    /\ None \notin RoomSlots /\ None \notin Names /\ Sockets \cap Providers = {} /\ IsFiniteSet(RoomSlots)

VARIABLES
    strict,       \* React's StrictMode
    rooms,        \* the props, state and pending update of each room
    providers,    \* the providers in existence
    providerMap,  \* providerMap of each websocket, by effective name
    timers,       \* the deferred destroys, first to fire first
    component,    \* the websocket component: its external prop, and its ref
    alive         \* the own websockets that are not destroyed

reactVars == <<rooms, providers, providerMap, timers>>
vars == <<strict, reactVars, component, alive>>

NoRoom == [props |-> None, socket |-> None, provider |-> None, pending |-> None]
NoProvider == [props |-> None, socket |-> None, attached |-> FALSE, destroyed |-> FALSE,
               isAuthenticated |-> FALSE]
Closed == [mounted |-> FALSE, external |-> FALSE, ref |-> None]

Mounted(r) == rooms[r].props # None

Room == [props : Props \cup {None}, socket : Sockets \cup {None},
         provider : Providers \cup {None}, pending : Providers \cup {None}]
Provider == [props : Props \cup {None}, socket : Sockets \cup {None},
             attached : BOOLEAN, destroyed : BOOLEAN, isAuthenticated : BOOLEAN]
Timer == [owner : RoomSlots \cup {None}, of : Providers \cup OwnSockets]
Component == [mounted : BOOLEAN, external : BOOLEAN, ref : OwnSockets \cup {None}]

TypeOK ==
    /\ strict \in BOOLEAN
    /\ rooms \in [RoomSlots -> Room] /\ providers \in [Providers -> Provider]
    /\ providerMap \in [Sockets -> [Names -> Providers \cup {None}]]
    /\ timers \in Seq(Timer)
    /\ component \in Component /\ alive \subseteq OwnSockets

Init ==
    /\ strict \in BOOLEAN
    /\ rooms = [r \in RoomSlots |-> NoRoom]
    /\ providers = [p \in Providers |-> NoProvider]
    /\ providerMap = [w \in Sockets |-> [n \in Names |-> None]]
    /\ timers = <<>> /\ component = Closed /\ alive = {}

-----------------------------------------------------------------------------
(* The effects work on s, the state within a commit. *)
Now == [rooms |-> rooms, providers |-> providers, map |-> providerMap,
        timers |-> timers]

\* A provider that nothing refers to any more is collected.
Kept(s, p) ==
    \/ s.providers[p].attached
    \/ \E w \in Sockets, n \in Names : s.map[w][n] = p
    \/ \E r \in RoomSlots : p \in {s.rooms[r].provider, s.rooms[r].pending}
    \/ \E i \in DOMAIN s.timers : s.timers[i].of = p
Becomes(s) ==
    /\ rooms' = s.rooms /\ providerMap' = s.map /\ timers' = s.timers
    /\ providers' = [p \in Providers |-> IF Kept(s, p) THEN s.providers[p] ELSE NoProvider]

\* new CollabApiProvider, for the props of each of the rooms: neither attached nor
\* connected, and set as the update that is rendered later.
Unused(s) == {p \in Providers : s.providers[p].props = None}
NewProviders(s, new) == CHOOSE f \in Injection(new, Unused(s)) : TRUE
Created(s, new) ==
    LET of == NewProviders(s, new)
        Owners(p) == {r \in new : of[r] = p}
    IN  [s EXCEPT
          !.providers = [p \in Providers |->
              IF Owners(p) = {} THEN s.providers[p]
              ELSE LET room == s.rooms[CHOOSE r \in Owners(p) : TRUE]
                   IN  [props |-> room.props, socket |-> room.socket, attached |-> FALSE,
                        destroyed |-> FALSE, isAuthenticated |-> FALSE]],
          !.rooms = [r \in RoomSlots |->
              IF r \in new THEN [s.rooms[r] EXCEPT !.pending = of[r]] ELSE s.rooms[r]]]

\* attach(), of the provider and of the websocket: a second provider of the name is
\* refused once the first is authenticated, and takes its place before.
Attach(s, p) ==
    LET it == s.providers[p]
        existing == s.map[it.socket][it.props.name]
    IN  IF it.attached THEN s
        ELSE IF existing \notin {None, p} /\ s.providers[existing].isAuthenticated
        THEN [s EXCEPT !.providers[p].attached = TRUE]
        ELSE [s EXCEPT !.providers[p].attached = TRUE, !.map[it.socket][it.props.name] = p]

\* Mutant: destroy() does not detach.
DestroyAttached(s, gone) ==
    [s EXCEPT !.providers = [p \in Providers |->
        IF p \in gone THEN [s.providers[p] EXCEPT !.destroyed = TRUE] ELSE s.providers[p]]]

\* destroy() detaches, and the websocket forgets whoever has the name.
Destroy(s, gone) ==
    LET Forgotten(w, n) ==
            \E p \in gone : s.providers[p].socket = w /\ s.providers[p].props.name = n
    IN  [s EXCEPT
          !.providers = [p \in Providers |->
              IF p \in gone THEN [s.providers[p] EXCEPT !.destroyed = TRUE, !.attached = FALSE]
              ELSE s.providers[p]],
          !.map = [w \in Sockets |-> [n \in Names |->
              IF Forgotten(w, n) THEN None ELSE s.map[w][n]]]]

\* setTimeout(..., 0) and clearTimeout with destroyTimeoutRef, which the component
\* that armed it holds for as long as it is mounted.
Arm(s, owner, what) == [s EXCEPT !.timers = Append(@, [owner |-> owner, of |-> what])]
Held(s, owner) == {i \in DOMAIN s.timers : s.timers[i].owner = owner}
Clear(s, owner) ==
    IF Held(s, owner) = {} THEN s
    ELSE [s EXCEPT !.timers = RemoveAt(@, CHOOSE i \in Held(s, owner) : TRUE)]

\* The first effect: other props than the provider's, so another provider.
Recreate(s, changed) ==
    LET Stale(r) == LET it == s.providers[s.rooms[r].provider]
                    IN  it.props # s.rooms[r].props \/ it.socket # s.rooms[r].socket
        stale == {r \in changed : Stale(r)}
    IN  Created(Destroy(s, {s.rooms[r].provider : r \in stale}), stale)

\* Mutant: the timeout of the cleanup is not cleared.
AttachEffectNotClearing(s, r) == Attach(s, s.rooms[r].provider)

\* The second effect, and its cleanup.
AttachEffect(s, r) == Attach(Clear(s, r), s.rooms[r].provider)
Cleanup(s, r, p) == Arm(s, r, p)

\* A room renders its props, and the provider of a pending update.
Rendered(s, r, props, socket) ==
    LET room == s.rooms[r]
        p == IF room.pending = None THEN room.provider ELSE room.pending
    IN  [s EXCEPT !.rooms[r] = [props |-> props, socket |-> socket, provider |-> p, pending |-> None]]

\* A commit of a mounted room.
Commit(s, r, props, socket) ==
    LET room == s.rooms[r]
        rendered == Rendered(s, r, props, socket)
        replaced == room.pending # None
        cleaned == IF replaced THEN Cleanup(rendered, r, room.provider) ELSE rendered
        changed == props # room.props \/ socket # room.socket
        recreated == IF changed THEN Recreate(cleaned, {r}) ELSE cleaned
    IN  IF ~replaced THEN recreated
        \* both effects close over the provider that was rendered
        ELSE AttachEffect(recreated, r)

-----------------------------------------------------------------------------
Socket == IF component.external THEN External ELSE component.ref

\* The application gives a name to one room at a time, and, unless Reused, not again
\* before the room that had it has rendered another and its deferred destroy is over.
IsFree(name, r) ==
    LET Has(p) == p \in Providers /\ providers[p].props.name = name IN
    /\ \A q \in RoomSlots \ {r} : Mounted(q) =>
         rooms[q].props.name # name /\ (Reused \/ ~Has(rooms[q].provider))
    /\ \A i \in DOMAIN timers : Reused \/ ~Has(timers[i].of)
    /\ Unused(Now) # {}

Mount(r, props) ==
    /\ component.mounted /\ ~Mounted(r) /\ IsFree(props.name, r)
    /\ LET placed == [Now EXCEPT !.rooms[r] = [props |-> props, socket |-> Socket,
                                              provider |-> None, pending |-> None]]
           rendered == Rendered(Created(placed, {r}), r, props, Socket)
           mounted == AttachEffect(rendered, r)
           p == rendered.rooms[r].provider
       IN  Becomes(IF strict THEN AttachEffect(Cleanup(mounted, r, p), r) ELSE mounted)
    /\ UNCHANGED <<strict, component, alive>>

\* Other props, with or without the update that an effect has set.
ChangeProps(r, props) ==
    /\ Mounted(r) /\ props # rooms[r].props /\ IsFree(props.name, r)
    /\ Batched \/ rooms[r].pending = None
    /\ Becomes(Commit(Now, r, props, rooms[r].socket))
    /\ UNCHANGED <<strict, component, alive>>

Rerender(r) ==
    /\ rooms[r].pending # None
    /\ Becomes(Commit(Now, r, rooms[r].props, rooms[r].socket))
    /\ UNCHANGED <<strict, component, alive>>

\* Mutant: the effect has no cleanup.
UnmountedForgotten(s, left) ==
    [s EXCEPT !.rooms = [r \in RoomSlots |-> IF r \in left THEN NoRoom ELSE s.rooms[r]]]

\* The cleanups of the rooms that go, whose timeouts nobody can clear any more.
Unmounted(s, left) ==
    LET order == SetToSeq(left)
        armed == [i \in DOMAIN order |-> [owner |-> None, of |-> s.rooms[order[i]].provider]]
        Orphaned(t) == IF t.owner \in left THEN [t EXCEPT !.owner = None] ELSE t
    IN  [s EXCEPT
          !.timers = [i \in DOMAIN @ |-> Orphaned(@[i])] \o armed,
          !.rooms = [r \in RoomSlots |-> IF r \in left THEN NoRoom ELSE s.rooms[r]]]

MountedRooms == {r \in RoomSlots : Mounted(r)}

Unmount(r) ==
    /\ Mounted(r)
    /\ Becomes(Unmounted(Now, {r}))
    /\ UNCHANGED <<strict, component, alive>>

-----------------------------------------------------------------------------
\* Rendering the component creates its websocket once.
NewSockets == OwnSockets \ (alive \cup {component.ref} \cup {providers[p].socket : p \in Providers})

MountComponent(external) ==
    /\ ~component.mounted
    /\ \E w \in IF external THEN {None} ELSE NewSockets :
         /\ component' = [mounted |-> TRUE, external |-> external, ref |-> w]
         /\ alive' = alive \cup ({w} \ {None})
    /\ UNCHANGED <<strict, reactVars>>

\* Every room renders with the other websocket, and recreates its provider; the
\* cleanup's timeout is cleared by the effect that runs after it, so nothing is
\* destroyed.
SwitchSocket ==
    /\ component.mounted
    /\ component.external \/ Dropped
    /\ \A r \in RoomSlots : rooms[r].pending = None
    /\ Injection(MountedRooms, Unused(Now)) # {}
    /\ \E w \in IF ~component.external \/ component.ref # None THEN {component.ref} ELSE NewSockets :
         LET socket == IF component.external THEN w ELSE External
             rendered == [Now EXCEPT !.rooms = [r \in RoomSlots |->
                 IF Mounted(r) THEN [rooms[r] EXCEPT !.socket = socket] ELSE rooms[r]]]
         IN  /\ component' = [mounted |-> TRUE, external |-> ~component.external, ref |-> w]
             /\ alive' = alive \cup {w}
             /\ Becomes(Recreate(rendered, MountedRooms))
    /\ UNCHANGED strict

\* The cleanup destroys the websocket only if the component created it.
OwnsSocket == ~component.external

\* The component goes with its rooms; the cleanups of a parent run first.
UnmountComponent ==
    /\ component.mounted
    /\ LET left == IF OwnsSocket THEN Arm(Now, None, component.ref) ELSE Now
       IN  Becomes(Unmounted(left, MountedRooms))
    /\ component' = Closed
    /\ UNCHANGED <<strict, alive>>

\* The first deferred destroy.
TimerFires ==
    /\ timers # <<>>
    /\ LET it == Head(timers).of
           rest == [Now EXCEPT !.timers = Tail(@)]
       IN  \/ it \in Providers /\ Becomes(Destroy(rest, {it})) /\ UNCHANGED alive
           \/ it \notin Providers /\ Becomes(rest) /\ alive' = alive \ {it}
    /\ UNCHANGED <<strict, component>>

\* The server's answer reaches the provider that the websocket has for the name.
Authenticated(w, n) ==
    LET p == providerMap[w][n] IN
    /\ p # None /\ w \in alive \cup {External} /\ ~providers[p].isAuthenticated
    /\ providers' = [providers EXCEPT ![p].isAuthenticated = TRUE]
    /\ UNCHANGED <<strict, rooms, providerMap, timers, component, alive>>

Next ==
    \/ \E r \in RoomSlots : Rerender(r) \/ Unmount(r)
    \/ \E r \in RoomSlots, props \in Props : Mount(r, props) \/ ChangeProps(r, props)
    \/ \E external \in BOOLEAN : MountComponent(external)
    \/ SwitchSocket \/ UnmountComponent \/ TimerFires
    \/ \E w \in Sockets, n \in Names : Authenticated(w, n)

Spec == Init /\ [][Next]_vars

\* Timeouts fire.
FairSpec == Spec /\ WF_vars(TimerFires)

-----------------------------------------------------------------------------
\* A mounted room whose updates are rendered has a provider of its own props, that
\* is attached, not destroyed, and the one its websocket delivers the messages of
\* the name to, in StrictMode too ("handles React's StrictMode gracefully by using
\* deferred destruction", CollabApiRoom.tsx:35).
MountedIsAttached ==
    \A r \in RoomSlots :
        LET room == rooms[r]
            it == providers[room.provider]
        IN  Mounted(r) /\ room.pending = None =>
                /\ it.props = room.props /\ it.socket = room.socket
                /\ it.attached /\ ~it.destroyed
                /\ providerMap[it.socket][it.props.name] = room.provider
                /\ it.socket \in alive \cup {External}

\* Nothing is left behind: a provider that is attached is that of a mounted room or
\* its deferred destroy is coming (CollabApiRoom.tsx:112-125), and so is that of a
\* websocket that no component uses (CollabApiProviderWebsocketComponent.tsx:50-66).
NothingIsLeft ==
    LET Coming(it) == \E i \in DOMAIN timers : timers[i].of = it IN
    /\ \A p \in Providers :
         providers[p].attached => Coming(p) \/ \E r \in RoomSlots : rooms[r].provider = p
    /\ \A w \in alive : Coming(w) \/ (component.mounted /\ component.ref = w)

\* A name that no room has any more is given up on every websocket in the end, so
\* that the server closes its connection.
NamesAreReleased ==
    \A w \in Sockets, n \in Names :
        (\A r \in RoomSlots : Mounted(r) => <<rooms[r].socket, rooms[r].props.name>> # <<w, n>>)
        ~> \/ providerMap[w][n] = None
           \/ \E r \in RoomSlots : Mounted(r) /\ <<rooms[r].socket, rooms[r].props.name>> = <<w, n>>
=============================================================================
